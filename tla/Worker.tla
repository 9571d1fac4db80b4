------------------------------- MODULE Worker -------------------------------
(***************************************************************************)
(* The worker process of the conductor: worker.ts (one task slot, the      *)
(* state file) on top of hub-client.ts (the socket, the queue of messages  *)
(* that must arrive, reconnection), for each worker in Workers.            *)
(*                                                                         *)
(* The process is one event loop, so a message handler is one action; the  *)
(* run of a task is split where worker.ts awaits: taken into the slot,     *)
(* checked and accepted, ended.  How the run itself goes is TaskRun.       *)
(*                                                                         *)
(* On its own (Spec) the worker faces a hub that may say anything at any   *)
(* time; Fleet puts the hub of Conductor in its place.                     *)
(***************************************************************************)
EXTENDS Naturals, Sequences

CONSTANTS
  Workers,    \* agent ids of the worker processes
  Tasks,
  NoTask,     \* null
  MaxAttempt, \* bound: attempts a hub message may name
  MaxFaults,  \* bound: faults of each worker and its connection
  FaultKinds, \* the kinds of fault a run explores; failed writes ("disk") are not counted
  MaxWire     \* bound: messages under way, either way, with which an open hub says one more

ASSUME WorkerAssumption ==
  /\ NoTask \notin Tasks
  /\ MaxAttempt \in Nat
  /\ MaxFaults \in Nat
  /\ MaxWire \in Nat
  /\ FaultKinds \subseteq {"crash", "stop", "cut", "hubcut", "break", "disk"}

VARIABLES
  slot,      \* Worker.current, and how far execute() is with it
  active,    \* Worker.state: activeTaskId
  unconf,    \* Worker.state: unconfirmed
  unready,   \* Worker.state: notReady is not null (a recheck timer runs then)
  disk,      \* the state file: what it holds of the first two
  unsaved,   \* the last write of the state file failed, and left something else there
  queue,     \* HubClient.queue
  sock,      \* HubClient.ws: none, open, or ending (no longer OPEN, close event to come)
  reg,       \* HubClient.isRegistered
  stopping,
  broken,    \* the machine lacks something every task needs
  up, down,  \* what is under way to the hub, and to the worker
  faults

state      == <<active, unconf, unready>>
stateFile  == <<disk, unsaved>>
client     == <<queue, sock, reg>>
wires      == <<up, down>>
workerVars == <<slot, state, client, stopping, broken, wires, faults>>

NoSlot    == [task |-> NoTask, attempt |-> 0, stage |-> "none", abort |-> "no"]
NoOutcome == [task |-> NoTask, attempt |-> 0, kind |-> "none"]

Attempts == 1..MaxAttempt

\* What settle() reports through `unconfirmed`.
Outcomes == [task : Tasks, attempt : Attempts, kind : {"completed", "failed", "quota"}]

Report(o)        == [type |-> o.kind, task |-> o.task, attempt |-> o.attempt]
Decline(s)       == [type |-> "decline", task |-> s.task, attempt |-> s.attempt]
DeclineBusy(s)   == [type |-> "busydecline", task |-> s.task, attempt |-> s.attempt]
AcceptMsg(s)     == [type |-> "accept", task |-> s.task, attempt |-> 0]
Idle             == [type |-> "idle", task |-> NoTask, attempt |-> 0]
Busy             == [type |-> "busy", task |-> NoTask, attempt |-> 0]
RegisterMsg(t)   == [type |-> "register", task |-> t, attempt |-> 0]
Registered       == [type |-> "registered", task |-> NoTask, attempt |-> 0]
Assigned(t, n)   == [type |-> "assigned", task |-> t, attempt |-> n]
Resumed(t, n)    == [type |-> "resumed", task |-> t, attempt |-> n]
Revoked(t)       == [type |-> "revoked", task |-> t, attempt |-> 0]

\* task.accept names no attempt; in the model no message that does not name one has another.
UpMsg == [type : {"completed", "failed", "quota", "decline", "busydecline"},
          task : Tasks, attempt : Attempts]
         \cup [type : {"accept"}, task : Tasks, attempt : {0}]
         \cup [type : {"idle", "busy"}, task : {NoTask}, attempt : {0}]
         \cup [type : {"register"}, task : Tasks \cup {NoTask}, attempt : {0}]

ReliableMsg == {m \in UpMsg : m.type \notin {"idle", "busy", "register"}}

DownMsg == [type : {"assigned", "resumed"}, task : Tasks, attempt : Attempts]
           \cup [type : {"revoked"}, task : Tasks, attempt : {0}]
           \cup {Registered}

Slots == [task : Tasks, attempt : Attempts, stage : {"check", "run"},
          abort : {"no", "revoked", "stopping"}] \cup {NoSlot}

WorkerTypeOK ==
  /\ slot \in [Workers -> Slots]
  /\ active \in [Workers -> Tasks \cup {NoTask}]
  /\ unconf \in [Workers -> Outcomes \cup {NoOutcome}]
  /\ unready \in [Workers -> BOOLEAN]
  /\ queue \in [Workers -> Seq(ReliableMsg)]
  /\ sock \in [Workers -> {"none", "open", "ending"}]
  /\ reg \in [Workers -> BOOLEAN]
  /\ stopping \in [Workers -> BOOLEAN]
  /\ broken \in [Workers -> BOOLEAN]
  /\ up \in [Workers -> Seq(UpMsg)]
  /\ down \in [Workers -> Seq(DownMsg)]
  /\ faults \in [Workers -> 0..MaxFaults]

StateFileTypeOK ==
  /\ disk \in [Workers -> [active : Tasks \cup {NoTask}, unconf : Outcomes \cup {NoOutcome}]]
  /\ unsaved \in [Workers -> BOOLEAN]

WorkerInit ==
  /\ slot = [w \in Workers |-> NoSlot]
  /\ active = [w \in Workers |-> NoTask]
  /\ unconf = [w \in Workers |-> NoOutcome]
  /\ unready = [w \in Workers |-> FALSE]
  /\ queue = [w \in Workers |-> <<>>]
  /\ sock = [w \in Workers |-> "none"]
  /\ reg = [w \in Workers |-> FALSE]
  /\ stopping = [w \in Workers |-> FALSE]
  /\ broken = [w \in Workers |-> FALSE]
  /\ up = [w \in Workers |-> <<>>]
  /\ down = [w \in Workers |-> <<>>]
  /\ faults = [w \in Workers |-> 0]

StateFileInit ==
  /\ disk = [w \in Workers |-> [active |-> NoTask, unconf |-> NoOutcome]]
  /\ unsaved = [w \in Workers |-> FALSE]

-----------------------------------------------------------------------------
(* Parts of a step.                                                        *)

CanSend(w) == sock[w] = "open" /\ reg[w]

\* sendReliable for the messages in `reliable`, then send for those in `plain`.
Post(w, reliable, plain) ==
  IF CanSend(w)
  THEN up' = [up EXCEPT ![w] = @ \o reliable \o plain] /\ UNCHANGED queue
  ELSE queue' = [queue EXCEPT ![w] = @ \o reliable] /\ UNCHANGED up

\* The first message of `down` is read.
Read(w, type) ==
  /\ sock[w] # "none" /\ down[w] # <<>>
  /\ Head(down[w]).type = type
  /\ down' = [down EXCEPT ![w] = Tail(@)]

Release(w) == slot' = [slot EXCEPT ![w] = NoSlot]

\* forget(): the state no longer names t.
Forget(w, t) ==
  /\ unconf' = [unconf EXCEPT ![w] = IF @.task = t THEN NoOutcome ELSE @]
  /\ active' = [active EXCEPT ![w] = IF @ = t THEN NoTask ELSE @]

\* Mutant: an outcome the hub has not confirmed is not registered with.
ReportedIfRun(w) == IF slot[w] # NoSlot THEN slot[w].task ELSE active[w]

\* registerPayload: the task this worker registers with.
Reported(w) ==
  IF slot[w] # NoSlot THEN slot[w].task
  ELSE IF unconf[w] # NoOutcome THEN unconf[w].task
  ELSE active[w]

-----------------------------------------------------------------------------
(* The connection.                                                         *)

\* connect(), the upgrade and onOpen: worker.register is the first frame on a new socket.
Open(w) ==
  /\ sock[w] = "none"
  /\ sock' = [sock EXCEPT ![w] = "open"]
  /\ up' = [up EXCEPT ![w] = <<RegisterMsg(Reported(w))>>]
  /\ down' = [down EXCEPT ![w] = <<>>]
  /\ UNCHANGED <<slot, state, queue, reg, stopping, broken, faults>>

\* onRegistered of both classes: the queue goes out first; a machine that is not ready says busy.
OnRegistered(w) ==
  /\ Read(w, "registered")
  /\ IF sock[w] # "open" THEN UNCHANGED <<reg, queue, up>>
     ELSE /\ reg' = [reg EXCEPT ![w] = TRUE]
          /\ queue' = [queue EXCEPT ![w] = <<>>]
          /\ up' = [up EXCEPT ![w] = @ \o queue[w]
                      \o (IF unready[w] /\ slot[w] = NoSlot THEN <<Busy>> ELSE <<>>)]
  /\ UNCHANGED <<slot, state, sock, stopping, broken, faults>>

\* The connection starts to end on this side (close frame, TCP end, two missed pongs): nothing
\* more is sent, what was read before it may still be handed over.
Ending(w) ==
  /\ sock[w] = "open"
  /\ sock' = [sock EXCEPT ![w] = "ending"]
  /\ UNCHANGED <<slot, state, queue, reg, stopping, broken, down>>

\* onClose and detach; scheduleReconnect follows (Open).
OnClose(w) ==
  /\ sock[w] = "ending"
  /\ sock' = [sock EXCEPT ![w] = "none"]
  /\ reg' = [reg EXCEPT ![w] = FALSE]
  /\ down' = [down EXCEPT ![w] = <<>>]
  /\ UNCHANGED <<slot, state, queue, stopping, broken, up, faults>>

-----------------------------------------------------------------------------
(* Messages of the hub.                                                    *)

Take(w, s) == slot' = [slot EXCEPT ![w] = [s EXCEPT !.stage = "check"]]

\* Mutant: a new attempt of the held task is taken for a duplicate.
SameTask(held, s) == held.task = s.task

\* onAssigned: the same attempt again.
SameAttempt(held, s) == held.task = s.task /\ held.attempt = s.attempt

\* onAssigned for s: ignored, declined as busy, or taken.
Offer(w, s) ==
  IF slot[w] # NoSlot /\ SameAttempt(slot[w], s)
  THEN UNCHANGED <<slot, up, queue>>
  ELSE IF slot[w] # NoSlot \/ stopping[w]
  THEN Post(w, <<DeclineBusy(s)>>, <<>>) /\ UNCHANGED slot
  ELSE Take(w, s) /\ UNCHANGED <<up, queue>>

Offered(m) == [task |-> m.task, attempt |-> m.attempt, stage |-> "none", abort |-> "no"]

OnAssigned(w) ==
  /\ Read(w, "assigned")
  /\ IF reg[w] THEN Offer(w, Offered(Head(down[w]))) ELSE UNCHANGED <<slot, up, queue>>
  /\ UNCHANGED <<state, sock, reg, stopping, broken, faults>>

\* Mutant: the task is run again although its outcome is known.
OnResumedAsNew(w) ==
  /\ Read(w, "resumed")
  /\ IF reg[w] THEN Offer(w, Offered(Head(down[w]))) ELSE UNCHANGED <<slot, up, queue>>
  /\ UNCHANGED <<state, sock, reg, stopping, broken, faults>>

\* onResumed: an unconfirmed outcome of that very attempt is reported again; one of another
\* attempt is dropped, and the task is run.
OnResumed(w) ==
  /\ Read(w, "resumed")
  /\ LET m == Head(down[w])
         known == slot[w].task # m.task /\ unconf[w].task = m.task
     IN
       IF ~reg[w] THEN UNCHANGED <<slot, unconf, up, queue>>
       ELSE IF known /\ unconf[w].attempt = m.attempt
       THEN Post(w, <<Report(unconf[w])>>, <<>>) /\ UNCHANGED <<slot, unconf>>
       ELSE /\ Offer(w, Offered(m))
            /\ unconf' = IF known THEN [unconf EXCEPT ![w] = NoOutcome] ELSE unconf
  /\ UNCHANGED <<active, unready, sock, reg, stopping, broken, faults>>

\* onRevoked: a running task is aborted (the first reason stays), another is forgotten.
OnRevoked(w) ==
  /\ Read(w, "revoked")
  /\ LET t == Head(down[w]).task IN
       IF slot[w].task = t
       THEN /\ slot' = [slot EXCEPT ![w].abort = IF @ = "no" THEN "revoked" ELSE @]
            /\ UNCHANGED <<active, unconf>>
       ELSE Forget(w, t) /\ UNCHANGED slot
  /\ UNCHANGED <<unready, client, stopping, broken, up, faults>>

-----------------------------------------------------------------------------
(* execute(): the check before the task is accepted, and its run.          *)

\* Aborted before it was accepted.  The readiness result counts as nothing lacking then,
\* unless it was in before the abort.
CheckAborted(w) ==
  /\ slot[w].stage = "check" /\ slot[w].abort # "no"
  /\ Release(w)
  /\ \E found \in {FALSE, broken[w]} : unready' = [unready EXCEPT ![w] = found]
  /\ IF slot[w].abort = "revoked"
     THEN Forget(w, slot[w].task) /\ Post(w, <<>>, <<Idle>>)
     ELSE UNCHANGED <<active, unconf, up, queue>>
  /\ UNCHANGED <<sock, reg, stopping, broken, down, faults>>

\* The machine lacks something: the task goes back as busy, and this worker stays out.
CheckNotReady(w) ==
  /\ slot[w].stage = "check" /\ slot[w].abort = "no" /\ broken[w]
  /\ Release(w)
  /\ unready' = [unready EXCEPT ![w] = TRUE]
  /\ Post(w, <<DeclineBusy(slot[w])>>, <<>>)
  /\ UNCHANGED <<active, unconf, sock, reg, stopping, broken, down, faults>>

\* No engine for it, or its branch is checked out elsewhere.
CheckRefused(w) ==
  /\ slot[w].stage = "check" /\ slot[w].abort = "no"
  /\ Release(w)
  /\ unready' = [unready EXCEPT ![w] = FALSE]
  /\ Post(w, <<Decline(slot[w])>>, <<>>)
  /\ UNCHANGED <<active, unconf, sock, reg, stopping, broken, down, faults>>

\* Mutant: the task is accepted before the state names it.
AcceptUnrecorded(w) ==
  /\ slot[w].stage = "check" /\ slot[w].abort = "no"
  /\ slot' = [slot EXCEPT ![w].stage = "run"]
  /\ unready' = [unready EXCEPT ![w] = FALSE]
  /\ Post(w, <<AcceptMsg(slot[w])>>, <<Busy>>)
  /\ UNCHANGED <<active, unconf, sock, reg, stopping, broken, down, faults>>

\* Mutant: an outcome of before is kept beside the new task.
AcceptKeepingOutcome(w) ==
  /\ slot[w].stage = "check" /\ slot[w].abort = "no"
  /\ slot' = [slot EXCEPT ![w].stage = "run"]
  /\ unready' = [unready EXCEPT ![w] = FALSE]
  /\ active' = [active EXCEPT ![w] = slot[w].task]
  /\ Post(w, <<AcceptMsg(slot[w])>>, <<Busy>>)
  /\ UNCHANGED <<unconf, sock, reg, stopping, broken, down, faults>>

\* Accepted: recorded in the state first; an outcome of before counts as settled.
Accept(w) ==
  /\ slot[w].stage = "check" /\ slot[w].abort = "no"
  /\ slot' = [slot EXCEPT ![w].stage = "run"]
  /\ unready' = [unready EXCEPT ![w] = FALSE]
  /\ active' = [active EXCEPT ![w] = slot[w].task]
  /\ unconf' = [unconf EXCEPT ![w] = NoOutcome]
  /\ Post(w, <<AcceptMsg(slot[w])>>, <<Busy>>)
  /\ UNCHANGED <<sock, reg, stopping, broken, down, faults>>

\* Mutant: the outcome is sent but not recorded in the state.
SettleUnrecorded(w, kind) ==
  /\ slot[w].stage = "run"
  /\ \/ slot[w].abort = "no"
     \/ slot[w].abort = "stopping" /\ kind # "quota"
  /\ Release(w)
  /\ active' = [active EXCEPT ![w] = NoTask]
  /\ Post(w, <<Report([task |-> slot[w].task, attempt |-> slot[w].attempt, kind |-> kind])>>, <<Idle>>)
  /\ UNCHANGED <<unconf, unready, sock, reg, stopping, broken, down, faults>>

\* settle(): the run has an outcome.  A run that is being stopped has one only once its final
\* commit exists, so it is no quota report (TaskRun).
Settle(w, kind) ==
  /\ slot[w].stage = "run"
  /\ \/ slot[w].abort = "no"
     \/ slot[w].abort = "stopping" /\ kind # "quota"
  /\ Release(w)
  /\ LET o == [task |-> slot[w].task, attempt |-> slot[w].attempt, kind |-> kind] IN
       /\ active' = [active EXCEPT ![w] = NoTask]
       /\ unconf' = [unconf EXCEPT ![w] = o]
       /\ Post(w, <<Report(o)>>, <<Idle>>)
  /\ UNCHANGED <<unready, sock, reg, stopping, broken, down, faults>>

\* settle(): the branch turned out to be in use.
SettleDeclined(w) ==
  /\ slot[w].stage = "run" /\ slot[w].abort = "no"
  /\ Release(w)
  /\ active' = [active EXCEPT ![w] = NoTask]
  /\ Post(w, <<Decline(slot[w])>>, <<Idle>>)
  /\ UNCHANGED <<unconf, unready, sock, reg, stopping, broken, down, faults>>

\* settle(): aborted.  A stop keeps activeTaskId for the next start.
SettleAborted(w) ==
  /\ slot[w].stage = "run" /\ slot[w].abort # "no"
  /\ Release(w)
  /\ IF slot[w].abort = "revoked"
     THEN active' = [active EXCEPT ![w] = NoTask] /\ Post(w, <<>>, <<Idle>>)
     ELSE UNCHANGED <<active, up, queue>>
  /\ UNCHANGED <<unconf, unready, sock, reg, stopping, broken, down, faults>>

\* recheck(): the machine is ready again; the hub, which counts this worker as busy, is told.
Recheck(w) ==
  /\ unready[w] /\ ~stopping[w] /\ ~broken[w]
  /\ unready' = [unready EXCEPT ![w] = FALSE]
  /\ Post(w, <<>>, IF slot[w] = NoSlot THEN <<Idle>> ELSE <<>>)
  /\ UNCHANGED <<slot, active, unconf, sock, reg, stopping, broken, down, faults>>

-----------------------------------------------------------------------------
(* The process and its machine.                                            *)

Fault(w, kind) ==
  kind \in FaultKinds /\ faults[w] < MaxFaults /\ faults' = [faults EXCEPT ![w] = @ + 1]

\* A prefix of s arrives.
Prefixes(s) == {SubSeq(s, 1, n) : n \in 0..Len(s)}

\* What a new process starts with: the state file; notReady is cleared, the queue was memory.
Restarted(w) ==
  /\ Release(w)
  /\ active' = [active EXCEPT ![w] = disk[w].active]
  /\ unconf' = [unconf EXCEPT ![w] = disk[w].unconf]
  /\ unready' = [unready EXCEPT ![w] = FALSE]
  /\ queue' = [queue EXCEPT ![w] = <<>>]
  /\ sock' = [sock EXCEPT ![w] = "none"]
  /\ reg' = [reg EXCEPT ![w] = FALSE]
  /\ stopping' = [stopping EXCEPT ![w] = FALSE]
  /\ down' = [down EXCEPT ![w] = <<>>]
  /\ UNCHANGED broken

\* The process dies and is started again.
Crash(w) ==
  /\ Fault(w, "crash")
  /\ Restarted(w)
  /\ \E sent \in Prefixes(up[w]) : up' = [up EXCEPT ![w] = sent]

\* finish() of cli.ts, first half: Worker.stop aborts the run.
Stop(w) ==
  /\ ~stopping[w]
  /\ Fault(w, "stop")
  /\ stopping' = [stopping EXCEPT ![w] = TRUE]
  /\ slot' = [slot EXCEPT ![w].abort = IF slot[w] # NoSlot /\ @ = "no" THEN "stopping" ELSE @]
  /\ UNCHANGED <<state, client, broken, wires>>

\* Second half, once no task is held: HubClient.stop; the next start is a new process.
Exit(w) ==
  /\ stopping[w] /\ slot[w] = NoSlot
  /\ Restarted(w)
  /\ UNCHANGED <<up, faults>>

\* This side of the connection ends although the hub's is up; frames under way may be lost.
Cut(w) ==
  /\ Fault(w, "cut")
  /\ Ending(w)
  /\ \E sent \in Prefixes(up[w]) : up' = [up EXCEPT ![w] = sent]

Breaks(w) ==
  /\ ~broken[w]
  /\ Fault(w, "break")
  /\ broken' = [broken EXCEPT ![w] = TRUE]
  /\ UNCHANGED <<slot, state, client, stopping, wires>>

Repaired(w) ==
  /\ broken[w]
  /\ broken' = [broken EXCEPT ![w] = FALSE]
  /\ UNCHANGED <<slot, state, client, stopping, wires, faults>>

-----------------------------------------------------------------------------
Hears(w) == OnRegistered(w) \/ OnAssigned(w) \/ OnResumed(w) \/ OnRevoked(w)

Checked(w) == CheckAborted(w) \/ CheckNotReady(w) \/ CheckRefused(w) \/ Accept(w)

Produces(w) == \E kind \in {"completed", "failed", "quota"} : Settle(w, kind)

GivesUp(w) == SettleDeclined(w) \/ SettleAborted(w)

\* What happens to the process and its connection.
Befalls(w) ==
  Recheck(w) \/ OnClose(w) \/ Crash(w) \/ Stop(w) \/ Exit(w) \/ Cut(w) \/ Breaks(w) \/ Repaired(w)

\* What a worker does that needs no word from the hub's process.
WorkerStep(w) == Hears(w) \/ Checked(w) \/ Produces(w) \/ GivesUp(w) \/ Befalls(w)

-----------------------------------------------------------------------------
(* The state file.  update() changes the state in memory and then writes   *)
(* all of it; a write that fails is logged, and the step goes on.  The     *)
(* writes of one handler fail or succeed together.                         *)

\* What the state file is to hold of w.
Memory(w) == [active |-> active[w], unconf |-> unconf[w]]

\* writeState: a temporary file renamed over the old one, so the old content or the new.
Write(w) ==
  \/ /\ disk' = [disk EXCEPT ![w] = Memory(w)']
     /\ unsaved' = [unsaved EXCEPT ![w] = FALSE]
  \/ /\ "disk" \in FaultKinds
     /\ Memory(w)' # disk[w]
     /\ unsaved' = [unsaved EXCEPT ![w] = TRUE]
     /\ UNCHANGED disk

\* Whether a handler calls update(): onRegistered always (lastRegistered), noteReadiness when its
\* finding changes, and whatever changes the task or the outcome.
Updates(w) ==
  \/ Memory(w)' # Memory(w) \/ unready'[w] # unready[w]
  \/ OnRegistered(w)

Filed(w) == IF Updates(w) THEN Write(w) ELSE UNCHANGED stateFile

\* onEngineGroup, while a task is run.
EngineNoted(w) ==
  /\ slot[w].stage = "run"
  /\ UNCHANGED <<slot, state, client, stopping, broken, wires, faults>>
  /\ Write(w)

-----------------------------------------------------------------------------
\* The open hub: it reads what comes and says what it likes.
HubSays(w) ==
  /\ sock[w] = "open" /\ Len(down[w]) < MaxWire /\ Len(up[w]) < MaxWire
  /\ \E m \in DownMsg : down' = [down EXCEPT ![w] = Append(@, m)]
  /\ UNCHANGED <<slot, state, client, stopping, broken, up, faults>>

HubReads(w) ==
  /\ up[w] # <<>>
  /\ up' = [up EXCEPT ![w] = Tail(@)]
  /\ UNCHANGED <<slot, state, client, stopping, broken, down, faults>>

WorkerNext ==
  \E w \in Workers :
    \/ WorkerStep(w) /\ Filed(w)
    \/ EngineNoted(w)
    \/ (Open(w) \/ HubSays(w) \/ HubReads(w)) /\ UNCHANGED stateFile

WorkerSpec == WorkerInit /\ StateFileInit /\ [][WorkerNext]_<<workerVars, stateFile>>

-----------------------------------------------------------------------------
(* Properties, whatever the hub says.                                      *)

\* execute() persists before task.accept and settle() keeps what a restart must know: unless the
\* last write failed, a task that is being run is the one the state file names, so a crash at any
\* point of the run registers with it.
RunIsOnFile ==
  \A w \in Workers : slot[w].stage = "run" /\ ~unsaved[w] => disk[w].active = slot[w].task

\* The state file never names a task to resume beside an outcome to report again, of which
\* registerPayload could report only one; not even when some of its writes fail.
OneTaskOnFile == \A w \in Workers : disk[w].active = NoTask \/ disk[w].unconf = NoOutcome

=============================================================================
