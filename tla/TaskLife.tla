------------------------------ MODULE TaskLife ------------------------------
(***************************************************************************)
(* What the hub promises of one task, whatever the others do: the life of  *)
(* a conductor_tasks row.  A step of the hub may move any number of rows,  *)
(* each by one of the steps below; which rows move together, when and why  *)
(* is the detailed specification's matter (Conductor).                     *)
(***************************************************************************)
EXTENDS Naturals, TaskStatus

CONSTANTS Tasks, Kind, Agents, NoAgent, EscalateAt

VARIABLES status, holder, lease, attempt, fails, rejects, escalated, declined

row == <<status, holder, lease, attempt, fails, rejects, escalated, declined>>

Init ==
  /\ status = [t \in Tasks |-> "absent"]
  /\ holder = [t \in Tasks |-> NoAgent]
  /\ lease = [t \in Tasks |-> "none"]
  /\ attempt = [t \in Tasks |-> 0]
  /\ fails = [t \in Tasks |-> 0]
  /\ rejects = [t \in Tasks |-> 0]
  /\ escalated = [t \in Tasks |-> FALSE]
  /\ declined = [t \in Tasks |-> {}]

-----------------------------------------------------------------------------
(* Parts of a step of row t.                                               *)

SameStatus(t)   == status'[t] = status[t]
SameHolder(t)   == holder'[t] = holder[t]
SameAttempt(t)  == attempt'[t] = attempt[t]
SameDeclined(t) == declined'[t] = declined[t]
SameCounts(t)   ==
  fails'[t] = fails[t] /\ rejects'[t] = rejects[t] /\ escalated'[t] = escalated[t]

\* The lead clears the escalation.
Cleared(t) == fails'[t] = 0 /\ rejects'[t] = 0 /\ escalated'[t] = FALSE

\* The row waits, charged to nobody.
Waits(t) == status'[t] \in Waiting /\ holder'[t] = NoAgent /\ lease'[t] = "none"

Kept(t) == SameAttempt(t) /\ SameDeclined(t)

-----------------------------------------------------------------------------
(* The steps of row t.                                                     *)

Stays(t) ==
  SameStatus(t) /\ SameHolder(t) /\ lease'[t] = lease[t] /\ SameCounts(t) /\ Kept(t)

\* Created; or blocked, unblocked, rerouted while it waits.
Queues(t) ==
  /\ status[t] \in Waiting \cup {"absent"}
  /\ Waits(t) /\ Kept(t)
  /\ SameCounts(t) \/ Cleared(t)

\* An agent that has not declined it gets work that is not escalated: a new attempt.
HandedOut(t) ==
  /\ Kind[t] = "work" /\ status[t] = "pending" /\ ~escalated[t]
  /\ status'[t] \in Active
  /\ holder'[t] \in Agents \ declined[t]
  /\ lease'[t] = "running"
  /\ attempt'[t] = attempt[t] + 1
  /\ SameCounts(t) /\ SameDeclined(t)

\* The push failed at once: the attempt is spent, the row waits again.
NotSent(t) ==
  /\ status[t] = "pending" /\ Waits(t)
  /\ attempt'[t] = attempt[t] + 1
  /\ SameCounts(t) /\ SameDeclined(t)

\* The agent works on; its lease runs, or runs out.
Runs(t) ==
  /\ status[t] \in Active /\ status'[t] \in Active
  /\ lease'[t] \in {"running", "expired"}
  /\ SameHolder(t) /\ SameCounts(t) /\ Kept(t)

\* Handed in for review (or rerouted while it is there).
Submitted(t) ==
  /\ status[t] \in Locking /\ status'[t] = "review"
  /\ lease'[t] = "none"
  /\ SameHolder(t) /\ Kept(t)
  /\ SameCounts(t) \/ (status[t] = "review" /\ Cleared(t))

\* Work is completed out of an agent's or a reviewer's hands, a gate by approval, a group by
\* its children.
Finished(t) ==
  /\ \/ Kind[t] = "work" /\ status[t] \in Locking
     \/ Kind[t] = "gate" /\ status[t] = "pending"
     \/ Kind[t] = "group" /\ status[t] \in Waiting
  /\ status'[t] = "completed" /\ lease'[t] = "none"
  /\ SameHolder(t) /\ SameCounts(t) /\ Kept(t)

\* The attempt ends with nothing counted: quota, busy, a restart before the start, a reroute.
GivenBack(t) ==
  /\ status[t] \in Active /\ Waits(t) /\ Kept(t)
  /\ SameCounts(t) \/ Cleared(t)

\* The agent will not have it.
Declined(t) ==
  /\ status[t] \in Active /\ Waits(t)
  /\ declined'[t] = declined[t] \cup {holder[t]}
  /\ SameAttempt(t) /\ SameCounts(t)

\* The attempt has failed, by its agent's word, the lead's or the scheduler's.
Failed(t) ==
  /\ status[t] \in Active /\ Waits(t) /\ Kept(t)
  /\ fails'[t] = fails[t] + 1 /\ rejects'[t] = rejects[t]
  /\ escalated'[t] = (escalated[t] \/ fails'[t] >= EscalateAt)

\* The reviewer, or a gate after the fact, sends the work back.
Rejected(t) ==
  /\ Kind[t] = "work" /\ status[t] \in {"review", "completed"}
  /\ Waits(t) /\ Kept(t)
  /\ fails'[t] = fails[t] /\ rejects'[t] = rejects[t] + 1
  /\ escalated'[t] = (escalated[t] \/ rejects'[t] >= EscalateAt)

\* A finished group reopens with the work under it.
Reopened(t) ==
  /\ Kind[t] = "group" /\ status[t] = "completed"
  /\ Waits(t) /\ Kept(t) /\ SameCounts(t)

Cancelled(t) ==
  /\ status[t] \in Locking \cup Waiting /\ status'[t] = "cancelled"
  /\ lease'[t] = "none"
  /\ SameHolder(t) /\ SameCounts(t) /\ Kept(t)

Moves(t) ==
  \/ Queues(t) \/ HandedOut(t) \/ NotSent(t) \/ Runs(t) \/ Submitted(t) \/ Finished(t)
  \/ GivenBack(t) \/ Declined(t) \/ Failed(t) \/ Rejected(t) \/ Reopened(t) \/ Cancelled(t)

Next == \A t \in Tasks : Stays(t) \/ Moves(t)

Spec == Init /\ [][Next]_row

-----------------------------------------------------------------------------
(* What follows from it.                                                   *)

\* BACK_TO_PENDING and the lease columns: a task has a worker and a lease exactly while it
\* is active, whatever way it left; nothing that waits is still charged to an agent.
HolderAndLease ==
  \A t \in Tasks :
    /\ status[t] \in Active => holder[t] # NoAgent /\ lease[t] # "none"
    /\ status[t] \notin Active => lease[t] = "none"
    /\ status[t] \in Waiting \cup {"absent"} => holder[t] = NoAgent

\* escalate(): at the second failure or rejection, and only then, a task is escalated, and
\* it stays out of every agent's hands until the lead clears it.
EscalationStops ==
  \A t \in Tasks :
    /\ escalated[t] <=> fails[t] >= EscalateAt \/ rejects[t] >= EscalateAt
    /\ escalated[t] => status[t] \in Waiting \cup {"cancelled"}

\* load()'s attempt check and the status guards: one attempt is charged at most once, as a
\* failure, as a rejection, or as the attempt that is running or stands finished, however
\* often reclaims, restarts, workers and the lead report it.
AttemptSettledOnce ==
  \A t \in Tasks :
    Kind[t] = "work" =>
      fails[t] + rejects[t] + (IF status[t] \in Locking \cup {"completed"} THEN 1 ELSE 0) <= attempt[t]

\* task.decline: an agent that declined a task for good never holds it again.
DeclinedStaysAway == \A t \in Tasks : status[t] \in Active => holder[t] \notin declined[t]

\* Gates and groups never run: no agent, no failures, no rejections of their own.
OnlyWorkRuns ==
  \A t \in Tasks :
    Kind[t] # "work" =>
      status[t] \notin Locking /\ holder[t] = NoAgent /\ fails[t] = 0 /\ rejects[t] = 0

=============================================================================
