----------------------------- MODULE Dispatcher -----------------------------
(***************************************************************************)
(* The selection half of dispatcher.ts: which ready task goes to which     *)
(* worker on which route in one pass (selectAssignments).                  *)
(*                                                                         *)
(* The code walks the ready tasks in priority order and carries the locks  *)
(* and the workers it has used so far.  IsPass states the same result      *)
(* without the walk: the choice for each task is the one the code makes    *)
(* given the choices of the tasks before it.  The only freedom left is     *)
(* which of several equally good workers has been idle longest.            *)
(***************************************************************************)
EXTENDS Naturals, Sequences, FiniteSets

CONSTANTS
  Agents,    \* agent ids of workers and sessions
  Routes,    \* (executor, model, effort) triples
  Files,     \* normalised repository paths
  Under,     \* <<p, d>> \in Under: path p lies under directory d
  Rank,      \* the place of a task in (priority, created_at) order
  CanRun     \* CanRun[t]: the <<agent, route>> pairs that fit t's project, pin,
             \* capabilities, protocol and engines (staticallyEligible, bar declines)

NoRoute == "no route"
NoPick  == <<>>

\* Two file lists lock each other out.
PathsConflict(f, g) ==
  \E x \in f : \E y \in g : x = y \/ <<x, y>> \in Under \/ <<y, x>> \in Under

\* What one pass reads: the ready tasks and their rows, the tasks that hold locks, the
\* workers (open and registered, and which are busy) and the quota rows still in force.
\* in = [ready, locked, files, chain, failedAt, declined, last, workers, busy, quota]

OnChain(chain) == {chain[i] : i \in DOMAIN chain}
Place(chain, r) == CHOOSE i \in DOMAIN chain : chain[i] = r

\* Route q of t is tried before r: fresh ones in chain order, then the longest-ago failure.
TriedBefore(in, t, q, r) ==
  \/ in.failedAt[t][q] < in.failedAt[t][r]
  \/ /\ in.failedAt[t][q] = in.failedAt[t][r]
     /\ Place(in.chain[t], q) < Place(in.chain[t], r)

\* Mutant: agents that declined t are asked again.
RunnableThoughDeclined(in, t, r, a) ==
  <<a, r>> \in CanRun[t] /\ a \in in.workers /\ <<a, r>> \notin in.quota

\* Worker a could run t on route r, now or once it is idle.
Runnable(in, t, r, a) ==
  /\ <<a, r>> \in CanRun[t]
  /\ a \in in.workers \ in.declined[t]
  /\ <<a, r>> \notin in.quota

Fresh(in, t) == {r \in OnChain(in.chain[t]) : in.failedAt[t][r] = 0}

\* Mutant: a failed route is tried as soon as the fresh ones have no idle worker.
TriedWholeChain(in, t) == OnChain(in.chain[t])

\* While a fresh route has a worker at all, the failed routes are not tried.
Tried(in, t) ==
  IF \E r \in Fresh(in, t), a \in Agents : Runnable(in, t, r, a)
  THEN Fresh(in, t) ELSE OnChain(in.chain[t])

Available(in, t, r, used) == {a \in Agents \ (in.busy \cup used) : Runnable(in, t, r, a)}

\* The last agent if it is free, else one of the others.
Preferred(free, last) == IF last \in free THEN {last} ELSE free

\* The <<agent, route>> pairs the pass may pick for t once the workers in `used` are taken.
Choices(in, t, used) ==
  {p \in Agents \X Routes :
     LET r == p[2] IN
     /\ r \in Tried(in, t)
     /\ p[1] \in Preferred(Available(in, t, r, used), in.last[t])
     /\ \A q \in Tried(in, t) : TriedBefore(in, t, q, r) => Available(in, t, q, used) = {}}

\* The tasks the pass assigned before it came to t.
Earlier(in, pick, t) == {u \in in.ready : Rank[u] < Rank[t] /\ pick[u] # NoPick}

\* Mutant: the files of the tasks assigned earlier in the pass are not locked yet.
LockedOutByHeldOnly(in, pick, t) ==
  \E u \in in.locked : PathsConflict(in.files[u], in.files[t])

\* t must wait for a task that holds its files, or was given them earlier in this pass.
LockedOut(in, pick, t) ==
  \E u \in in.locked \cup Earlier(in, pick, t) : PathsConflict(in.files[u], in.files[t])

\* pick[t]: the worker and route ready task t gets in this pass, or NoPick.
IsPass(in, pick) ==
  \A t \in in.ready :
    LET used == {pick[u][1] : u \in Earlier(in, pick, t)}
        free == IF LockedOut(in, pick, t) THEN {} ELSE Choices(in, t, used)
    IN  IF free = {} THEN pick[t] = NoPick ELSE pick[t] \in free

Picks(in) == [in.ready -> (Agents \X Routes) \cup {NoPick}]

=============================================================================
