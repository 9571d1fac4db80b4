------------------------------ MODULE PlanTree ------------------------------
(***************************************************************************)
(* The plan tree of the conductor (lifecycle.ts): what completing,         *)
(* cancelling or returning one task does to the statuses of the others.    *)
(*                                                                         *)
(* Every operator maps a status function to a status function, as one      *)
(* transaction of the hub maps the rows it read to the rows it commits.    *)
(* The code walks from a child to its parent group and on upwards; here    *)
(* the groups that walk reaches are given in closed form over the path     *)
(* Above[t], so nothing is recursive.                                      *)
(***************************************************************************)
EXTENDS Naturals, FiniteSets, TaskStatus

CONSTANTS
  Tasks,     \* conductor_tasks.id
  NoTask,    \* a null parent_task_id
  Kind,      \* Kind[t] \in {"work", "gate", "group"}
  Parent,    \* Parent[t]: the group t was created under, or NoTask
  Above      \* Above[t]: the groups over t, at any height

\* Following parents upwards ends (tree.ts refuses a cycle, and every row is written after its
\* parent).  The last three lines are what that means of Above.
ASSUME PlanAssumption ==
  /\ IsFiniteSet(Tasks)
  /\ NoTask \notin Tasks
  /\ Kind \in [Tasks -> {"work", "gate", "group"}]
  /\ Parent \in [Tasks -> Tasks \cup {NoTask}]
  /\ Above \in [Tasks -> SUBSET Tasks]
  /\ \A t \in Tasks :
       /\ t \notin Above[t]
       /\ Above[t] = IF Parent[t] = NoTask THEN {} ELSE {Parent[t]} \cup Above[Parent[t]]
       /\ Parent[t] # NoTask => Kind[Parent[t]] = "group"
       /\ \A g \in Above[t] :
            /\ Above[g] \subseteq Above[t]
            /\ \E c \in {t} \cup Above[t] : Parent[c] = g
            /\ \A h \in Above[t] : g = h \/ g \in Above[h] \/ h \in Above[g]

\* Every id names a completed task.
AllCompleted(st, ids) == \A d \in ids : st[d] = "completed"

Children(st, g) == {c \in Tasks : Parent[c] = g /\ st[c] # "absent"}

\* The unfinished tasks under g, at any depth.
OpenDescendants(st, g) ==
  {x \in Tasks : g \in Above[x] /\ st[x] \notin Terminal \cup {"absent"}}

-----------------------------------------------------------------------------
(* The walk upwards from a task t that has just finished.                  *)

Path(t) == {t} \cup Above[t]

\* h is at g or below it, on the path from t.
UpTo(t, g) == {h \in Above[t] : h = g \/ g \in Above[h]}

\* Once the child on the path has finished, g has nothing left to wait for.
Closes(st, t, g) ==
  /\ Kind[g] = "group"
  /\ st[g] \notin Terminal \cup {"absent"}
  /\ \A c \in Children(st, g) \ Path(t) : st[c] \in Terminal

\* The groups the walk finishes: it stops at the first one that stays open.
Closed(st, t) == {g \in Above[t] : \A h \in UpTo(t, g) : Closes(st, t, h)}

\* A child off the path keeps a closing group from being cancelled with its path child.
SomeCompleted(st, t, g) ==
  \E h \in UpTo(t, g) : \E c \in Children(st, h) \ Path(t) : st[c] = "completed"

\* The blocked tasks that waited for one of `done` and wait for nothing more.
Unblocked(st, deps, done) ==
  {x \in Tasks : st[x] = "blocked" /\ deps[x] \cap done # {} /\ AllCompleted(st, deps[x])}

Unblock(st, deps, done) ==
  LET free == Unblocked(st, deps, done)
  IN  [x \in Tasks |-> IF x \in free THEN "pending" ELSE st[x]]

\* Mutant: only what waits for t itself is unblocked, not what waits for the groups it closes.
CompleteWithoutChain(st, deps, t) ==
  LET done == {t} \cup Closed(st, t)
      mid  == [x \in Tasks |-> IF x \in done THEN "completed" ELSE st[x]]
  IN  Unblock(mid, deps, {t})

\* t becomes completed; its completion chain runs.
Complete(st, deps, t) ==
  LET done == {t} \cup Closed(st, t)
      mid  == [x \in Tasks |-> IF x \in done THEN "completed" ELSE st[x]]
  IN  Unblock(mid, deps, done)

\* Mutant: what is already completed under the group is taken along.
CancelledWithFinished(st, t) ==
  {t} \cup (IF Kind[t] = "group" THEN {x \in Tasks : t \in Above[x] /\ st[x] # "absent"} ELSE {})

\* What cancelling t takes along: a group takes everything open under it.
CancelledWith(st, t) == {t} \cup (IF Kind[t] = "group" THEN OpenDescendants(st, t) ELSE {})

\* Mutant: the groups a cancelled task closes unblock nothing.
CancelWithoutUnblock(st, deps, t) ==
  LET base == [x \in Tasks |-> IF x \in CancelledWith(st, t) THEN "cancelled" ELSE st[x]]
      ends == Closed(base, t)
  IN  [x \in Tasks |-> IF x \notin ends THEN base[x]
                        ELSE IF SomeCompleted(base, t, x) THEN "completed" ELSE "cancelled"]

\* t and what goes with it become cancelled; the parents are checked.
Cancel(st, deps, t) ==
  LET gone  == CancelledWith(st, t)
      base  == [x \in Tasks |-> IF x \in gone THEN "cancelled" ELSE st[x]]
      ends  == Closed(base, t)
      done  == {g \in ends : SomeCompleted(base, t, g)}
      mid   == [x \in Tasks |-> IF x \in done THEN "completed"
                                ELSE IF x \in ends THEN "cancelled" ELSE base[x]]
  IN  Unblock(mid, deps, done)

-----------------------------------------------------------------------------
(* A gate sends finished work back.                                        *)

\* What rejecting gate g returns: its finished direct dependencies of kind work.
Returnable(st, deps, g) == {d \in deps[g] : Kind[d] = "work" /\ st[d] = "completed"}

\* Mutant: the groups over returned work stay completed.
ReopensNothing(st, d) == {}

\* The completed groups over d that reopen with it.
Reopens(st, d) == {g \in Above[d] : \A h \in UpTo(d, g) : Kind[h] = "group" /\ st[h] = "completed"}

\* The gate lists its dependencies in some order; pos[d] is the place of d in it.
Orders(S) ==
  {pos \in [S -> 1..Cardinality(S)] : \A d, e \in S : pos[d] = pos[e] => d = e}

\* What the return of d releases again: d, and the groups it is the first to reopen.
Releases(st, deps, g, pos, d) ==
  {d} \cup {h \in Reopens(st, d) :
              \A e \in Returnable(st, deps, g) : pos[e] < pos[d] => h \notin Reopens(st, e)}

\* Mutant: what was already pending on the returned work stays pending.
ReturnWithoutBlocking(st, deps, g, pos) ==
  LET back == Returnable(st, deps, g)
      rel  == UNION {Releases(st, deps, g, pos, d) : d \in back}
  IN  [x \in Tasks |-> IF x = g THEN "blocked" ELSE IF x \in rel THEN "pending" ELSE st[x]]

\* Gate g is rejected: it is blocked, its finished work and the groups over that work are
\* pending again, and what waits for any of them, and is pending at that moment, is blocked.
Return(st, deps, g, pos) ==
  LET back     == Returnable(st, deps, g)
      rel      == [d \in back |-> Releases(st, deps, g, pos, d)]
      turn(x)  == CHOOSE d \in back : x \in rel[d]     \* the return that made x pending
      hits(x)  == {d \in back : deps[x] \cap rel[d] # {}}
  IN  [x \in Tasks |->
         IF x = g THEN "blocked"
         ELSE IF \E d \in back : x \in rel[d]
              THEN IF \E d \in hits(x) : pos[d] > pos[turn(x)] THEN "blocked" ELSE "pending"
         ELSE IF st[x] = "pending" /\ hits(x) # {} THEN "blocked"
         ELSE st[x]]

=============================================================================
