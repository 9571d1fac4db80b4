------------------------------- MODULE TaskRun -------------------------------
(***************************************************************************)
(* The run of one task (runner.ts, git.ts): a worktree on the task's       *)
(* branch, the engine, the tests, a commit, a push.  The task is run       *)
(* attempt after attempt, on any of several machines that each keep a      *)
(* clone; a run that was taken back may still be saving its work when the  *)
(* next one has begun on another machine.                                  *)
(*                                                                         *)
(* A commit is the piece of work that an engine made; the base branch is   *)
(* the empty set of commits.                                               *)
(***************************************************************************)
EXTENDS Naturals, FiniteSets

CONSTANTS
  Machines,
  Pieces,    \* bound: what engines can make
  MaxRuns    \* bound: runs

ASSUME TaskRunAssumption == MaxRuns \in Nat

VARIABLES
  tree,    \* the task's worktree exists on a machine
  dirty,   \* its uncommitted work
  local,   \* the commits of the machine's branch
  remote,  \* the commits of origin/branch
  run,     \* what the run on a machine is at
  made,    \* the pieces made on each machine by the last run that got a worktree there
  runs

places == <<tree, dirty, local>>
taskVars == <<places, remote, run, made, runs>>

Work == [dirty : BOOLEAN, ahead : BOOLEAN]

NoRun ==
  [at |-> "over", abort |-> "no", dir |-> FALSE, reused |-> FALSE, started |-> FALSE,
   keep |-> FALSE, committed |-> FALSE, found |-> [dirty |-> FALSE, ahead |-> FALSE],
   early |-> FALSE, passed |-> TRUE, result |-> "none"]

RunOf ==
  [at : {"over", "setup", "engine", "read", "tests", "commit", "push", "wip", "wippush", "settle"},
   abort : {"no", "revoked", "stopping"}, dir : BOOLEAN, reused : BOOLEAN, started : BOOLEAN,
   keep : BOOLEAN, committed : BOOLEAN, found : Work, early : BOOLEAN, passed : BOOLEAN,
   result : {"none", "completed", "failed", "quota", "declined", "aborted"}]

TaskRunTypeOK ==
  /\ tree \in [Machines -> BOOLEAN]
  /\ dirty \in [Machines -> SUBSET Pieces]
  /\ local \in [Machines -> SUBSET Pieces]
  /\ remote \subseteq Pieces
  /\ run \in [Machines -> RunOf]
  /\ made \in [Machines -> SUBSET Pieces]
  /\ runs \in 0..MaxRuns

TaskRunInit ==
  /\ tree = [m \in Machines |-> FALSE]
  /\ dirty = [m \in Machines |-> {}]
  /\ local = [m \in Machines |-> {}]
  /\ remote = {}
  /\ run = [m \in Machines |-> NoRun]
  /\ made = [m \in Machines |-> {}]
  /\ runs = 0

-----------------------------------------------------------------------------
At(m, at) == run[m].at = at

\* The run goes on at `at`.
Goes(m, at) == run' = [run EXCEPT ![m].at = at]

\* The run ends with `result`, once its worktree is dealt with.
Ends(m, result) == run' = [run EXCEPT ![m].at = "settle", ![m].result = result]

\* The same; the worktree holds something that exists nowhere else.
EndsKeeping(m, result) ==
  run' = [run EXCEPT ![m].at = "settle", ![m].result = result, ![m].keep = TRUE]

\* The engine's work is saved before the run ends.
Saves(m, result) == run' = [run EXCEPT ![m].at = "wip", ![m].result = result]

Aborted(m) == run[m].abort # "no"

-----------------------------------------------------------------------------
(* prepareWorktree, after a fetch.                                         *)

\* missesRemoteWork: origin/branch has commits this worktree lacks.
MissesRemoteWork(m) == ~(remote \subseteq local[m])

\* Such a worktree gives way to a new one if it is clean.
GivesWay(m) == MissesRemoteWork(m) /\ dirty[m] = {}

Begin(m, r) ==
  /\ At(m, "over") /\ runs < MaxRuns
  /\ runs' = runs + 1
  /\ run' = [run EXCEPT ![m] = r]

\* The worktree of an earlier attempt is used again.
PrepareExisting(m) ==
  /\ tree[m] /\ ~MissesRemoteWork(m)
  /\ Begin(m, [NoRun EXCEPT !.at = "setup", !.dir = TRUE, !.reused = TRUE])
  /\ made' = [made EXCEPT ![m] = {}]
  /\ UNCHANGED <<places, remote>>

\* Mutant: a worktree that lacks remote work is replaced with whatever is in it.
PrepareFreshAlways(m) ==
  /\ tree[m] => MissesRemoteWork(m)
  /\ Begin(m, [NoRun EXCEPT !.at = "setup", !.dir = TRUE])
  /\ made' = [made EXCEPT ![m] = {}]
  /\ tree' = [tree EXCEPT ![m] = TRUE]
  /\ dirty' = [dirty EXCEPT ![m] = {}]
  /\ local' = [local EXCEPT ![m] = remote]
  /\ UNCHANGED remote

\* A new one from origin/branch, else from the base branch (`worktree add -B`, which moves the
\* local branch there too).
PrepareFresh(m) ==
  /\ tree[m] => GivesWay(m)
  /\ Begin(m, [NoRun EXCEPT !.at = "setup", !.dir = TRUE])
  /\ made' = [made EXCEPT ![m] = {}]
  /\ tree' = [tree EXCEPT ![m] = TRUE]
  /\ dirty' = [dirty EXCEPT ![m] = {}]
  /\ local' = [local EXCEPT ![m] = remote]
  /\ UNCHANGED remote

\* git fails, the branch is in use elsewhere, or the old worktree has changes and lacks
\* remote work; one that gave way may be gone by then.
PrepareFails(m, result) ==
  /\ Begin(m, [NoRun EXCEPT !.at = "settle", !.result = result])
  /\ \/ UNCHANGED tree
     \/ tree[m] /\ GivesWay(m) /\ tree' = [tree EXCEPT ![m] = FALSE]
  /\ UNCHANGED <<dirty, local, remote, made>>

-----------------------------------------------------------------------------
(* The run.                                                                *)

Abort(m, why) ==
  /\ ~At(m, "over") /\ ~Aborted(m)
  /\ run' = [run EXCEPT ![m].abort = why]
  /\ UNCHANGED <<places, remote, made, runs>>

\* The check after prepareWorktree, the setup command and the check after it.
Setup(m, ok) ==
  /\ At(m, "setup")
  /\ IF Aborted(m) THEN Ends(m, "aborted")
     ELSE IF ~ok THEN Ends(m, "failed")
     ELSE run' = [run EXCEPT ![m].at = "engine", ![m].started = TRUE]
  /\ UNCHANGED <<places, remote, made, runs>>

\* The engine works in the worktree.  It commits nothing itself: its prompt forbids that.
EngineEdits(m, p) ==
  /\ At(m, "engine")
  /\ p \notin remote \cup UNION {dirty[n] \cup local[n] \cup made[n] : n \in Machines}
  /\ dirty' = [dirty EXCEPT ![m] = @ \cup {p}]
  /\ made' = [made EXCEPT ![m] = @ \cup {p}]
  /\ UNCHANGED <<tree, local, remote, run, runs>>

\* The engine exits, and is classified.
EngineEnds(m, how) ==
  /\ At(m, "engine")
  /\ IF Aborted(m) THEN Saves(m, "aborted")
     ELSE IF how = "timeout" \/ how = "error" THEN Saves(m, "failed")
     ELSE IF how = "quota" THEN Saves(m, "quota")
     ELSE run' = [run EXCEPT ![m].at = "read", ![m].early = (how = "early")]
  /\ UNCHANGED <<places, remote, made, runs>>

\* treeState; a throw after the engine has started keeps the worktree.
ReadTree(m, ok) ==
  /\ At(m, "read")
  /\ IF ok
     THEN run' = [run EXCEPT ![m].at = "tests",
                             ![m].found = [dirty |-> dirty[m] # {}, ahead |-> local[m] # {}]]
     ELSE EndsKeeping(m, "failed")
  /\ UNCHANGED <<places, remote, made, runs>>

\* noChanges: nothing to commit is a success only of a whole run that passed, where allowed.
NothingDone(m, passed, allowEmpty) ==
  IF passed /\ ~run[m].early /\ allowEmpty THEN "completed" ELSE "failed"

\* Mutant: work of before is pushed, and what is new is not committed first.
TestsAheadFirst(m, tested, passed, allowEmpty) ==
  /\ At(m, "tests")
  /\ IF tested /\ Aborted(m) THEN Saves(m, "aborted")
     ELSE IF run[m].found.ahead
     THEN run' = [run EXCEPT ![m].at = "push", ![m].committed = TRUE, ![m].passed = passed]
     ELSE IF run[m].found.dirty THEN run' = [run EXCEPT ![m].at = "commit", ![m].passed = passed]
     ELSE Ends(m, NothingDone(m, passed, allowEmpty))
  /\ UNCHANGED <<places, remote, made, runs>>

\* The test command, if there is one, and the check after it; then what there is to commit, or
\* to push, decides.
Tests(m, tested, passed, allowEmpty) ==
  /\ At(m, "tests")
  /\ ~tested => passed
  /\ IF tested /\ Aborted(m) THEN Saves(m, "aborted")
     ELSE IF run[m].found.dirty THEN run' = [run EXCEPT ![m].at = "commit", ![m].passed = passed]
     ELSE IF run[m].found.ahead
     THEN run' = [run EXCEPT ![m].at = "push", ![m].committed = TRUE, ![m].passed = passed]
     ELSE Ends(m, NothingDone(m, passed, allowEmpty))
  /\ UNCHANGED <<places, remote, made, runs>>

\* commitAll on the worktree of m.
CommitAll(m) ==
  /\ local' = [local EXCEPT ![m] = @ \cup dirty[m]]
  /\ dirty' = [dirty EXCEPT ![m] = {}]

\* The final commit; an abort lets it finish.
Commit(m, ok) ==
  /\ At(m, "commit")
  /\ IF ok THEN CommitAll(m) /\ run' = [run EXCEPT ![m].at = "push", ![m].committed = TRUE]
     ELSE EndsKeeping(m, "failed") /\ UNCHANGED <<dirty, local>>
  /\ UNCHANGED <<tree, remote, made, runs>>

\* pushBranch, when it succeeds: origin takes only a fast-forward.
PushBranch(m) == remote \subseteq local[m] /\ remote' = local[m]

\* The push and the pull request, whose failure is only logged.
Push(m, ok) ==
  /\ At(m, "push")
  /\ IF ok THEN PushBranch(m) /\ Ends(m, IF run[m].passed THEN "completed" ELSE "failed")
     ELSE EndsKeeping(m, "failed") /\ UNCHANGED remote
  /\ UNCHANGED <<places, made, runs>>

\* saveWip: whatever is uncommitted is committed; a clean tree is left at that.
SaveWip(m, ok) ==
  /\ At(m, "wip")
  /\ IF dirty[m] = {} THEN Goes(m, "settle") /\ UNCHANGED <<dirty, local>>
     ELSE IF ok THEN CommitAll(m) /\ Goes(m, "wippush")
     ELSE EndsKeeping(m, run[m].result) /\ UNCHANGED <<dirty, local>>
  /\ UNCHANGED <<tree, remote, made, runs>>

\* Mutant: a WIP push that fails does not keep the worktree.
PushWipCarelessly(m, ok) ==
  /\ At(m, "wippush")
  /\ Goes(m, "settle")
  /\ IF ok THEN PushBranch(m) ELSE UNCHANGED remote
  /\ UNCHANGED <<places, made, runs>>

PushWip(m, ok) ==
  /\ At(m, "wippush")
  /\ IF ok THEN PushBranch(m) /\ Goes(m, "settle")
     ELSE EndsKeeping(m, run[m].result) /\ UNCHANGED remote
  /\ UNCHANGED <<places, made, runs>>

\* What is reported: an aborted run reports nothing, unless a stop came after the final commit.
ReportedEnd(m) ==
  IF Aborted(m) /\ ~(run[m].committed /\ run[m].abort # "revoked") THEN "aborted" ELSE run[m].result

KeepsTree(m) == run[m].keep \/ (run[m].reused /\ ~run[m].started)

\* settle(): the worktree goes, unless it is kept; its removal may fail.
SettleRun(m, removed) ==
  /\ At(m, "settle")
  /\ run' = [run EXCEPT ![m].at = "over", ![m].result = ReportedEnd(m)]
  /\ IF run[m].dir /\ ~KeepsTree(m) /\ removed
     THEN tree' = [tree EXCEPT ![m] = FALSE] /\ dirty' = [dirty EXCEPT ![m] = {}]
     ELSE UNCHANGED <<tree, dirty>>
  /\ UNCHANGED <<local, remote, made, runs>>

\* The worker process dies: clone and worktree stay as they are.
MachineCrash(m) ==
  /\ ~At(m, "over")
  /\ run' = [run EXCEPT ![m] = NoRun]
  /\ UNCHANGED <<places, remote, made, runs>>

Steps(m) ==
  \/ PrepareExisting(m) \/ PrepareFresh(m)
  \/ \E result \in {"failed", "declined"} : PrepareFails(m, result)
  \/ \E p \in Pieces : EngineEdits(m, p)
  \/ \E how \in {"ok", "early", "timeout", "error", "quota"} : EngineEnds(m, how)
  \/ \E ok \in BOOLEAN :
       \/ Setup(m, ok) \/ ReadTree(m, ok) \/ Commit(m, ok) \/ Push(m, ok)
       \/ SaveWip(m, ok) \/ PushWip(m, ok) \/ SettleRun(m, ok)
       \/ \E tested, allowEmpty \in BOOLEAN : Tests(m, tested, ok, allowEmpty)

TaskRunNext ==
  \E m \in Machines :
    Steps(m) \/ MachineCrash(m) \/ \E why \in {"revoked", "stopping"} : Abort(m, why)

TaskRunSpec == TaskRunInit /\ [][TaskRunNext]_taskVars

-----------------------------------------------------------------------------
(* Properties.                                                             *)

\* runTask: uncommitted work of an engine is never thrown away with its worktree, whatever fails,
\* aborts or dies (keepWorktree, prepareWorktree's refusal).
UncommittedWorkKept == [][\A m \in Machines : dirty[m] \subseteq dirty'[m] \cup local'[m]]_taskVars

\* What is in the worktree of m, committed or not.
InWorktree(m) == IF tree[m] THEN dirty[m] \cup local[m] ELSE {}

\* settle, prepareWorktree: when a run begins on a machine, all that the one before made there is
\* on origin or in the worktree as the new run finds it, however the one before ended.  The one
\* exception is a clean worktree that gives way because another machine pushed meanwhile: its
\* commits are lost with it.
OwnWorkKept ==
  [][\A m \in Machines :
       At(m, "over") /\ ~At(m, "over")'
         => made[m] \subseteq remote \cup InWorktree(m)' \/ GivesWay(m)]_taskVars

\* A run that is reported completed has put everything that it made on origin: nothing was edited
\* between reading the tree and committing it, and nothing committed stayed behind.
CompletedIsPushed ==
  \A m \in Machines :
    run[m].result = "completed" /\ At(m, "over") => made[m] \subseteq remote

\* The worktree is removed at the end, except when work would be lost with it: committed work
\* that is not on origin does not disappear either.
CommittedWorkKept ==
  [][\A m \in Machines : local[m] \subseteq remote' \cup UNION {local'[n] : n \in Machines}]_taskVars

=============================================================================
