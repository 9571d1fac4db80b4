------------------------------ MODULE RunProofs ------------------------------
(***************************************************************************)
(* Machine-checked proofs about the runs of TaskRun: for any number of     *)
(* machines, of runs and of pieces of work, whatever fails, is aborted or  *)
(* dies, uncommitted work survives, the next run on a machine finds what   *)
(* the one before made, unless another machine pushed meanwhile, and a     *)
(* completed run has pushed all it made.                                   *)
(*                                                                         *)
(* The argument follows the work of a run from place to place: it is       *)
(* uncommitted until the commit, on the local branch until the push, and   *)
(* what a run that is settling has not pushed lies in a worktree it keeps  *)
(* until the next run begins, or lacks work of origin by then.             *)
(***************************************************************************)
EXTENDS TaskRun, TLAPS

\* Where a run is while the engine's work is not committed, while it is not pushed, and whenever
\* the run has a worktree.
BeforeCommit == {"engine", "read", "tests", "commit", "wip"}
BeforePush   == {"push", "wippush"}
InTree       == {"setup"} \cup BeforeCommit \cup BeforePush

\* What is uncommitted lies in a worktree, and a run that is in its worktree has one.
TreeHolds(m) ==
  /\ ~tree[m] => dirty[m] = {}
  /\ run[m].at \in InTree => run[m].dir
  /\ run[m].at # "over" /\ run[m].dir => tree[m]

\* Where the work of a run is.
WorkIsWhere(m) ==
  /\ run[m].at = "setup" => /\ made[m] = {} /\ ~run[m].started
                            /\ ~run[m].reused => dirty[m] = {}
  /\ run[m].at \in BeforeCommit => made[m] \subseteq dirty[m]
  /\ run[m].at \in BeforePush => made[m] \subseteq local[m] /\ dirty[m] = {}
  /\ run[m].at = "tests" => (run[m].found.dirty <=> dirty[m] # {})

\* What a run made is on origin or in the worktree, or the worktree gives way.
Findable(m) == made[m] \subseteq remote \cup InWorktree(m) \/ GivesWay(m)

\* What the end of a run can rely on.
EndIsSafe(m) ==
  /\ run[m].at \in {"settle", "over"} => Findable(m)
  /\ run[m].at = "settle" /\ run[m].dir /\ ~KeepsTree(m) => /\ made[m] \subseteq remote
                                                          /\ dirty[m] = {}
  /\ run[m].at \in {"wip", "wippush"} => run[m].result # "completed"
  /\ run[m].result = "completed" /\ run[m].at \in {"settle", "over"} => made[m] \subseteq remote

RunInv ==
  /\ TaskRunTypeOK
  /\ \A m \in Machines : TreeHolds(m) /\ WorkIsWhere(m) /\ EndIsSafe(m)

\* What a step leaves as it is for every other machine.
OthersSame(m) ==
  \A n \in Machines \ {m} :
    /\ tree'[n] = tree[n] /\ dirty'[n] = dirty[n] /\ local'[n] = local[n]
    /\ run'[n] = run[n] /\ made'[n] = made[n]

\* A run of another machine is not disturbed by a step that does not take from origin.
LEMMA OthersStay ==
  ASSUME RunInv, NEW m \in Machines, OthersSame(m), remote \subseteq remote'
  PROVE  \A n \in Machines \ {m} : TreeHolds(n)' /\ WorkIsWhere(n)' /\ EndIsSafe(n)'
BY DEF RunInv, OthersSame, TreeHolds, WorkIsWhere, EndIsSafe, KeepsTree, Findable, InWorktree,
     GivesWay, MissesRemoteWork

-----------------------------------------------------------------------------
(* One lemma per step of a run.  Kept(m) is what each of them shows.       *)

\* When a step begins the next run, the work of the one before is findable there.
NextFinds(m) ==
  run[m].at = "over" /\ run'[m].at # "over"
    => made[m] \subseteq remote \cup InWorktree(m)' \/ GivesWay(m)

Kept(m) ==
  /\ TaskRunTypeOK' /\ remote \subseteq remote' /\ OthersSame(m)
  /\ TreeHolds(m)' /\ WorkIsWhere(m)' /\ EndIsSafe(m)'
  /\ dirty[m] \subseteq dirty'[m] \cup local'[m]
  /\ NextFinds(m)

\* The run begins in the worktree of an earlier attempt, whatever is in it.
LEMMA PrepareExistingKeeps ==
  ASSUME RunInv, NEW m \in Machines, PrepareExisting(m)
  PROVE  Kept(m)
<1> USE DEF RunInv, NextFinds, PrepareExisting, Begin, NoRun, At, Aborted, places
<1>1. TaskRunTypeOK'
  <2>1. run'[m] \in RunOf
    BY DEF TaskRunTypeOK, RunOf, Work
  <2>2. run' = [run EXCEPT ![m] = run'[m]]
    BY DEF TaskRunTypeOK
  <2>3. QED
    BY <2>1, TaskRunAssumption DEF TaskRunTypeOK
<1>2. OthersSame(m) /\ remote \subseteq remote'
  BY DEF OthersSame, TaskRunTypeOK
<1>3. TreeHolds(m)'
  BY DEF TreeHolds, TaskRunTypeOK
<1>4. WorkIsWhere(m)'
  BY DEF WorkIsWhere, TaskRunTypeOK, BeforePush
<1>5. EndIsSafe(m)'
  BY DEF EndIsSafe, TaskRunTypeOK
<1>6. dirty[m] \subseteq dirty'[m] \cup local'[m]
  BY DEF TaskRunTypeOK
<1>7. NextFinds(m)
  BY DEF EndIsSafe, Findable, InWorktree, GivesWay, MissesRemoteWork, TaskRunTypeOK
<1>8. QED
  BY <1>1, <1>2, <1>3, <1>4, <1>5, <1>6, <1>7 DEF Kept

\* A new worktree replaces at most a clean one.
LEMMA PrepareFreshKeeps ==
  ASSUME RunInv, NEW m \in Machines, PrepareFresh(m)
  PROVE  Kept(m)
<1> USE DEF RunInv, NextFinds, PrepareFresh, Begin, MissesRemoteWork, NoRun, At, Aborted, places
<1>1. TaskRunTypeOK'
  <2>1. run'[m] \in RunOf
    BY DEF TaskRunTypeOK, RunOf, Work
  <2>2. run' = [run EXCEPT ![m] = run'[m]]
    BY DEF TaskRunTypeOK
  <2>3. QED
    BY <2>1, TaskRunAssumption DEF TaskRunTypeOK
<1>2. OthersSame(m) /\ remote \subseteq remote'
  BY DEF OthersSame, TaskRunTypeOK
<1>3. TreeHolds(m)'
  BY DEF TreeHolds, TaskRunTypeOK
<1>4. WorkIsWhere(m)'
  BY DEF WorkIsWhere, TaskRunTypeOK
<1>5. EndIsSafe(m)'
  BY DEF EndIsSafe, TaskRunTypeOK
<1>6. dirty[m] \subseteq dirty'[m] \cup local'[m]
  BY DEF TaskRunTypeOK, TreeHolds, GivesWay
<1>7. NextFinds(m)
  BY DEF EndIsSafe, Findable, InWorktree, GivesWay, TaskRunTypeOK
<1>8. QED
  BY <1>1, <1>2, <1>3, <1>4, <1>5, <1>6, <1>7 DEF Kept

\* A run that gets no worktree touches none.
LEMMA PrepareFailsKeeps ==
  ASSUME RunInv, NEW m \in Machines, NEW result \in {"failed", "declined"}, PrepareFails(m, result)
  PROVE  Kept(m)
<1> USE DEF RunInv, NextFinds, At, places
<1>1. /\ run' = [run EXCEPT ![m] = [NoRun EXCEPT !.at = "settle", !.result = result]]
      /\ run[m].at = "over"
  BY DEF PrepareFails, Begin
<1>2. /\ run'[m].at = "settle" /\ run'[m].result = result /\ ~run'[m].dir
      /\ run'[m] \in RunOf
  BY <1>1 DEF TaskRunTypeOK, NoRun, RunOf, Work
<1>3. /\ tree' \in [Machines -> BOOLEAN]
      /\ \A n \in Machines \ {m} : tree'[n] = tree[n]
      /\ \/ tree'[m] = tree[m]
         \/ tree[m] /\ ~tree'[m] /\ GivesWay(m)
  <2>1. CASE UNCHANGED tree
    <3>1. tree' = tree /\ tree \in [Machines -> BOOLEAN]
      BY <2>1 DEF TaskRunTypeOK
    <3>2. QED
      BY <3>1, Zenon
  <2>2. CASE tree[m] /\ GivesWay(m) /\ tree' = [tree EXCEPT ![m] = FALSE]
    BY <2>2 DEF TaskRunTypeOK
  <2>3. QED
    BY <2>1, <2>2 DEF PrepareFails
<1>4. UNCHANGED <<dirty, local, remote, made>>
  BY DEF PrepareFails
<1>5. runs' \in 0..MaxRuns
  BY TaskRunAssumption DEF PrepareFails, Begin, TaskRunTypeOK
<1>6. TaskRunTypeOK'
  BY <1>1, <1>2, <1>3, <1>4, <1>5 DEF TaskRunTypeOK
<1>7. OthersSame(m) /\ remote \subseteq remote'
  BY <1>1, <1>3, <1>4 DEF OthersSame, TaskRunTypeOK
<1>8. TreeHolds(m)'
  BY <1>2, <1>3, <1>4 DEF TreeHolds, GivesWay, InTree, BeforeCommit, BeforePush
<1>9. WorkIsWhere(m)'
  BY <1>2 DEF WorkIsWhere, BeforeCommit, BeforePush
<1>10. GivesWay(m)' <=> GivesWay(m)
  BY <1>4 DEF GivesWay, MissesRemoteWork
<1>11. made[m] \subseteq remote \cup InWorktree(m)' \/ GivesWay(m)
  BY <1>1, <1>3, <1>4 DEF EndIsSafe, Findable, InWorktree
<1>12. Findable(m)'
  BY <1>4, <1>10, <1>11 DEF Findable
<1>13. EndIsSafe(m)'
  BY <1>2, <1>12 DEF EndIsSafe
<1>14. QED
  BY <1>4, <1>6, <1>7, <1>8, <1>9, <1>11, <1>13 DEF Kept

\* An abort only marks the run.
LEMMA AbortKeeps ==
  ASSUME RunInv, NEW m \in Machines, NEW why \in {"revoked", "stopping"}, Abort(m, why)
  PROVE  Kept(m)
<1> USE DEF RunInv, NextFinds, Abort, Aborted, At, places
<1>1. TaskRunTypeOK'
  <2>1. run'[m] \in RunOf
    BY SMTT(20) DEF TaskRunTypeOK, RunOf
  <2>2. run' = [run EXCEPT ![m] = run'[m]]
    BY DEF TaskRunTypeOK
  <2>3. QED
    BY <2>1 DEF TaskRunTypeOK
<1>2. OthersSame(m) /\ remote \subseteq remote'
  BY DEF OthersSame, TaskRunTypeOK
<1>3. TreeHolds(m)'
  BY DEF TreeHolds, TaskRunTypeOK
<1>4. WorkIsWhere(m)'
  BY DEF WorkIsWhere, TaskRunTypeOK
<1>5. EndIsSafe(m)'
  BY DEF EndIsSafe, Findable, InWorktree, GivesWay, MissesRemoteWork, KeepsTree, TaskRunTypeOK
<1>6. dirty[m] \subseteq dirty'[m] \cup local'[m]
  BY DEF TaskRunTypeOK
<1>7. NextFinds(m)
  BY DEF TaskRunTypeOK
<1>8. QED
  BY <1>1, <1>2, <1>3, <1>4, <1>5 DEF Kept

\* A run that ends before its engine has started has made nothing.
LEMMA SetupKeeps ==
  ASSUME RunInv, NEW m \in Machines, NEW ok \in BOOLEAN, Setup(m, ok)
  PROVE  Kept(m)
<1> USE DEF RunInv, NextFinds, Setup, Ends, At, Aborted, places
<1>1. TaskRunTypeOK'
  <2>1. run'[m] \in RunOf
    BY SMTT(20) DEF TaskRunTypeOK, RunOf
  <2>2. run' = [run EXCEPT ![m] = run'[m]]
    BY DEF TaskRunTypeOK
  <2>3. QED
    BY <2>1 DEF TaskRunTypeOK
<1>2. OthersSame(m) /\ remote \subseteq remote'
  BY DEF OthersSame, TaskRunTypeOK
<1>3. TreeHolds(m)'
  BY DEF TreeHolds, TaskRunTypeOK, RunOf, InTree
<1>4. WorkIsWhere(m)'
  BY DEF WorkIsWhere, TaskRunTypeOK, RunOf, BeforePush
<1>5. EndIsSafe(m)'
  BY DEF EndIsSafe, Findable, InWorktree, GivesWay, MissesRemoteWork, KeepsTree, WorkIsWhere,
     TaskRunTypeOK, RunOf
<1>6. dirty[m] \subseteq dirty'[m] \cup local'[m]
  BY DEF TaskRunTypeOK
<1>7. NextFinds(m)
  BY DEF TaskRunTypeOK
<1>8. QED
  BY <1>1, <1>2, <1>3, <1>4, <1>5 DEF Kept

\* The engine's work is uncommitted at first.
LEMMA EngineEditsKeeps ==
  ASSUME RunInv, NEW m \in Machines, NEW p \in Pieces, EngineEdits(m, p)
  PROVE  Kept(m)
<1> USE DEF RunInv, NextFinds, EngineEdits, At, Aborted, places
<1>1. TaskRunTypeOK'
  <2>1. run'[m] \in RunOf
    BY DEF TaskRunTypeOK
  <2>2. run' = [run EXCEPT ![m] = run'[m]]
    BY DEF TaskRunTypeOK
  <2>3. QED
    BY DEF TaskRunTypeOK
<1>2. OthersSame(m) /\ remote \subseteq remote'
  BY DEF OthersSame, TaskRunTypeOK
<1>3. TreeHolds(m)'
  BY DEF TreeHolds, TaskRunTypeOK, InTree, BeforeCommit
<1>4. WorkIsWhere(m)'
  BY DEF WorkIsWhere, TaskRunTypeOK, BeforePush
<1>5. EndIsSafe(m)'
  BY DEF EndIsSafe, TaskRunTypeOK
<1>6. dirty[m] \subseteq dirty'[m] \cup local'[m]
  BY DEF TaskRunTypeOK
<1>7. NextFinds(m)
  BY DEF TaskRunTypeOK
<1>8. QED
  BY <1>1, <1>2, <1>3, <1>4, <1>5 DEF Kept

\* However the engine ends, its work is still where it was.
LEMMA EngineEndsKeeps ==
  ASSUME RunInv, NEW m \in Machines, NEW how, EngineEnds(m, how)
  PROVE  Kept(m)
<1> USE DEF RunInv, NextFinds, EngineEnds, Saves, At, Aborted, places
<1>1. TaskRunTypeOK'
  <2>1. run'[m] \in RunOf
    BY SMTT(20) DEF TaskRunTypeOK, RunOf
  <2>2. run' = [run EXCEPT ![m] = run'[m]]
    BY DEF TaskRunTypeOK
  <2>3. QED
    BY <2>1 DEF TaskRunTypeOK
<1>2. OthersSame(m) /\ remote \subseteq remote'
  BY DEF OthersSame, TaskRunTypeOK
<1>3. TreeHolds(m)'
  BY DEF TreeHolds, TaskRunTypeOK, RunOf, InTree, BeforeCommit
<1>4. WorkIsWhere(m)'
  BY DEF WorkIsWhere, TaskRunTypeOK, RunOf, BeforeCommit, BeforePush
<1>5. EndIsSafe(m)'
  BY DEF EndIsSafe, Findable, InWorktree, GivesWay, MissesRemoteWork, TaskRunTypeOK, RunOf
<1>6. dirty[m] \subseteq dirty'[m] \cup local'[m]
  BY DEF TaskRunTypeOK
<1>7. NextFinds(m)
  BY DEF TaskRunTypeOK
<1>8. QED
  BY <1>1, <1>2, <1>3, <1>4, <1>5 DEF Kept

\* The state of the worktree is read before anything else can change it.
LEMMA ReadTreeKeeps ==
  ASSUME RunInv, NEW m \in Machines, NEW ok \in BOOLEAN, ReadTree(m, ok)
  PROVE  Kept(m)
<1> USE DEF RunInv, NextFinds, ReadTree, EndsKeeping, At, Aborted, places
<1> DEFINE found == [dirty |-> dirty[m] # {}, ahead |-> local[m] # {}]
<1>1. TaskRunTypeOK'
  <2>1. run'[m] \in RunOf
    <3>1. CASE ok
      <4>1. found \in Work
        BY DEF Work
      <4>2. run'[m] = [run[m] EXCEPT !.at = "tests", !.found = found]
        BY <3>1 DEF TaskRunTypeOK
      <4>3. QED
        BY DEF TaskRunTypeOK, RunOf
    <3>2. CASE ~ok
      BY <3>2, SMTT(20) DEF TaskRunTypeOK, RunOf
    <3>3. QED
      BY <3>1, <3>2
  <2>2. run' = [run EXCEPT ![m] = run'[m]]
    BY DEF TaskRunTypeOK
  <2>3. QED
    BY <2>1 DEF TaskRunTypeOK
<1>2. OthersSame(m) /\ remote \subseteq remote'
  BY DEF OthersSame, TaskRunTypeOK
<1>3. TreeHolds(m)'
  BY DEF TreeHolds, TaskRunTypeOK, RunOf, InTree, BeforeCommit
<1>4. WorkIsWhere(m)'
  <2>1. CASE ok
    <3>1. run'[m] = [run[m] EXCEPT !.at = "tests", !.found = found]
      BY <2>1 DEF TaskRunTypeOK
    <3>2. run'[m].at = "tests" /\ run'[m].found = found
      BY <3>1 DEF TaskRunTypeOK
    <3>3. run'[m].found.dirty <=> dirty'[m] # {}
      <4>1. dirty' = dirty
        OBVIOUS
      <4>2. found.dirty = (dirty[m] # {})
        OBVIOUS
      <4> HIDE DEF found
      <4>3. QED
        BY <3>2, <4>2
    <3>4. made'[m] \subseteq dirty'[m]
      BY DEF WorkIsWhere, BeforeCommit
    <3>5. QED
      BY <3>2, <3>3, <3>4 DEF WorkIsWhere, BeforePush
  <2>2. CASE ~ok
    BY <2>2 DEF WorkIsWhere, TaskRunTypeOK, RunOf, BeforeCommit, BeforePush
  <2>3. QED
    BY <2>1, <2>2
<1>5. EndIsSafe(m)'
  BY DEF EndIsSafe, Findable, InWorktree, GivesWay, MissesRemoteWork, KeepsTree, WorkIsWhere,
     TreeHolds, TaskRunTypeOK, RunOf, InTree, BeforeCommit
<1>6. dirty[m] \subseteq dirty'[m] \cup local'[m]
  BY DEF TaskRunTypeOK
<1>7. NextFinds(m)
  BY DEF TaskRunTypeOK
<1>8. QED
  BY <1>1, <1>2, <1>3, <1>4, <1>5 DEF Kept

\* A run that commits nothing has nothing to commit.
LEMMA TestsKeeps ==
  ASSUME RunInv, NEW m \in Machines, NEW tested \in BOOLEAN, NEW passed \in BOOLEAN,
         NEW allowEmpty \in BOOLEAN, Tests(m, tested, passed, allowEmpty)
  PROVE  Kept(m)
<1> USE DEF RunInv, NextFinds, Tests, Saves, Ends, NothingDone, At, Aborted, places
<1>1. TaskRunTypeOK'
  <2>1. run'[m] \in RunOf
    BY SMTT(20) DEF TaskRunTypeOK, RunOf
  <2>2. run' = [run EXCEPT ![m] = run'[m]]
    BY DEF TaskRunTypeOK
  <2>3. QED
    BY <2>1 DEF TaskRunTypeOK
<1>2. OthersSame(m) /\ remote \subseteq remote'
  BY DEF OthersSame, TaskRunTypeOK
<1>3. TreeHolds(m)'
  BY DEF TreeHolds, TaskRunTypeOK, RunOf, InTree, BeforeCommit
<1>4. WorkIsWhere(m)'
  BY DEF WorkIsWhere, TaskRunTypeOK, RunOf, BeforeCommit, BeforePush
<1>5. EndIsSafe(m)'
  BY DEF EndIsSafe, Findable, InWorktree, GivesWay, MissesRemoteWork, WorkIsWhere,
     TaskRunTypeOK, RunOf, BeforeCommit
<1>6. dirty[m] \subseteq dirty'[m] \cup local'[m]
  BY DEF TaskRunTypeOK
<1>7. NextFinds(m)
  BY DEF TaskRunTypeOK
<1>8. QED
  BY <1>1, <1>2, <1>3, <1>4, <1>5 DEF Kept

\* The commit moves the work to the branch, or the worktree is kept.
LEMMA CommitKeeps ==
  ASSUME RunInv, NEW m \in Machines, NEW ok \in BOOLEAN, Commit(m, ok)
  PROVE  Kept(m)
<1> USE DEF RunInv, NextFinds, Commit, CommitAll, EndsKeeping, At, Aborted, places
<1>1. TaskRunTypeOK'
  <2>1. run'[m] \in RunOf
    BY SMTT(20) DEF TaskRunTypeOK, RunOf
  <2>2. run' = [run EXCEPT ![m] = run'[m]]
    BY DEF TaskRunTypeOK
  <2>3. QED
    BY <2>1 DEF TaskRunTypeOK
<1>2. OthersSame(m) /\ remote \subseteq remote'
  BY DEF OthersSame, TaskRunTypeOK
<1>3. TreeHolds(m)'
  BY DEF TreeHolds, TaskRunTypeOK, RunOf, InTree, BeforeCommit
<1>4. WorkIsWhere(m)'
  BY DEF WorkIsWhere, TaskRunTypeOK, RunOf, BeforeCommit, BeforePush
<1>5. EndIsSafe(m)'
  BY DEF EndIsSafe, Findable, InWorktree, GivesWay, MissesRemoteWork, KeepsTree, WorkIsWhere,
     TreeHolds, TaskRunTypeOK, RunOf, InTree, BeforeCommit
<1>6. dirty[m] \subseteq dirty'[m] \cup local'[m]
  BY DEF TaskRunTypeOK
<1>7. NextFinds(m)
  BY DEF TaskRunTypeOK
<1>8. QED
  BY <1>1, <1>2, <1>3, <1>4, <1>5, <1>6 DEF Kept

\* The push moves the work to origin, or the worktree is kept.
LEMMA PushKeeps ==
  ASSUME RunInv, NEW m \in Machines, NEW ok \in BOOLEAN, Push(m, ok)
  PROVE  Kept(m)
<1> USE DEF RunInv, NextFinds, Push, PushBranch, Ends, EndsKeeping, At, Aborted, places
<1>1. TaskRunTypeOK'
  <2>1. run'[m] \in RunOf
    <3>1. CASE ok
      BY <3>1 DEF TaskRunTypeOK, RunOf
    <3>2. CASE ~ok
      BY <3>2, SMTT(20) DEF TaskRunTypeOK, RunOf
    <3>3. QED
      BY <3>1, <3>2
  <2>2. run' = [run EXCEPT ![m] = run'[m]]
    BY DEF TaskRunTypeOK
  <2>3. QED
    BY <2>1 DEF TaskRunTypeOK
<1>2. OthersSame(m) /\ remote \subseteq remote'
  BY DEF OthersSame, TaskRunTypeOK
<1>3. TreeHolds(m)'
  BY DEF TreeHolds, TaskRunTypeOK, RunOf, InTree, BeforePush
<1>4. WorkIsWhere(m)'
  BY DEF WorkIsWhere, TaskRunTypeOK, RunOf, BeforeCommit, BeforePush
<1>5. EndIsSafe(m)'
  BY DEF EndIsSafe, Findable, InWorktree, GivesWay, MissesRemoteWork, KeepsTree, WorkIsWhere,
     TreeHolds, TaskRunTypeOK, RunOf, InTree, BeforePush
<1>6. dirty[m] \subseteq dirty'[m] \cup local'[m]
  BY DEF TaskRunTypeOK
<1>7. NextFinds(m)
  BY DEF TaskRunTypeOK
<1>8. QED
  BY <1>1, <1>2, <1>3, <1>4, <1>5 DEF Kept

\* Work of a run that ends early is committed, or the worktree is kept.
LEMMA SaveWipKeeps ==
  ASSUME RunInv, NEW m \in Machines, NEW ok \in BOOLEAN, SaveWip(m, ok)
  PROVE  Kept(m)
<1> USE DEF RunInv, NextFinds, SaveWip, CommitAll, Goes, EndsKeeping, At, Aborted, places
<1>1. TaskRunTypeOK'
  <2>1. run'[m] \in RunOf
    BY SMTT(20) DEF TaskRunTypeOK, RunOf
  <2>2. run' = [run EXCEPT ![m] = run'[m]]
    BY DEF TaskRunTypeOK
  <2>3. QED
    BY <2>1 DEF TaskRunTypeOK
<1>2. OthersSame(m) /\ remote \subseteq remote'
  BY DEF OthersSame, TaskRunTypeOK
<1>3. TreeHolds(m)'
  BY DEF TreeHolds, TaskRunTypeOK, RunOf, InTree, BeforeCommit
<1>4. WorkIsWhere(m)'
  BY DEF WorkIsWhere, TaskRunTypeOK, RunOf, BeforeCommit, BeforePush
<1>5. EndIsSafe(m)'
  BY DEF EndIsSafe, Findable, InWorktree, GivesWay, MissesRemoteWork, KeepsTree, WorkIsWhere,
     TreeHolds, TaskRunTypeOK, RunOf, InTree, BeforeCommit
<1>6. dirty[m] \subseteq dirty'[m] \cup local'[m]
  BY DEF TaskRunTypeOK
<1>7. NextFinds(m)
  BY DEF TaskRunTypeOK
<1>8. QED
  BY <1>1, <1>2, <1>3, <1>4, <1>5, <1>6 DEF Kept

\* What was saved is pushed, or the worktree is kept.
LEMMA PushWipKeeps ==
  ASSUME RunInv, NEW m \in Machines, NEW ok \in BOOLEAN, PushWip(m, ok)
  PROVE  Kept(m)
<1> USE DEF RunInv, NextFinds, PushWip, PushBranch, Goes, EndsKeeping, At, Aborted, places
<1>1. TaskRunTypeOK'
  <2>1. run'[m] \in RunOf
    BY SMTT(20) DEF TaskRunTypeOK, RunOf
  <2>2. run' = [run EXCEPT ![m] = run'[m]]
    BY DEF TaskRunTypeOK
  <2>3. QED
    BY <2>1 DEF TaskRunTypeOK
<1>2. OthersSame(m) /\ remote \subseteq remote'
  BY DEF OthersSame, TaskRunTypeOK
<1>3. TreeHolds(m)'
  BY DEF TreeHolds, TaskRunTypeOK, RunOf, InTree, BeforePush
<1>4. WorkIsWhere(m)'
  BY DEF WorkIsWhere, TaskRunTypeOK, RunOf, BeforeCommit, BeforePush
<1>5. EndIsSafe(m)'
  BY DEF EndIsSafe, Findable, InWorktree, GivesWay, MissesRemoteWork, KeepsTree, WorkIsWhere,
     TreeHolds, TaskRunTypeOK, RunOf, InTree, BeforePush
<1>6. dirty[m] \subseteq dirty'[m] \cup local'[m]
  BY DEF TaskRunTypeOK
<1>7. NextFinds(m)
  BY DEF TaskRunTypeOK
<1>8. QED
  BY <1>1, <1>2, <1>3, <1>4, <1>5 DEF Kept

\* A record of a run that is over, with the result it reports, is a record of a run.
LEMMA OverIsRun ==
  ASSUME NEW r \in RunOf, NEW res \in {"aborted", r.result}
  PROVE  [r EXCEPT !.at = "over", !.result = res] \in RunOf
BY DEF RunOf

\* A worktree is removed only when nothing is uncommitted in it.
LEMMA SettleRunKeeps ==
  ASSUME RunInv, NEW m \in Machines, NEW removed \in BOOLEAN, SettleRun(m, removed)
  PROVE  Kept(m)
<1> USE DEF RunInv, NextFinds, SettleRun, ReportedEnd, At, Aborted, places
<1>1. TaskRunTypeOK'
  <2>1. run'[m] \in RunOf
    <3>1. ReportedEnd(m) \in {"aborted", run[m].result}
      BY DEF ReportedEnd
    <3>2. run'[m] = [run[m] EXCEPT !.at = "over", !.result = ReportedEnd(m)]
      BY DEF TaskRunTypeOK
    <3>3. run[m] \in RunOf
      BY DEF TaskRunTypeOK
    <3> HIDE DEF RunInv, SettleRun, ReportedEnd, At, Aborted, places
    <3>4. QED
      BY <3>1, <3>2, <3>3, OverIsRun
  <2>2. run' = [run EXCEPT ![m] = run'[m]]
    BY DEF TaskRunTypeOK
  <2>3. QED
    BY <2>1 DEF TaskRunTypeOK
<1>2. OthersSame(m) /\ remote \subseteq remote'
  BY DEF OthersSame, TaskRunTypeOK
<1>3. TreeHolds(m)'
  BY DEF TreeHolds, TaskRunTypeOK, InTree, BeforeCommit, BeforePush
<1>4. WorkIsWhere(m)'
  BY DEF WorkIsWhere, TaskRunTypeOK, BeforeCommit, BeforePush
<1>5. EndIsSafe(m)'
  BY DEF EndIsSafe, Findable, InWorktree, GivesWay, MissesRemoteWork, TaskRunTypeOK
<1>6. dirty[m] \subseteq dirty'[m] \cup local'[m]
  BY DEF TaskRunTypeOK, EndIsSafe
<1>7. NextFinds(m)
  BY DEF TaskRunTypeOK, EndIsSafe
<1>8. QED
  BY <1>1, <1>2, <1>3, <1>4, <1>5, <1>6, <1>7 DEF Kept

\* A crash leaves clone and worktree as they are.
LEMMA MachineCrashKeeps ==
  ASSUME RunInv, NEW m \in Machines, MachineCrash(m)
  PROVE  Kept(m)
<1> USE DEF RunInv, NextFinds, MachineCrash, NoRun, At, Aborted, places
<1>1. TaskRunTypeOK'
  <2>1. run'[m] \in RunOf
    BY DEF TaskRunTypeOK, RunOf, Work
  <2>2. run' = [run EXCEPT ![m] = run'[m]]
    BY DEF TaskRunTypeOK
  <2>3. QED
    BY <2>1 DEF TaskRunTypeOK
<1>2. OthersSame(m) /\ remote \subseteq remote'
  BY DEF OthersSame, TaskRunTypeOK
<1>3. TreeHolds(m)'
  BY DEF TreeHolds, TaskRunTypeOK, InTree, BeforeCommit, BeforePush
<1>4. WorkIsWhere(m)'
  BY DEF WorkIsWhere, TaskRunTypeOK, BeforeCommit, BeforePush
<1>5. EndIsSafe(m)'
  <2>1. Findable(m)
    <3>1. CASE run[m].at = "settle"
      BY <3>1 DEF EndIsSafe
    <3>2. CASE run[m].at = "setup"
      BY <3>2 DEF WorkIsWhere, Findable
    <3>3. CASE run[m].at \in BeforeCommit \cup BeforePush
      <4>1. tree[m]
        BY <3>3 DEF TreeHolds, InTree, BeforeCommit, BeforePush
      <4>2. QED
        BY <3>3, <4>1 DEF WorkIsWhere, Findable, InWorktree
    <3>4. QED
      BY <3>1, <3>2, <3>3 DEF TaskRunTypeOK, RunOf, BeforeCommit, BeforePush
  <2>2. Findable(m)' <=> Findable(m)
    BY DEF Findable, InWorktree, GivesWay, MissesRemoteWork
  <2>3. run'[m].at = "over" /\ run'[m].result = "none"
    BY DEF TaskRunTypeOK
  <2>4. QED
    BY <2>1, <2>2, <2>3 DEF EndIsSafe
<1>6. dirty[m] \subseteq dirty'[m] \cup local'[m]
  BY DEF TaskRunTypeOK
<1>7. NextFinds(m)
  BY DEF TaskRunTypeOK, EndIsSafe
<1>8. QED
  BY <1>1, <1>2, <1>3, <1>4, <1>5, <1>7 DEF Kept

-----------------------------------------------------------------------------
\* Nothing is made, committed or run at first.
LEMMA NoRunYet == TaskRunInit => RunInv
<1> SUFFICES ASSUME TaskRunInit PROVE RunInv
  OBVIOUS
<1> USE DEF TaskRunInit
<1>1. NoRun \in RunOf
  BY DEF NoRun, RunOf, Work
<1>2. TaskRunTypeOK
  BY <1>1, TaskRunAssumption DEF TaskRunTypeOK
<1>3. ASSUME NEW m \in Machines
      PROVE  TreeHolds(m) /\ WorkIsWhere(m) /\ EndIsSafe(m)
  <2>1. run[m].at = "over" /\ run[m].result = "none"
    BY DEF NoRun
  <2>2. dirty[m] = {} /\ made[m] = {}
    OBVIOUS
  <2>3. QED
    BY <2>1, <2>2 DEF TreeHolds, WorkIsWhere, EndIsSafe, Findable, InTree, BeforeCommit, BeforePush
<1>4. QED
  BY <1>2, <1>3 DEF RunInv

\* What one step of the task's machines does to the work.
WorkIsKept ==
  \A n \in Machines :
    /\ dirty[n] \subseteq dirty'[n] \cup local'[n]
    /\ NextFinds(n)

\* A step of one machine keeps the invariant and the work of all of them.
LEMMA StepKeeps ==
  ASSUME RunInv, NEW m \in Machines, Kept(m)
  PROVE  RunInv' /\ WorkIsKept
<1>1. \A n \in Machines \ {m} : TreeHolds(n)' /\ WorkIsWhere(n)' /\ EndIsSafe(n)'
  BY OthersStay DEF Kept
<1>2. \A n \in Machines \ {m} : dirty'[n] = dirty[n] /\ run'[n] = run[n]
  BY DEF Kept, OthersSame
<1>3. RunInv'
  BY <1>1 DEF Kept, RunInv
<1>4. WorkIsKept
  BY <1>2 DEF Kept, WorkIsKept, NextFinds
<1>5. QED
  BY <1>3, <1>4

\* Every step of TaskRun is one of these.
LEMMA NextKeepsWork == RunInv /\ [TaskRunNext]_taskVars => RunInv' /\ WorkIsKept
<1> SUFFICES ASSUME RunInv, [TaskRunNext]_taskVars PROVE RunInv' /\ WorkIsKept
  OBVIOUS
<1>1. ASSUME NEW m \in Machines, Steps(m) PROVE Kept(m)
  <2>1. CASE PrepareExisting(m)
    BY <2>1, PrepareExistingKeeps
  <2>2. CASE PrepareFresh(m)
    BY <2>2, PrepareFreshKeeps
  <2>3. ASSUME NEW result \in {"failed", "declined"}, PrepareFails(m, result) PROVE Kept(m)
    BY <2>3, PrepareFailsKeeps
  <2>4. ASSUME NEW p \in Pieces, EngineEdits(m, p) PROVE Kept(m)
    BY <2>4, EngineEditsKeeps
  <2>5. ASSUME NEW how, EngineEnds(m, how) PROVE Kept(m)
    BY <2>5, EngineEndsKeeps
  <2>6. ASSUME NEW ok \in BOOLEAN, Setup(m, ok) PROVE Kept(m)
    BY <2>6, SetupKeeps
  <2>7. ASSUME NEW ok \in BOOLEAN, ReadTree(m, ok) PROVE Kept(m)
    BY <2>7, ReadTreeKeeps
  <2>8. ASSUME NEW ok \in BOOLEAN, NEW tested \in BOOLEAN, NEW allowEmpty \in BOOLEAN,
               Tests(m, tested, ok, allowEmpty)
        PROVE  Kept(m)
    BY <2>8, TestsKeeps
  <2>9. ASSUME NEW ok \in BOOLEAN, Commit(m, ok) PROVE Kept(m)
    BY <2>9, CommitKeeps
  <2>10. ASSUME NEW ok \in BOOLEAN, Push(m, ok) PROVE Kept(m)
    BY <2>10, PushKeeps
  <2>11. ASSUME NEW ok \in BOOLEAN, SaveWip(m, ok) PROVE Kept(m)
    BY <2>11, SaveWipKeeps
  <2>12. ASSUME NEW ok \in BOOLEAN, PushWip(m, ok) PROVE Kept(m)
    BY <2>12, PushWipKeeps
  <2>13. ASSUME NEW ok \in BOOLEAN, SettleRun(m, ok) PROVE Kept(m)
    BY <2>13, SettleRunKeeps
  <2>14. QED
    BY <1>1, <2>1, <2>2, <2>3, <2>4, <2>5, <2>6, <2>7, <2>8, <2>9, <2>10, <2>11, <2>12, <2>13
      DEF Steps
<1>2. ASSUME NEW m \in Machines, MachineCrash(m) PROVE Kept(m)
  BY <1>2, MachineCrashKeeps
<1>3. ASSUME NEW m \in Machines, NEW why \in {"revoked", "stopping"}, Abort(m, why) PROVE Kept(m)
  BY <1>3, AbortKeeps
<1>4. CASE UNCHANGED taskVars
  <2>1. RunInv'
    BY <1>4 DEF taskVars, places, RunInv, TaskRunTypeOK, TreeHolds, WorkIsWhere, EndIsSafe,
      KeepsTree, Findable, InWorktree, GivesWay, MissesRemoteWork
  <2>2. WorkIsKept
    BY <1>4 DEF taskVars, places, WorkIsKept, NextFinds
  <2>3. QED
    BY <2>1, <2>2
<1>5. QED
  BY <1>1, <1>2, <1>3, <1>4, StepKeeps DEF TaskRunNext

-----------------------------------------------------------------------------
(***************************************************************************)
(* The runs of a task are always in one of the states listed, whatever     *)
(* fails, is aborted or dies.                                              *)
(***************************************************************************)
THEOREM RunTypeCorrect == TaskRunSpec => []TaskRunTypeOK
<1>1. RunInv => TaskRunTypeOK
  BY DEF RunInv
<1>2. QED
  BY NoRunYet, NextKeepsWork, <1>1, PTL DEF TaskRunSpec

(***************************************************************************)
(* A run that is reported completed has everything it made on origin, so   *)
(* the lead that accepts it finds the work, on any number of machines.     *)
(***************************************************************************)
THEOREM CompletedRunsPushed == TaskRunSpec => []CompletedIsPushed
<1>1. RunInv => CompletedIsPushed
  BY DEF RunInv, EndIsSafe, CompletedIsPushed, At
<1>2. QED
  BY NoRunYet, NextKeepsWork, <1>1, PTL DEF TaskRunSpec

(***************************************************************************)
(* No step of any run destroys uncommitted work of an engine: not the      *)
(* removal of a worktree, nor its replacement, nor a crash between them.   *)
(***************************************************************************)
THEOREM UncommittedWorkSurvives == TaskRunSpec => UncommittedWorkKept
<1>1. RunInv /\ [TaskRunNext]_taskVars
        => [\A m \in Machines : dirty[m] \subseteq dirty'[m] \cup local'[m]]_taskVars
  BY NextKeepsWork DEF WorkIsKept
<1>2. QED
  BY NoRunYet, NextKeepsWork, <1>1, PTL DEF TaskRunSpec, UncommittedWorkKept

(***************************************************************************)
(* The next run on a machine begins with what the one before made there,   *)
(* on origin or in its worktree, unless a clean worktree gives way because *)
(* another machine pushed meanwhile.                                       *)
(***************************************************************************)
THEOREM OwnWorkStays == TaskRunSpec => OwnWorkKept
<1>1. RunInv /\ [TaskRunNext]_taskVars
        => [\A m \in Machines :
              At(m, "over") /\ ~At(m, "over")'
                => made[m] \subseteq remote \cup InWorktree(m)' \/ GivesWay(m)]_taskVars
  BY NextKeepsWork DEF WorkIsKept, NextFinds, At
<1>2. QED
  BY NoRunYet, NextKeepsWork, <1>1, PTL DEF TaskRunSpec, OwnWorkKept

=============================================================================
