----------------------------- MODULE IndexProofs ------------------------------
(***************************************************************************)
(* Machine-checked proofs about the index queue of IndexQueue, for any     *)
(* number of branches, commits, chunks, jobs and mishaps: skipping a       *)
(* commit that is indexed is safe, no branch becomes half empty, and no    *)
(* push is lost.                                                           *)
(*                                                                         *)
(* Jobs start in the order of their rows, so the job that runs is the      *)
(* newest that ever ran and its branch's row is its own; what the rows say *)
(* of other branches is not touched by it.  While the job looks whether it *)
(* may be skipped, the row before it still speaks for the branch.          *)
(***************************************************************************)
EXTENDS IndexQueue, FiniteSetTheorems, SequenceTheorems, WellFoundedInduction, TLAPS

Revisions == (Branches \X Commits) \cup {NoCommit}

Row == [branch : Branches, status : {"pending", "cloning", "analyzing", "done", "error", "deleted"},
        begun : BOOLEAN, commit : Revisions, mem9 : {"none", "embedding", "done", "error"},
        docs : {"none", "building", "done", "error"}]

Entry == [job : Nat, force : BOOLEAN]

JobStages == {"look", "fetch", "clone", "analyze", "open", "list", "write", "docs"}

RunState == [at : JobStages \cup {"idle", "sweep", "sweep rows"}, job : Nat, force : BOOLEAN,
             killed : BOOLEAN, todo : SUBSET Chunks, stale : SUBSET Chunks, failed : BOOLEAN,
             wrote : BOOLEAN, left : SUBSET Branches]

QueueTypeOK ==
  /\ jobs \in Seq(Row)
  /\ waiting \in Seq(Entry)
  /\ run \in RunState
  /\ checkout \in [{"own", "shared"} -> Revisions]
  /\ remote \in [Branches -> Commits \cup {0}]
  /\ owed \in [Branches -> Commits \cup {0}]
  /\ mishaps \in Nat
  /\ points \subseteq Branches \X Chunks
  /\ whole \in [Branches -> Revisions]
  /\ short \subseteq Branches

-----------------------------------------------------------------------------
(* The inductive invariant, in parts that speak of given rows.             *)

\* A row of a job that began is kept, and only such a row names a commit.
RowsOK(rows) ==
  \A j \in DOMAIN rows :
    /\ rows[j].begun => rows[j].status \notin {"pending", "deleted"}
    /\ ~rows[j].begun => rows[j].commit = NoCommit

\* The queue is in the order of the rows, behind all jobs that began.
QueueOK(rows, queue) ==
  \A i \in DOMAIN queue :
    /\ queue[i].job \in DOMAIN rows
    /\ rows[queue[i].job].status = "pending"
    /\ \A j \in DOMAIN rows : rows[j].begun => j < queue[i].job
    /\ \A k \in DOMAIN queue : i < k => queue[i].job < queue[k].job

\* The job that runs is the newest that began.
RunOK(rows, r) ==
  /\ r.at \in JobStages <=> r.job # 0
  /\ r.job # 0 => /\ r.job \in DOMAIN rows /\ rows[r.job].begun
                  /\ \A j \in DOMAIN rows : rows[j].begun => j <= r.job

\* What the row of the job that runs says at each stage; c is the commit of its checkout.
StageOK(row, r, c) ==
  /\ r.at \in {"look", "fetch", "clone"} => row.commit = NoCommit
  /\ r.at = "analyze" => row.status # "done"
  /\ r.at \in {"open", "list", "write"} => row.mem9 = "embedding"
  /\ r.at \in {"analyze", "open", "list", "write"} => row.commit = NoCommit \/ row.commit = c

Held(pts, b) == {t \in Chunks : <<b, t>> \in pts}

\* The chunks of the commit are stored or still to be written, and what else is stored is stale.
WriteOK(r, c, held) ==
  r.at = "write" =>
    /\ ~r.failed => ChunksOf(c) \subseteq held \cup r.todo
    /\ held \subseteq ChunksOf(c) \cup r.stale
    /\ r.todo \subseteq ChunksOf(c) /\ r.stale \cap ChunksOf(c) = {}

JobOK(rows, r, co, pts) ==
  r.job # 0 => LET b == rows[r.job].branch
               IN StageOK(rows[r.job], r, co[Dir(b)]) /\ WriteOK(r, co[Dir(b)], Held(pts, b))

\* The newest job of its branch that began, when those in `skip` do not count.
IsNewest(rows, skip, j) ==
  /\ j \in DOMAIN rows \ skip /\ rows[j].begun
  /\ \A k \in DOMAIN rows \ skip : rows[k].begun /\ rows[k].branch = rows[j].branch => k <= j

\* A commit without source files is done with nothing looked at, and says nothing of the points.
Claims(row) == row.status = "done" /\ row.mem9 = "done" /\ ChunksOf(row.commit) # {}

\* What the newest job of a branch claims is true.
DoneFor(rows, skip, pts, sh) ==
  \A j \in DOMAIN rows :
    IsNewest(rows, skip, j) /\ Claims(rows[j]) /\ rows[j].branch \notin sh =>
      Held(pts, rows[j].branch) = ChunksOf(rows[j].commit)

Looking(r) == IF r.at = "look" THEN {r.job} ELSE {}

Pends(rows, queue, b) == \E i \in DOMAIN queue : rows[queue[i].job].branch = b

\* A row that answers for what was asked of its branch; the job that runs may not say error yet.
Answers(row, ended, b, due) ==
  \/ row.status = "error" /\ ended
  \/ row.commit = NoCommit
  \/ row.commit[1] = b /\ row.commit[2] >= due

\* What was asked of a branch waits, or its newest job answers for it and was not killed.
OwedFor(rows, queue, r, due) ==
  \A b \in Branches :
    due[b] # 0 =>
      \/ Pends(rows, queue, b)
      \/ /\ r.killed /\ r.job # 0 => rows[r.job].branch # b
         /\ \A j \in DOMAIN rows :
              IsNewest(rows, {}, j) /\ rows[j].branch = b => Answers(rows[j], j # r.job, b, due[b])

\* The rows and the queue when no job runs.
Ready(rows, queue, due, pts, sh) ==
  /\ RowsOK(rows) /\ QueueOK(rows, queue)
  /\ DoneFor(rows, {}, pts, sh) /\ OwedFor(rows, queue, Idle, due)

\* The rows, the queue and what runs.
Sound(rows, queue, r, co, due, pts, sh) ==
  /\ r.at = "idle" => queue = <<>>
  /\ RowsOK(rows) /\ QueueOK(rows, queue) /\ RunOK(rows, r) /\ JobOK(rows, r, co, pts)
  /\ DoneFor(rows, Looking(r), pts, sh) /\ OwedFor(rows, queue, r, due)

\* The remote is never behind what was asked of it, unless the branch is gone.
RemoteOK == \A b \in Branches : remote[b] = 0 \/ owed[b] <= remote[b]

IndexInv ==
  /\ QueueTypeOK
  /\ Sound(jobs, waiting, run, checkout, owed, points, short)
  /\ NeverHalfEmpty /\ RemoteOK

-----------------------------------------------------------------------------
(* The newest of some rows.                                                *)

\* A set of numbers that has one has a least one.
LEMMA Least ==
  ASSUME NEW S \in SUBSET Nat, S # {}
  PROVE  \E n \in S : \A m \in S : n <= m
<1> DEFINE T == {0..n : n \in S}
           R == StrictSubsetOrdering(Nat)
<1>1. IsWellFoundedOn(R, FiniteSubsetsOf(Nat))
  BY FS_StrictSubsetOrderingWellFounded
<1>2. \A n \in Nat : IsFiniteSet(0..n) /\ 0..n \subseteq Nat
  BY FS_Interval
<1>3. T \subseteq FiniteSubsetsOf(Nat) /\ T # {}
  BY <1>2 DEF FiniteSubsetsOf
<1>4. \A n, m \in Nat : m < n => <<0..m, 0..n>> \in R
  <2> SUFFICES ASSUME NEW n \in Nat, NEW m \in Nat, m < n PROVE <<0..m, 0..n>> \in R
    OBVIOUS
  <2>1. 0..m \subseteq 0..n /\ n \in 0..n /\ n \notin 0..m /\ 0..n \subseteq Nat
    OBVIOUS
  <2>2. QED
    BY <2>1 DEF StrictSubsetOrdering
<1> HIDE DEF R
<1>5. PICK x \in T : \A y \in T : <<y, x>> \notin R
  BY <1>1, <1>3, WFMin
<1>6. PICK n \in S : x = 0..n
  OBVIOUS
<1>7. \A m \in S : ~(m < n)
  BY <1>4, <1>5, <1>6
<1>8. QED
  BY <1>6, <1>7

\* Newest picks the largest of some rows.
LEMMA NewestIsLargest ==
  ASSUME NEW n \in Nat, NEW S \in SUBSET (1..n), S # {}
  PROVE  Newest(S) \in S /\ \A k \in S : k <= Newest(S)
<1> DEFINE D == {n - k : k \in S}
<1>1. \A k \in S : k \in Nat /\ n - k \in Nat
  OBVIOUS
<1>2. PICK d \in D : \A e \in D : d <= e
  <2>1. D \in SUBSET Nat /\ D # {}
    BY <1>1
  <2>2. QED
    BY <2>1, Least
<1>3. PICK m \in S : d = n - m
  BY <1>2
<1>4. \A k \in S : k <= m
  <2> TAKE k \in S
  <2>1. n - m <= n - k
    BY <1>2, <1>3
  <2>2. n \in Int /\ m \in Int /\ k \in Int
    BY <1>1
  <2> HIDE DEF D
  <2>3. QED
    BY <2>1, <2>2
<1>5. QED
  BY <1>3, <1>4 DEF Newest

\* Of the rows that Begun gives, Newest picks the newest that began.
LEMMA NewestBegun ==
  ASSUME IndexInv, NEW skip, NEW b, NEW S, S = Begun(jobs, b) \ skip, S # {}
  PROVE  IsNewest(jobs, skip, Newest(S)) /\ jobs[Newest(S)].branch = b
<1>1. S = {j \in DOMAIN jobs \ skip : jobs[j].begun /\ jobs[j].branch = b}
  BY DEF Begun, RowsOf, RowsOK, IndexInv, Sound
<1>2. S \subseteq 1..Len(jobs) /\ Len(jobs) \in Nat
  BY <1>1 DEF IndexInv, QueueTypeOK
<1>3. Newest(S) \in S /\ \A k \in S : k <= Newest(S)
  BY <1>2, NewestIsLargest
<1>4. QED
  BY <1>1, <1>3 DEF IsNewest

-----------------------------------------------------------------------------
(* Starting the next job.                                                  *)

\* Between two jobs, the first that waits may start, or the queue is empty.
LEMMA StartNextKeeps ==
  ASSUME NEW rows \in Seq(Row), NEW queue \in Seq(Entry), NEW co, NEW due, NEW pts, NEW sh,
         Ready(rows, queue, due, pts, sh), StartNext(rows, queue)
  PROVE  /\ jobs' \in Seq(Row) /\ waiting' \in Seq(Entry) /\ run' \in RunState
         /\ Sound(jobs', waiting', run', co, due, pts, sh)
<1>1. \A i \in DOMAIN queue : queue[i].job \in DOMAIN rows /\ rows[queue[i].job].status = "pending"
  BY DEF Ready, QueueOK
<1>2. CASE queue = <<>>
  <2>1. jobs' = rows /\ waiting' = <<>> /\ run' = Idle
    BY <1>2 DEF StartNext
  <2>2. Idle \in RunState /\ <<>> \in Seq(Entry)
    BY DEF Idle, RunState, JobStages
  <2>3. RunOK(rows, Idle) /\ JobOK(rows, Idle, co, pts) /\ Looking(Idle) = {}
    BY DEF RunOK, JobOK, Idle, Looking, JobStages
  <2>4. QED
    BY <2>1, <2>2, <2>3, <1>2 DEF Ready, Sound
<1>3. CASE queue # <<>>
  <2> DEFINE j == queue[1].job
             row == [rows[j] EXCEPT !.status = "cloning", !.begun = TRUE]
             tail == SubSeq(queue, 2, Len(queue))
             r == [Idle EXCEPT !.at = "look", !.job = j, !.force = queue[1].force]
  <2>1. Len(queue) \in Nat \ {0} /\ 1 \in DOMAIN queue /\ queue[1] \in Entry
    BY <1>3, EmptySeq
  <2>2. j \in DOMAIN rows /\ j \in Nat \ {0} /\ rows[j] \in Row /\ rows[j].status = "pending"
    BY <1>1, <2>1
  <2>3. jobs' = [rows EXCEPT ![j] = row] /\ waiting' = tail /\ run' = r
    <3>1. {i \in DOMAIN queue : rows[queue[i].job].status = "pending"} = DOMAIN queue
      BY <1>1
    <3>2. PICK i \in DOMAIN queue :
            /\ \A k \in DOMAIN queue : i <= k
            /\ run' = [Idle EXCEPT !.at = "look", !.job = queue[i].job, !.force = queue[i].force]
            /\ waiting' = SubSeq(queue, i + 1, Len(queue))
            /\ jobs' = [rows EXCEPT ![queue[i].job].status = "cloning", ![queue[i].job].begun = TRUE]
      BY <2>1, <3>1 DEF StartNext
    <3>3. i = 1
      BY <2>1, <3>2
    <3>4. i + 1 = 2
      BY <3>3
    <3>5. run' = r /\ waiting' = tail
      BY <3>2, <3>3, <3>4, Zenon
    <3>6. jobs' = [rows EXCEPT ![j] = row]
      <4>1. DOMAIN jobs' = DOMAIN rows /\ \A k \in DOMAIN rows : k # j => jobs'[k] = rows[k]
        BY <2>2, <3>2, <3>3
      <4>2. jobs'[j] = row
        BY <2>2, <3>2, <3>3
      <4>3. jobs' = [k \in DOMAIN rows |-> jobs'[k]]
        BY <3>2, <4>1
      <4>4. QED
        BY <4>1, <4>2, <4>3
    <3>7. QED
      BY <3>5, <3>6
  <2>4. row \in Row /\ row.branch = rows[j].branch /\ row.status = "cloning" /\ row.begun
        /\ row.commit = rows[j].commit
    BY <2>2 DEF Row
  <2>5. ~rows[j].begun /\ rows[j].commit = NoCommit
    BY <2>2 DEF Ready, RowsOK
  <2>6. jobs' \in Seq(Row) /\ DOMAIN jobs' = DOMAIN rows
    BY <2>2, <2>3, <2>4, ExceptSeq
  <2>7. jobs'[j] = row /\ \A k \in DOMAIN rows : k # j => jobs'[k] = rows[k]
    BY <2>2, <2>3
  <2>8. tail \in Seq(Entry) /\ DOMAIN tail = 1..(Len(queue) - 1)
        /\ \A i \in DOMAIN tail : tail[i] = queue[i + 1] /\ i + 1 \in DOMAIN queue
    BY <2>1
  <2>9. /\ r \in RunState /\ r.at = "look" /\ r.job = j /\ ~r.killed
        /\ \A i \in DOMAIN queue : i = 1 \/ \E k \in DOMAIN tail : queue[i] = tail[k]
    <3>1. r \in RunState /\ r.at = "look" /\ r.job = j /\ ~r.killed
      BY <2>1, <2>2 DEF RunState, Idle, Entry, JobStages
    <3>2. \A i \in DOMAIN queue : i # 1 => i - 1 \in DOMAIN tail /\ tail[i - 1] = queue[i]
      BY <2>1, <2>8
    <3>3. QED
      BY <3>1, <3>2
  <2> HIDE DEF j, row, tail, r
  <2>10. RowsOK(jobs')
    BY <2>4, <2>6, <2>7, <2>2 DEF Ready, RowsOK
  <2>11. /\ \A k \in DOMAIN rows : rows[k].begun => k < j
         /\ \A i \in DOMAIN tail : j < tail[i].job
    BY <2>1, <2>8 DEF Ready, QueueOK, j
  <2>12. QueueOK(jobs', tail)
    <3> SUFFICES ASSUME NEW i \in DOMAIN tail
                 PROVE  /\ tail[i].job \in DOMAIN jobs'
                        /\ jobs'[tail[i].job].status = "pending"
                        /\ \A k \in DOMAIN jobs' : jobs'[k].begun => k < tail[i].job
                        /\ \A k \in DOMAIN tail : i < k => tail[i].job < tail[k].job
      BY DEF QueueOK
    <3>1. tail[i].job \in DOMAIN rows /\ rows[tail[i].job].status = "pending"
          /\ \A k \in DOMAIN rows : rows[k].begun => k < tail[i].job
      BY <2>8 DEF Ready, QueueOK
    <3>2. j < tail[i].job
      BY <2>11
    <3>3. \A k \in DOMAIN tail : i < k => tail[i].job < tail[k].job
      <4> TAKE k \in DOMAIN tail
      <4>1. tail[k] = queue[k + 1] /\ tail[i] = queue[i + 1] /\ k + 1 \in DOMAIN queue
            /\ i + 1 \in DOMAIN queue /\ (i < k => i + 1 < k + 1)
        BY <2>8
      <4>2. QED
        BY <4>1 DEF Ready, QueueOK
    <3>4. QED
      BY <3>1, <3>2, <3>3, <2>2, <2>6, <2>7
  <2>13. RunOK(jobs', r)
    BY <2>2, <2>4, <2>6, <2>7, <2>9, <2>11 DEF RunOK, JobStages
  <2>14. JobOK(jobs', r, co, pts)
    BY <2>4, <2>5, <2>7, <2>9 DEF JobOK, StageOK, WriteOK
  <2>15. \A k : IsNewest(jobs', {j}, k) => IsNewest(rows, {}, k) /\ jobs'[k] = rows[k]
    BY <2>5, <2>6, <2>7 DEF IsNewest
  <2>16. DoneFor(jobs', Looking(r), pts, sh)
    BY <2>6, <2>9, <2>15 DEF DoneFor, Ready, Looking
  <2>17. OwedFor(jobs', tail, r, due)
    <3> SUFFICES ASSUME NEW b \in Branches, due[b] # 0, ~Pends(jobs', tail, b)
                 PROVE  \A k \in DOMAIN jobs' : IsNewest(jobs', {}, k) /\ jobs'[k].branch = b =>
                          Answers(jobs'[k], k # r.job, b, due[b])
      BY <2>9 DEF OwedFor
    <3>1. \A i \in DOMAIN tail : jobs'[tail[i].job].branch = rows[tail[i].job].branch
      BY <2>2, <2>4, <2>7, <2>8, <1>1
    <3>2. CASE row.branch = b
      <4>1. \A k \in DOMAIN jobs' : IsNewest(jobs', {}, k) /\ jobs'[k].branch = b => k = j
        <5> SUFFICES ASSUME NEW k \in DOMAIN jobs', IsNewest(jobs', {}, k), jobs'[k].branch = b, k # j
                     PROVE  FALSE
          OBVIOUS
        <5>1. rows[k].begun /\ k < j
          BY <2>6, <2>7, <2>11 DEF IsNewest
        <5>2. j \in DOMAIN jobs' /\ jobs'[j].begun /\ jobs'[j].branch = jobs'[k].branch
          BY <3>2, <2>2, <2>4, <2>6, <2>7
        <5>3. j <= k
          BY <5>2 DEF IsNewest
        <5>4. QED
          BY <5>1, <5>3, <2>2, <2>6
      <4>2. QED
        BY <4>1, <2>4, <2>5, <2>7 DEF Answers
    <3>3. CASE row.branch # b
      <4>1. ~Pends(rows, queue, b)
        BY <3>1, <3>3, <2>4, <2>9 DEF Pends, j
      <4>2. \A k \in DOMAIN rows : IsNewest(rows, {}, k) /\ rows[k].branch = b =>
              Answers(rows[k], k # Idle.job, b, due[b])
        BY <4>1 DEF Ready, OwedFor
      <4>3. \A k \in DOMAIN jobs' : IsNewest(jobs', {}, k) /\ jobs'[k].branch = b =>
              k # j /\ IsNewest(rows, {}, k) /\ jobs'[k] = rows[k]
        BY <3>3, <2>2, <2>4, <2>5, <2>6, <2>7 DEF IsNewest
      <4>4. QED
        BY <4>2, <4>3, <2>6, <2>9 DEF Answers, Idle
    <3>4. QED
      BY <3>2, <3>3
  <2>18. QED
    BY <2>3, <2>6, <2>8, <2>9, <2>10, <2>12, <2>13, <2>14, <2>16, <2>17 DEF Sound
<1>4. QED
  BY <1>2, <1>3

-----------------------------------------------------------------------------
(* A step of the job that runs.                                            *)

\* The job that runs has a row, a branch and a checkout.
LEMMA JobFacts ==
  ASSUME IndexInv, run.job # 0
  PROVE  /\ run.job \in DOMAIN jobs /\ jobs[run.job] \in Row /\ jobs[run.job].begun
         /\ jobs[run.job].status \notin {"pending", "deleted"}
         /\ \A k \in DOMAIN jobs : jobs[k].begun => k <= run.job
         /\ Branch \in Branches /\ Dir(Branch) \in {"own", "shared"} /\ Here \in Revisions
         /\ StageOK(jobs[run.job], run, Here) /\ WriteOK(run, Here, Held(points, Branch))
         /\ run.at \in JobStages
<1>1. run.job \in DOMAIN jobs /\ jobs[run.job].begun /\ run.at \in JobStages
      /\ \A k \in DOMAIN jobs : jobs[k].begun => k <= run.job
  BY DEF IndexInv, Sound, RunOK
<1>2. jobs[run.job] \in Row
  BY <1>1 DEF IndexInv, QueueTypeOK
<1>3. jobs[run.job].status \notin {"pending", "deleted"}
  BY <1>1 DEF IndexInv, Sound, RowsOK
<1>4. Branch \in Branches
  BY <1>2 DEF Row, Branch
<1>5. Dir(Branch) \in {"own", "shared"}
  BY DEF Dir
<1>6. Here \in Revisions
  BY <1>5 DEF Here, IndexInv, QueueTypeOK
<1>7. StageOK(jobs[run.job], run, Here) /\ WriteOK(run, Here, Held(points, Branch))
  BY DEF IndexInv, Sound, JobOK, Here, Branch
<1>8. QED
  BY <1>1, <1>2, <1>3, <1>4, <1>5, <1>6, <1>7

\* A new row for the job that runs leaves the others as they are.
LEMMA RowSet ==
  ASSUME IndexInv, run.job # 0, NEW row \in Row
  PROVE  /\ [jobs EXCEPT ![run.job] = row] \in Seq(Row)
         /\ DOMAIN [jobs EXCEPT ![run.job] = row] = DOMAIN jobs
         /\ [jobs EXCEPT ![run.job] = row][run.job] = row
         /\ \A k \in DOMAIN jobs : k # run.job => [jobs EXCEPT ![run.job] = row][k] = jobs[k]
         /\ [jobs EXCEPT ![run.job] = jobs[run.job]] = jobs
<1>1. run.job \in DOMAIN jobs
  BY JobFacts
<1>2. jobs \in Seq(Row)
  BY DEF IndexInv, QueueTypeOK
<1>3. QED
  BY <1>1, <1>2, ExceptSeq

\* The row may change its status and its results; the claims it then makes must be true, and an
\* answer that is owed must still be given.  Other branches keep their points or are short of some.
LEMMA RowStep ==
  ASSUME IndexInv, run.job # 0, NEW row \in Row, NEW rows, NEW r, NEW pts, NEW sh,
         rows = [jobs EXCEPT ![run.job] = row],
         row.branch = Branch, row.begun, row.status \notin {"pending", "deleted"},
         \A b \in Branches : b # Branch => b \in sh \/ (b \notin short /\ Held(pts, b) = Held(points, b)),
         Claims(row) /\ Branch \notin sh => Held(pts, Branch) = ChunksOf(row.commit),
         r.job \in {0, run.job},
         owed[Branch] # 0 /\ ~Pends(jobs, waiting, Branch) =>
           ~r.killed /\ Answers(row, run.job # r.job, Branch, owed[Branch])
  PROVE  /\ RowsOK(rows) /\ QueueOK(rows, waiting)
         /\ DoneFor(rows, {}, pts, sh) /\ OwedFor(rows, waiting, r, owed)
<1>1. /\ rows \in Seq(Row) /\ DOMAIN rows = DOMAIN jobs /\ rows[run.job] = row
      /\ \A k \in DOMAIN jobs : k # run.job => rows[k] = jobs[k]
  BY RowSet
<1>2. /\ run.job \in DOMAIN jobs /\ jobs[run.job].begun /\ row.branch = jobs[run.job].branch
      /\ jobs[run.job].status \notin {"pending", "deleted"}
      /\ \A k \in DOMAIN jobs : jobs[k].begun => k <= run.job
  BY JobFacts DEF Branch
<1>3. RowsOK(rows)
  BY <1>1 DEF IndexInv, Sound, RowsOK
<1>4. \A i \in DOMAIN waiting : /\ waiting[i].job \in DOMAIN jobs
                                /\ jobs[waiting[i].job].status = "pending" /\ waiting[i].job # run.job
  BY <1>2 DEF IndexInv, Sound, QueueOK
<1>5. QueueOK(rows, waiting)
  BY <1>1, <1>2, <1>4 DEF IndexInv, Sound, QueueOK
<1>6. \A b : Pends(rows, waiting, b) <=> Pends(jobs, waiting, b)
  BY <1>1, <1>4 DEF Pends
<1>7. \A k : IsNewest(rows, {}, k) <=> IsNewest(jobs, {}, k)
  BY <1>1, <1>2 DEF IsNewest
<1>8. \A k : IsNewest(jobs, {}, k) /\ k # run.job => jobs[k].branch # Branch
  <2> SUFFICES ASSUME NEW k, IsNewest(jobs, {}, k), k # run.job, jobs[k].branch = jobs[run.job].branch
               PROVE  FALSE
    BY DEF Branch
  <2>1. k \in DOMAIN jobs /\ jobs[k].begun /\ run.job <= k
    BY <1>2 DEF IsNewest
  <2>2. k <= run.job
    BY <2>1, <1>2
  <2>3. DOMAIN jobs \subseteq Int
    BY DEF IndexInv, QueueTypeOK
  <2>4. QED
    BY <1>2, <2>1, <2>2, <2>3
<1>9. DoneFor(rows, {}, pts, sh)
  <2> SUFFICES ASSUME NEW k \in DOMAIN rows, IsNewest(rows, {}, k), Claims(rows[k]), rows[k].branch \notin sh
               PROVE  Held(pts, rows[k].branch) = ChunksOf(rows[k].commit)
    BY DEF DoneFor
  <2>1. CASE k = run.job
    BY <2>1, <1>1
  <2>2. CASE k # run.job
    <3>1. rows[k] = jobs[k] /\ jobs[k].branch # Branch /\ k \in DOMAIN jobs /\ IsNewest(jobs, {}, k)
      BY <2>2, <1>1, <1>7, <1>8
    <3>2. jobs[k].branch \in Branches
      <4>1. jobs[k] \in Row
        BY <3>1 DEF IndexInv, QueueTypeOK
      <4>2. QED
        BY <4>1 DEF Row
    <3>3. IsNewest(jobs, Looking(run), k)
      BY <2>2, <3>1 DEF IsNewest, Looking
    <3>4. Held(points, jobs[k].branch) = ChunksOf(jobs[k].commit)
      BY <3>1, <3>2, <3>3 DEF IndexInv, Sound, DoneFor
    <3>5. QED
      BY <3>1, <3>2, <3>4
  <2>3. QED
    BY <2>1, <2>2
<1>10. OwedFor(rows, waiting, r, owed)
  <2> SUFFICES ASSUME NEW b \in Branches, owed[b] # 0, ~Pends(jobs, waiting, b)
               PROVE  /\ r.killed /\ r.job # 0 => rows[r.job].branch # b
                      /\ \A k \in DOMAIN rows : IsNewest(rows, {}, k) /\ rows[k].branch = b =>
                           Answers(rows[k], k # r.job, b, owed[b])
    BY <1>6 DEF OwedFor
  <2>1. r.killed /\ r.job # 0 => rows[r.job].branch # b
    BY <1>1, <1>2 DEF Branch
  <2>2. ASSUME NEW k \in DOMAIN rows, IsNewest(rows, {}, k), rows[k].branch = b
        PROVE  Answers(rows[k], k # r.job, b, owed[b])
    <3>1. CASE k = run.job
      BY <3>1, <2>2, <1>1
    <3>2. CASE k # run.job
      <4>1. rows[k] = jobs[k] /\ k \in DOMAIN jobs /\ IsNewest(jobs, {}, k)
        BY <3>2, <1>1, <1>7, <2>2
      <4>2. Answers(jobs[k], k # run.job, b, owed[b])
        BY <4>1, <2>2 DEF IndexInv, Sound, OwedFor
      <4>3. k # 0
        BY <4>1 DEF IndexInv, QueueTypeOK
      <4>4. QED
        BY <4>1, <4>2, <4>3, <3>2 DEF Answers
    <3>3. QED
      BY <3>1, <3>2
  <2>3. QED
    BY <2>1, <2>2
<1>11. QED
  BY <1>3, <1>5, <1>9, <1>10

\* The job goes on to a later stage.
LEMMA JobGoesOn ==
  ASSUME IndexInv, run.job # 0, NEW row \in Row,
         row.branch = Branch, row.begun, row.status \notin {"pending", "deleted"},
         jobs' = [jobs EXCEPT ![run.job] = row], waiting' = waiting,
         run' \in RunState, run'.job = run.job, run'.at \in JobStages \ {"look"},
         checkout' \in [{"own", "shared"} -> Revisions],
         UNCHANGED <<remote, owed>>, mishaps' \in Nat,
         points' \subseteq Branches \X Chunks, whole' \in [Branches -> Revisions], short' \subseteq Branches,
         NeverHalfEmpty',
         \A b \in Branches : b # Branch => b \in short' \/ (b \notin short /\ Held(points', b) = Held(points, b)),
         Claims(row) /\ Branch \notin short' => Held(points', Branch) = ChunksOf(row.commit),
         owed[Branch] # 0 /\ ~Pends(jobs, waiting, Branch) =>
           ~run'.killed /\ Answers(row, FALSE, Branch, owed[Branch]),
         StageOK(row, run', checkout'[Dir(Branch)]),
         WriteOK(run', checkout'[Dir(Branch)], Held(points', Branch))
  PROVE  IndexInv'
<1>1. /\ jobs' \in Seq(Row) /\ DOMAIN jobs' = DOMAIN jobs /\ jobs'[run.job] = row
      /\ \A k \in DOMAIN jobs : k # run.job => jobs'[k] = jobs[k]
  BY RowSet
<1>2. QueueTypeOK'
  BY <1>1 DEF IndexInv, QueueTypeOK
<1>3. /\ RowsOK(jobs') /\ QueueOK(jobs', waiting')
      /\ DoneFor(jobs', {}, points', short') /\ OwedFor(jobs', waiting', run', owed')
  <2>1. Answers(row, FALSE, Branch, owed[Branch]) => Answers(row, run.job # run'.job, Branch, owed[Branch])
    BY DEF Answers
  <2> DEFINE rows == jobs'
             r == run'
             pts == points'
             sh == short'
  <2>2. /\ rows = [jobs EXCEPT ![run.job] = row] /\ r.job \in {0, run.job}
        /\ \A b \in Branches : b # Branch => b \in sh \/ (b \notin short /\ Held(pts, b) = Held(points, b))
        /\ Claims(row) /\ Branch \notin sh => Held(pts, Branch) = ChunksOf(row.commit)
        /\ owed[Branch] # 0 /\ ~Pends(jobs, waiting, Branch) =>
             ~r.killed /\ Answers(row, run.job # r.job, Branch, owed[Branch])
    BY <2>1
  <2> HIDE DEF rows, r, pts, sh
  <2>3. /\ RowsOK(rows) /\ QueueOK(rows, waiting)
        /\ DoneFor(rows, {}, pts, sh) /\ OwedFor(rows, waiting, r, owed)
    BY <2>2, RowStep
  <2>4. QED
    BY <2>3 DEF rows, r, pts, sh
<1>4. Looking(run') = {}
  BY DEF Looking
<1>5. RunOK(jobs', run')
  BY <1>1, JobFacts DEF RunOK
<1>6. JobOK(jobs', run', checkout', points')
  BY <1>1 DEF JobOK
<1>7. Sound(jobs', waiting', run', checkout', owed', points', short')
  BY <1>3, <1>4, <1>5, <1>6 DEF Sound, JobStages
<1>8. RemoteOK'
  BY DEF IndexInv, RemoteOK
<1>9. QED
  BY <1>2, <1>7, <1>8 DEF IndexInv

\* The job is over, and the next one starts.
LEMMA JobCloses ==
  ASSUME IndexInv, run.job # 0, NEW row \in Row,
         row.branch = Branch, row.begun, row.status \notin {"pending", "deleted"},
         JobOver([jobs EXCEPT ![run.job] = row]),
         checkout' \in [{"own", "shared"} -> Revisions],
         UNCHANGED <<remote, owed>>, mishaps' \in Nat,
         points' \subseteq Branches \X Chunks, whole' \in [Branches -> Revisions], short' \subseteq Branches,
         NeverHalfEmpty',
         \A b \in Branches : b # Branch => b \in short' \/ (b \notin short /\ Held(points', b) = Held(points, b)),
         Claims(row) /\ Branch \notin short' => Held(points', Branch) = ChunksOf(row.commit),
         owed[Branch] # 0 /\ ~Pends(jobs, waiting, Branch) => Answers(row, TRUE, Branch, owed[Branch])
  PROVE  IndexInv'
<1> DEFINE rows == [jobs EXCEPT ![run.job] = row]
           co == checkout'
           pts == points'
           sh == short'
<1>1. rows \in Seq(Row)
  BY RowSet
<1>2. Ready(rows, waiting, owed, pts, sh)
  <2>1. Idle.job = 0 /\ ~Idle.killed /\ run.job # Idle.job
    BY DEF Idle
  <2>2. Answers(row, TRUE, Branch, owed[Branch]) => Answers(row, run.job # Idle.job, Branch, owed[Branch])
    BY <2>1 DEF Answers
  <2>3. /\ rows = [jobs EXCEPT ![run.job] = row] /\ Idle.job \in {0, run.job}
        /\ owed[Branch] # 0 /\ ~Pends(jobs, waiting, Branch) =>
             ~Idle.killed /\ Answers(row, run.job # Idle.job, Branch, owed[Branch])
        /\ \A b \in Branches : b # Branch => b \in sh \/ (b \notin short /\ Held(pts, b) = Held(points, b))
        /\ Claims(row) /\ Branch \notin sh => Held(pts, Branch) = ChunksOf(row.commit)
    BY <2>1, <2>2
  <2> HIDE DEF rows, pts, sh
  <2>4. /\ RowsOK(rows) /\ QueueOK(rows, waiting)
        /\ DoneFor(rows, {}, pts, sh) /\ OwedFor(rows, waiting, Idle, owed)
    BY <2>3, RowStep
  <2>5. QED
    BY <2>4 DEF Ready
<1>3. StartNext(rows, waiting) /\ waiting \in Seq(Entry)
  BY DEF JobOver, IndexInv, QueueTypeOK
<1> HIDE DEF rows, co, pts, sh
<1>4. /\ jobs' \in Seq(Row) /\ waiting' \in Seq(Entry) /\ run' \in RunState
      /\ Sound(jobs', waiting', run', co, owed, pts, sh)
  BY <1>1, <1>2, <1>3, StartNextKeeps
<1>5. QueueTypeOK'
  BY <1>4 DEF IndexInv, QueueTypeOK
<1>6. RemoteOK'
  BY DEF IndexInv, RemoteOK
<1>7. QED
  BY <1>4, <1>5, <1>6 DEF IndexInv, co, pts, sh

\* The same, when nothing happens to the vectors.
LEMMA JobEnds ==
  ASSUME IndexInv, run.job # 0, NEW row \in Row,
         row.branch = Branch, row.begun, row.status \notin {"pending", "deleted"},
         JobOver([jobs EXCEPT ![run.job] = row]),
         checkout' \in [{"own", "shared"} -> Revisions],
         UNCHANGED <<remote, owed, indexVars>>, mishaps' \in Nat,
         Claims(row) /\ Branch \notin short => Held(points, Branch) = ChunksOf(row.commit),
         owed[Branch] # 0 /\ ~Pends(jobs, waiting, Branch) => Answers(row, TRUE, Branch, owed[Branch])
  PROVE  IndexInv'
<1>1. /\ points' \subseteq Branches \X Chunks /\ whole' \in [Branches -> Revisions] /\ short' \subseteq Branches
      /\ points' = points /\ short' = short
  BY DEF IndexInv, QueueTypeOK, indexVars
<1>2. NeverHalfEmpty'
  BY DEF IndexInv, NeverHalfEmpty, Stored, indexVars
<1>3. /\ \A b \in Branches : b # Branch => b \in short' \/ (b \notin short /\ Held(points', b) = Held(points, b))
      /\ Claims(row) /\ Branch \notin short' => Held(points', Branch) = ChunksOf(row.commit)
  BY <1>1
<1>4. UNCHANGED <<remote, owed>>
  OBVIOUS
<1>5. QED
  BY <1>1, <1>2, <1>3, <1>4, JobCloses

\* What is owed to the branch of the job that runs, its row still answers for.
LEMMA OwedHere ==
  ASSUME IndexInv, run.job # 0, owed[Branch] # 0, ~Pends(jobs, waiting, Branch)
  PROVE  ~run.killed /\ Answers(jobs[run.job], FALSE, Branch, owed[Branch])
<1>1. /\ run.job \in DOMAIN jobs /\ jobs[run.job].begun /\ Branch \in Branches
      /\ \A k \in DOMAIN jobs : jobs[k].begun => k <= run.job
  BY JobFacts
<1>2. IsNewest(jobs, {}, run.job)
  BY <1>1 DEF IsNewest
<1>3. OwedFor(jobs, waiting, run, owed)
  BY DEF IndexInv, Sound
<1>4. /\ ~(run.killed /\ run.job # 0)
      /\ Answers(jobs[run.job], run.job # run.job, Branch, owed[Branch])
  BY <1>1, <1>2, <1>3 DEF OwedFor, Branch
<1>5. QED
  BY <1>4 DEF Answers

\* The count of mishaps stays a number.
LEMMA MishapType == ASSUME IndexInv, Mishap \/ NoMishap PROVE mishaps' \in Nat
BY DEF IndexInv, QueueTypeOK, Mishap, NoMishap

\* The job goes on and nothing happens to the vectors.
LEMMA JobWalks ==
  ASSUME IndexInv, run.job # 0, NEW row \in Row,
         row.branch = Branch, row.begun, row.status \notin {"pending", "deleted"},
         jobs' = [jobs EXCEPT ![run.job] = row], waiting' = waiting,
         run' \in RunState, run'.job = run.job, run'.at \in JobStages \ {"look"},
         checkout' \in [{"own", "shared"} -> Revisions],
         UNCHANGED <<remote, owed, indexVars>>, mishaps' \in Nat, ~Claims(row),
         owed[Branch] # 0 /\ ~Pends(jobs, waiting, Branch) =>
           ~run'.killed /\ Answers(row, FALSE, Branch, owed[Branch]),
         StageOK(row, run', checkout'[Dir(Branch)]),
         WriteOK(run', checkout'[Dir(Branch)], Held(points, Branch))
  PROVE  IndexInv'
<1>1. /\ points' \subseteq Branches \X Chunks /\ whole' \in [Branches -> Revisions] /\ short' \subseteq Branches
      /\ points' = points /\ short' = short
  BY DEF IndexInv, QueueTypeOK, indexVars
<1>2. NeverHalfEmpty'
  BY DEF IndexInv, NeverHalfEmpty, Stored, indexVars
<1>3. WriteOK(run', checkout'[Dir(Branch)], Held(points', Branch))
  BY <1>1
<1>4. \A b \in Branches : b # Branch => b \in short' \/ (b \notin short /\ Held(points', b) = Held(points, b))
  BY <1>1
<1>5. UNCHANGED <<remote, owed>>
  OBVIOUS
<1>6. QED
  BY <1>1, <1>2, <1>3, <1>4, <1>5, JobGoesOn

\* A checkout that is left alone keeps its type.
LEMMA SameCheckout == ASSUME IndexInv, UNCHANGED checkout PROVE checkout' \in [{"own", "shared"} -> Revisions]
BY DEF IndexInv, QueueTypeOK

\* What the remote is at and what is owed are numbers.
LEMMA OwedType == ASSUME IndexInv, NEW b \in Branches PROVE remote[b] \in Int /\ owed[b] \in Int
<1>1. remote[b] \in Commits \cup {0} /\ owed[b] \in Commits \cup {0}
  BY DEF IndexInv, QueueTypeOK
<1>2. \A c \in Commits \cup {0} : c \in Int
  BY TreeAssumption
<1>3. QED
  BY <1>1, <1>2, Zenon

-----------------------------------------------------------------------------
(* The steps of a job.                                                     *)

\* Look: the newest row of the branch before this one speaks for it, or the job goes to the checkout.
LEMMA LookKeeps == ASSUME IndexInv, Look PROVE IndexInv'
<1>1. run.at = "look" /\ UNCHANGED <<checkout, remote, owed, indexVars>> /\ mishaps' \in Nat
  BY MishapType DEF Look
<1>2. run.job # 0
  BY <1>1 DEF IndexInv, Sound, RunOK, JobStages
<1>3. /\ run.job \in DOMAIN jobs /\ jobs[run.job] \in Row /\ jobs[run.job].begun
      /\ jobs[run.job].status \notin {"pending", "deleted"} /\ Branch \in Branches
      /\ Here \in Revisions /\ jobs[run.job].commit = NoCommit
  BY <1>1, <1>2, JobFacts DEF StageOK
<1>4. owed[Branch] # 0 /\ ~Pends(jobs, waiting, Branch) =>
        ~run.killed /\ Answers(jobs[run.job], FALSE, Branch, owed[Branch])
  BY <1>2, OwedHere
<1>5. ASSUME NEW at \in {"fetch", "clone"}, GoOn([run EXCEPT !.at = at]) PROVE IndexInv'
  <2> DEFINE row == jobs[run.job]
  <2>1. jobs' = [jobs EXCEPT ![run.job] = row] /\ waiting' = waiting
    BY <1>2, <1>3, <1>5, RowSet DEF GoOn
  <2>2. run' \in RunState /\ run'.job = run.job /\ run'.at = at /\ run'.killed = run.killed
    BY <1>5 DEF GoOn, IndexInv, QueueTypeOK, RunState, JobStages
  <2>3. checkout' \in [{"own", "shared"} -> Revisions]
    BY <1>1 DEF IndexInv, QueueTypeOK
  <2>4. ~Claims(row) /\ row.branch = Branch
    BY <1>3 DEF Claims, ChunksOf, Branch
  <2>5. StageOK(row, run', checkout'[Dir(Branch)]) /\ WriteOK(run', checkout'[Dir(Branch)], Held(points, Branch))
    BY <1>3, <1>5, <2>2 DEF StageOK, WriteOK
  <2>6. run'.at \in JobStages \ {"look"} /\ UNCHANGED <<remote, owed, indexVars>>
    BY <1>1, <2>2 DEF JobStages
  <2> HIDE DEF row
  <2>7. QED
    BY <1>1, <1>2, <1>3, <1>4, <2>1, <2>2, <2>3, <2>4, <2>5, <2>6, JobWalks DEF row
<1>6. CASE ~run.force /\ IndexedAlready(run.job, Branch)
           /\ LET last == jobs[Newest(Begun(jobs, Branch) \ {run.job})]
              IN JobOver([jobs EXCEPT ![run.job].status = "done", ![run.job].commit = last.commit,
                                      ![run.job].mem9 = "done", ![run.job].docs = last.docs])
  <2> DEFINE n == Newest(Begun(jobs, Branch) \ {run.job})
             last == jobs[n]
             row == [jobs[run.job] EXCEPT !.status = "done", !.commit = last.commit,
                                          !.mem9 = "done", !.docs = last.docs]
  <2>1. /\ Begun(jobs, Branch) \ {run.job} # {} /\ last.status = "done" /\ last.mem9 = "done"
        /\ last.commit # NoCommit /\ last.commit = Head1(Branch)
    BY <1>6 DEF IndexedAlready
  <2>2. IsNewest(jobs, {run.job}, n) /\ last.branch = Branch
    <3> DEFINE S == Begun(jobs, Branch) \ {run.job}
    <3>1. S = Begun(jobs, Branch) \ {run.job} /\ S # {}
      BY <2>1
    <3> HIDE DEF S
    <3>2. IsNewest(jobs, {run.job}, Newest(S)) /\ jobs[Newest(S)].branch = Branch
      BY <3>1, NewestBegun
    <3>3. QED
      BY <3>2 DEF S
  <2>3. n \in DOMAIN jobs /\ last \in Row
    BY <2>2 DEF IsNewest, IndexInv, QueueTypeOK
  <2>4. JobOver([jobs EXCEPT ![run.job] = row])
    <3>1. [jobs EXCEPT ![run.job].status = "done", ![run.job].commit = last.commit,
                       ![run.job].mem9 = "done", ![run.job].docs = last.docs] = [jobs EXCEPT ![run.job] = row]
      BY <1>3
    <3>2. QED
      BY <3>1, <1>6
  <2>5. DoneFor(jobs, {run.job}, points, short)
    BY <1>1 DEF IndexInv, Sound, Looking
  <2> HIDE DEF n
  <2>6. ChunksOf(last.commit) # {} /\ Branch \notin short => Held(points, Branch) = ChunksOf(last.commit)
    BY <2>1, <2>2, <2>3, <2>5 DEF DoneFor, Claims
  <2> HIDE DEF last
  <2>7. /\ row \in Row /\ row.branch = Branch /\ row.begun /\ row.status \notin {"pending", "deleted"}
        /\ row.commit = last.commit /\ (Claims(row) => ChunksOf(last.commit) # {})
    BY <1>3, <2>3 DEF Row, Branch, Claims
  <2>8. owed[Branch] # 0 => Answers(row, TRUE, Branch, owed[Branch])
    <3>1. remote[Branch] # 0 => last.commit = <<Branch, remote[Branch]>>
      BY <2>1 DEF Head1
    <3>2. remote[Branch] = 0 => last.commit = NoCommit
      BY <2>1 DEF Head1
    <3>3. remote[Branch] # 0 => owed[Branch] <= remote[Branch]
      BY <1>3 DEF IndexInv, RemoteOK
    <3>4. remote[Branch] \in Int /\ owed[Branch] \in Int
      BY <1>3, OwedType
    <3>5. QED
      BY <2>7, <3>1, <3>2, <3>3, <3>4 DEF Answers
  <2> HIDE DEF row
  <2>9. QED
    BY <1>1, <1>2, <2>4, <2>6, <2>7, <2>8, SameCheckout, JobEnds
<1>7. QED
  BY <1>5, <1>6 DEF Look

\* The branch is checked out: its commit is the remote's, unless git could not tell or was killed.
LEMMA CheckedOutKeeps ==
  ASSUME IndexInv, run.job # 0, run.at \in {"fetch", "clone"}, NEW c \in Revisions, NEW said \in BOOLEAN,
         CheckedOut(c, said), said => run.killed \/ c = Head1(Branch),
         UNCHANGED <<remote, owed, indexVars>>, mishaps' \in Nat
  PROVE  IndexInv'
<1> DEFINE row == [jobs[run.job] EXCEPT !.status = "analyzing", !.commit = IF said THEN c ELSE @]
<1>1. /\ run.job \in DOMAIN jobs /\ jobs[run.job] \in Row /\ jobs[run.job].begun
      /\ Branch \in Branches /\ jobs[run.job].commit = NoCommit /\ Dir(Branch) \in {"own", "shared"}
  BY JobFacts DEF StageOK
<1>2. jobs' = [jobs EXCEPT ![run.job] = row] /\ waiting' = waiting
  BY <1>1 DEF CheckedOut
<1>3. /\ row \in Row /\ row.branch = Branch /\ row.begun /\ row.status = "analyzing"
      /\ row.commit = IF said THEN c ELSE NoCommit
  BY <1>1 DEF Row, Branch
<1>4. run' \in RunState /\ run'.job = run.job /\ run'.at = "analyze" /\ ~run'.killed
  BY DEF CheckedOut, IndexInv, QueueTypeOK, RunState, JobStages
<1>5. checkout' \in [{"own", "shared"} -> Revisions] /\ checkout'[Dir(Branch)] = c
  BY <1>1 DEF CheckedOut, IndexInv, QueueTypeOK
<1>6. owed[Branch] # 0 /\ ~Pends(jobs, waiting, Branch) => Answers(row, FALSE, Branch, owed[Branch])
  <2> SUFFICES ASSUME owed[Branch] # 0, ~Pends(jobs, waiting, Branch), said
               PROVE  Answers(row, FALSE, Branch, owed[Branch])
    BY <1>3 DEF Answers
  <2>1. row.commit = Head1(Branch)
    BY <1>3, OwedHere
  <2>2. remote[Branch] # 0 => owed[Branch] <= remote[Branch]
    BY <1>1 DEF IndexInv, RemoteOK
  <2>3. remote[Branch] \in Int /\ owed[Branch] \in Int
    BY <1>1, OwedType
  <2> HIDE DEF row
  <2>4. QED
    BY <2>1, <2>2, <2>3 DEF Answers, Head1
<1>7. ~Claims(row) /\ StageOK(row, run', checkout'[Dir(Branch)])
      /\ WriteOK(run', checkout'[Dir(Branch)], Held(points, Branch))
  BY <1>3, <1>4, <1>5 DEF Claims, StageOK, WriteOK
<1>8. run'.at \in JobStages \ {"look"} /\ row.status \notin {"pending", "deleted"}
  BY <1>3, <1>4 DEF JobStages
<1> HIDE DEF row
<1>9. QED
  BY <1>2, <1>3, <1>4, <1>5, <1>6, <1>7, <1>8, JobWalks

\* What the checkout of a branch may become is a commit, or nothing.
LEMMA HeadType == ASSUME IndexInv, NEW b \in Branches PROVE Head1(b) \in Revisions
<1>1. remote[b] \in Commits \cup {0}
  BY DEF IndexInv, QueueTypeOK
<1>2. QED
  BY <1>1 DEF Head1, Revisions

\* Fetch: the checkout follows the remote, one that is killed stops on the way, a broken
\* one is cloned, or the job ends in error.
LEMMA FetchKeeps == ASSUME IndexInv, Fetch PROVE IndexInv'
<1>1. run.at = "fetch" /\ UNCHANGED <<remote, owed, indexVars>>
  BY DEF Fetch
<1>2. mishaps' \in Nat
  BY MishapType DEF Fetch
<1>3. run.job # 0
  BY <1>1 DEF IndexInv, Sound, RunOK, JobStages
<1>4. /\ run.job \in DOMAIN jobs /\ jobs[run.job] \in Row /\ jobs[run.job].begun
      /\ jobs[run.job].status \notin {"pending", "deleted"} /\ Branch \in Branches
      /\ Here \in Revisions /\ jobs[run.job].commit = NoCommit
  BY <1>1, <1>3, JobFacts DEF StageOK
<1>5. Head1(Branch) \in Revisions
  BY <1>4, HeadType
<1>6. CASE ~run.killed /\ \E said \in BOOLEAN : CheckedOut(Head1(Branch), said)
  BY <1>1, <1>2, <1>3, <1>5, <1>6, CheckedOutKeeps
<1>7. Reached \subseteq Revisions
  BY <1>4, <1>5 DEF Reached
<1>8. CASE run.killed /\ \E c \in Reached : CheckedOut(c, TRUE)
  BY <1>1, <1>2, <1>3, <1>7, <1>8, CheckedOutKeeps
<1>9. ASSUME NEW c \in Reached, checkout' = [checkout EXCEPT ![Dir(Branch)] = c],
             JobOver([jobs EXCEPT ![run.job].status = "error"])
      PROVE  IndexInv'
  <2> DEFINE row == [jobs[run.job] EXCEPT !.status = "error"]
  <2>1. JobOver([jobs EXCEPT ![run.job] = row])
    <3>1. [jobs EXCEPT ![run.job].status = "error"] = [jobs EXCEPT ![run.job] = row]
      BY <1>4
    <3>2. QED
      BY <3>1, <1>9
  <2>2. row \in Row /\ row.branch = Branch /\ row.begun /\ row.status = "error"
    BY <1>4 DEF Row, Branch
  <2>3. ~Claims(row) /\ Answers(row, TRUE, Branch, owed[Branch])
    BY <2>2 DEF Claims, Answers
  <2>4. checkout' \in [{"own", "shared"} -> Revisions]
    BY <1>7, <1>9 DEF IndexInv, QueueTypeOK
  <2> HIDE DEF row
  <2>5. QED
    BY <1>1, <1>2, <1>3, <2>1, <2>2, <2>3, <2>4, JobEnds
<1>10. CASE checkout' = [checkout EXCEPT ![Dir(Branch)] = NoCommit]
           /\ GoOn([run EXCEPT !.at = "clone", !.killed = FALSE])
  <2> DEFINE row == jobs[run.job]
  <2>1. jobs' = [jobs EXCEPT ![run.job] = row] /\ waiting' = waiting
    BY <1>3, <1>4, <1>10, RowSet DEF GoOn
  <2>2. run' \in RunState /\ run'.job = run.job /\ run'.at = "clone" /\ ~run'.killed
    BY <1>10 DEF GoOn, IndexInv, QueueTypeOK, RunState, JobStages
  <2>3. checkout' \in [{"own", "shared"} -> Revisions]
    BY <1>10 DEF IndexInv, QueueTypeOK, Revisions
  <2>4. ~Claims(row) /\ row.branch = Branch
    BY <1>4 DEF Claims, ChunksOf, Branch
  <2>5. StageOK(row, run', checkout'[Dir(Branch)]) /\ WriteOK(run', checkout'[Dir(Branch)], Held(points, Branch))
    BY <1>4, <2>2 DEF StageOK, WriteOK
  <2>6. run'.at \in JobStages \ {"look"} /\ Answers(row, FALSE, Branch, owed[Branch])
    BY <1>4, <2>2 DEF JobStages, Answers
  <2> HIDE DEF row
  <2>7. QED
    BY <1>1, <1>2, <1>3, <1>4, <2>1, <2>2, <2>3, <2>4, <2>5, <2>6, JobWalks DEF row
<1>11. QED
  BY <1>6, <1>8, <1>9, <1>10 DEF Fetch

\* Clone: the same in an empty directory, or the job ends in error.
LEMMA CloneKeeps == ASSUME IndexInv, Clone PROVE IndexInv'
<1>1. run.at = "clone" /\ UNCHANGED <<remote, owed, indexVars>>
  BY DEF Clone
<1>2. mishaps' \in Nat
  BY MishapType DEF Clone
<1>3. run.job # 0
  BY <1>1 DEF IndexInv, Sound, RunOK, JobStages
<1>4. /\ run.job \in DOMAIN jobs /\ jobs[run.job] \in Row /\ jobs[run.job].begun /\ Branch \in Branches
      /\ jobs[run.job].commit = NoCommit
  BY <1>1, <1>3, JobFacts DEF StageOK
<1>5. Head1(Branch) \in Revisions /\ NoCommit \in Revisions
  BY <1>4, HeadType DEF Revisions
<1>6. CASE ~run.killed /\ CheckedOut(Head1(Branch), TRUE)
  BY <1>1, <1>2, <1>3, <1>5, <1>6, CheckedOutKeeps
<1>7. CASE run.killed /\ CheckedOut(NoCommit, FALSE)
  BY <1>1, <1>2, <1>3, <1>5, <1>7, CheckedOutKeeps
<1>8. CASE JobOver([jobs EXCEPT ![run.job].status = "error"]) /\ UNCHANGED checkout
  <2> DEFINE row == [jobs[run.job] EXCEPT !.status = "error"]
  <2>1. JobOver([jobs EXCEPT ![run.job] = row])
    <3>1. [jobs EXCEPT ![run.job].status = "error"] = [jobs EXCEPT ![run.job] = row]
      BY <1>4
    <3>2. QED
      BY <3>1, <1>8
  <2>2. row \in Row /\ row.branch = Branch /\ row.begun /\ row.status = "error"
    BY <1>4 DEF Row, Branch
  <2>3. ~Claims(row) /\ Answers(row, TRUE, Branch, owed[Branch])
    BY <2>2 DEF Claims, Answers
  <2> HIDE DEF row
  <2>4. QED
    BY <1>1, <1>2, <1>3, <1>8, <2>1, <2>2, <2>3, SameCheckout, JobEnds
<1>9. QED
  BY <1>6, <1>7, <1>8 DEF Clone

\* Analyze: the job is done, its embedding begins.
LEMMA AnalyzeKeeps == ASSUME IndexInv, Analyze PROVE IndexInv'
<1> DEFINE row == [jobs[run.job] EXCEPT !.status = "done", !.mem9 = "embedding"]
<1>1. run.at = "analyze" /\ UNCHANGED <<remote, owed, indexVars>> /\ UNCHANGED <<waiting, checkout>>
  BY DEF Analyze
<1>2. run.job # 0
  BY <1>1 DEF IndexInv, Sound, RunOK, JobStages
<1>3. /\ run.job \in DOMAIN jobs /\ jobs[run.job] \in Row /\ jobs[run.job].begun
      /\ (jobs[run.job].commit = NoCommit \/ jobs[run.job].commit = Here)
  BY <1>1, <1>2, JobFacts DEF StageOK
<1>4. jobs' = [jobs EXCEPT ![run.job] = row]
  BY <1>3 DEF Analyze
<1>5. /\ row \in Row /\ row.branch = Branch /\ row.begun /\ row.status = "done" /\ row.mem9 = "embedding"
      /\ row.commit = jobs[run.job].commit
  BY <1>3 DEF Row, Branch
<1>6. run' \in RunState /\ run'.job = run.job /\ run'.at = "open" /\ ~run'.killed
  BY DEF Analyze, IndexInv, QueueTypeOK, RunState, JobStages
<1>7. checkout' \in [{"own", "shared"} -> Revisions] /\ mishaps' \in Nat /\ checkout'[Dir(Branch)] = Here
  BY <1>1 DEF IndexInv, QueueTypeOK, Here, Analyze
<1>8. owed[Branch] # 0 /\ ~Pends(jobs, waiting, Branch) => Answers(row, FALSE, Branch, owed[Branch])
  BY <1>2, <1>5, OwedHere DEF Answers
<1>9. ~Claims(row) /\ StageOK(row, run', checkout'[Dir(Branch)])
      /\ WriteOK(run', checkout'[Dir(Branch)], Held(points, Branch))
  BY <1>3, <1>5, <1>6, <1>7 DEF Claims, StageOK, WriteOK
<1>10. run'.at \in JobStages \ {"look"} /\ row.status \notin {"pending", "deleted"}
  BY <1>5, <1>6 DEF JobStages
<1> HIDE DEF row
<1>11. QED
  BY <1>1, <1>2, <1>4, <1>5, <1>6, <1>7, <1>8, <1>9, <1>10, JobWalks

\* The chunks of a commit, and those that are stored, are chunks.
LEMMA ChunksType == ASSUME NEW c \in Revisions PROVE ChunksOf(c) \subseteq Chunks
BY TreeAssumption DEF ChunksOf, Revisions

\* The embedding is over, with every chunk stored when it says that it is done, and the docs begin.
LEMMA EmbeddedKeeps ==
  ASSUME IndexInv, run.job # 0, run.at \in {"open", "list", "write"}, NEW status \in {"done", "error"},
         Embedded(status), UNCHANGED <<checkout, remote, owed>>, mishaps' \in Nat,
         points' \subseteq Branches \X Chunks, whole' \in [Branches -> Revisions], short' \subseteq Branches,
         NeverHalfEmpty',
         \A b \in Branches : b # Branch => b \in short' \/ (b \notin short /\ Held(points', b) = Held(points, b)),
         status = "done" => ChunksOf(Here) = {} \/ Branch \in short' \/ Held(points', Branch) = ChunksOf(Here)
  PROVE  IndexInv'
<1> DEFINE row == [jobs[run.job] EXCEPT !.mem9 = status, !.docs = "building"]
<1>1. /\ run.job \in DOMAIN jobs /\ jobs[run.job] \in Row /\ jobs[run.job].begun
      /\ jobs[run.job].status \notin {"pending", "deleted"}
      /\ (jobs[run.job].commit = NoCommit \/ jobs[run.job].commit = Here)
  BY JobFacts DEF StageOK
<1>2. jobs' = [jobs EXCEPT ![run.job] = row] /\ waiting' = waiting
  BY <1>1 DEF Embedded
<1>3. /\ row \in Row /\ row.branch = Branch /\ row.begun /\ row.status \notin {"pending", "deleted"}
      /\ row.mem9 = status /\ row.commit = jobs[run.job].commit
  BY <1>1 DEF Row, Branch
<1>4. run' \in RunState /\ run'.job = run.job /\ run'.at = "docs" /\ ~run'.killed
  BY DEF Embedded, Idle, IndexInv, QueueTypeOK, RunState, JobStages
<1>5. checkout' \in [{"own", "shared"} -> Revisions] /\ UNCHANGED <<remote, owed>>
  BY DEF IndexInv, QueueTypeOK
<1>6. owed[Branch] # 0 /\ ~Pends(jobs, waiting, Branch) => Answers(row, FALSE, Branch, owed[Branch])
  BY <1>3, OwedHere DEF Answers
<1>7. StageOK(row, run', checkout'[Dir(Branch)])
      /\ WriteOK(run', checkout'[Dir(Branch)], Held(points', Branch))
  BY <1>4 DEF StageOK, WriteOK
<1>8. run'.at \in JobStages \ {"look"}
  BY <1>4 DEF JobStages
<1>9. Claims(row) /\ Branch \notin short' => Held(points', Branch) = ChunksOf(row.commit)
  <2>1. ChunksOf(NoCommit) = {}
    BY DEF ChunksOf
  <2> HIDE DEF row
  <2>2. QED
    BY <1>1, <1>3, <2>1 DEF Claims
<1> HIDE DEF row
<1>10. QED
  BY <1>2, <1>3, <1>4, <1>5, <1>6, <1>7, <1>8, <1>9, JobGoesOn

\* Nothing happened to the vectors.
LEMMA SameVectors ==
  ASSUME IndexInv, UNCHANGED indexVars
  PROVE  /\ points' \subseteq Branches \X Chunks /\ whole' \in [Branches -> Revisions]
         /\ short' \subseteq Branches /\ NeverHalfEmpty'
         /\ \A b \in Branches : b \in short' \/ (b \notin short /\ Held(points', b) = Held(points, b))
BY DEF IndexInv, QueueTypeOK, NeverHalfEmpty, Stored, indexVars

\* A collection that is deleted: no branch holds anything then, and those that did are short, unless
\* they were counted and had nothing.
LEMMA CollectionEmptied ==
  ASSUME IndexInv, run.job # 0, NEW counted \in BOOLEAN, Rebuilds(Branch, counted), Emptied(Branch, counted)
  PROVE  /\ points' \subseteq Branches \X Chunks /\ whole' \in [Branches -> Revisions]
         /\ short' \subseteq Branches /\ NeverHalfEmpty'
         /\ \A b \in Branches : b # Branch => b \in short' \/ (b \notin short /\ Held(points', b) = Held(points, b))
<1>1. /\ points' = {} /\ whole' = [x \in Branches |-> NoCommit]
      /\ short' = IF counted THEN short ELSE {x \in Branches : x # Branch /\ Stored(x) # {}} \cup short
  BY DEF Emptied
<1>2. \A b \in Branches : Held(points', b) = {}
  BY <1>1 DEF Held
<1>3. NeverHalfEmpty'
  BY <1>1 DEF NeverHalfEmpty, ChunksOf
<1>4. ASSUME NEW b \in Branches, b # Branch, b \notin short'
      PROVE  b \notin short /\ Held(points, b) = {}
  <2>1. CASE counted
    BY <1>1, <1>4, <2>1 DEF Rebuilds, MayRebuild, OfOthers, Held
  <2>2. CASE ~counted
    BY <1>1, <1>4, <2>2 DEF Stored, Held
  <2>3. QED
    BY <2>1, <2>2
<1>5. points' \subseteq Branches \X Chunks /\ whole' \in [Branches -> Revisions] /\ short' \subseteq Branches
  BY <1>1 DEF IndexInv, QueueTypeOK, Revisions
<1>6. QED
  BY <1>2, <1>3, <1>4, <1>5

\* The collection is there in the end: as it was, or built again.
LEMMA CollectionOpens ==
  ASSUME IndexInv, run.job # 0, NEW counted \in BOOLEAN, OpenCollection(Branch, counted)
  PROVE  /\ points' \subseteq Branches \X Chunks /\ whole' \in [Branches -> Revisions]
         /\ short' \subseteq Branches /\ NeverHalfEmpty'
         /\ \A b \in Branches : b # Branch => b \in short' \/ (b \notin short /\ Held(points', b) = Held(points, b))
<1>1. CASE Rebuilds(Branch, counted)
  BY <1>1, CollectionEmptied DEF OpenCollection
<1>2. CASE ~Rebuilds(Branch, counted)
  BY <1>2 DEF OpenCollection, IndexInv, QueueTypeOK, NeverHalfEmpty, Stored
<1>3. QED
  BY <1>1, <1>2

\* Open: without files there is nothing to embed; without a model the embedding, and without a
\* collection the job, ends in error.
LEMMA OpenKeeps == ASSUME IndexInv, Open PROVE IndexInv'
<1>1. run.at = "open" /\ UNCHANGED <<checkout, remote, owed>>
  BY DEF Open
<1>2. mishaps' \in Nat
  BY MishapType DEF Open
<1>3. run.job # 0
  BY <1>1 DEF IndexInv, Sound, RunOK, JobStages
<1>4. /\ run.job \in DOMAIN jobs /\ jobs[run.job] \in Row /\ jobs[run.job].begun
      /\ jobs[run.job].status \notin {"pending", "deleted"} /\ Branch \in Branches
      /\ jobs[run.job].mem9 = "embedding"
      /\ (jobs[run.job].commit = NoCommit \/ jobs[run.job].commit = Here)
  BY <1>1, <1>3, JobFacts DEF StageOK
<1>5. CASE UNCHANGED indexVars /\ ((~HasSources /\ Embedded("done")) \/ Embedded("error"))
  BY <1>1, <1>2, <1>3, <1>5, SameVectors, EmbeddedKeeps DEF HasSources
<1>6. ASSUME JobOver([jobs EXCEPT ![run.job].mem9 = "error"]),
             UNCHANGED indexVars \/ \E counted \in BOOLEAN : LoseCollection(Branch, counted)
      PROVE  IndexInv'
  <2> DEFINE row == [jobs[run.job] EXCEPT !.mem9 = "error"]
  <2>1. JobOver([jobs EXCEPT ![run.job] = row])
    <3>1. [jobs EXCEPT ![run.job].mem9 = "error"] = [jobs EXCEPT ![run.job] = row]
      BY <1>4
    <3>2. QED
      BY <3>1, <1>6
  <2>2. /\ row \in Row /\ row.branch = Branch /\ row.begun /\ row.status \notin {"pending", "deleted"}
        /\ row.mem9 = "error" /\ row.commit = jobs[run.job].commit
    BY <1>4 DEF Row, Branch
  <2>3. ~Claims(row)
        /\ (owed[Branch] # 0 /\ ~Pends(jobs, waiting, Branch) => Answers(row, TRUE, Branch, owed[Branch]))
    BY <1>3, <2>2, OwedHere DEF Claims, Answers
  <2>4. checkout' \in [{"own", "shared"} -> Revisions]
    BY <1>1, SameCheckout
  <2> HIDE DEF row
  <2>5. /\ points' \subseteq Branches \X Chunks /\ whole' \in [Branches -> Revisions]
        /\ short' \subseteq Branches /\ NeverHalfEmpty'
        /\ \A b \in Branches : b # Branch => b \in short' \/ (b \notin short /\ Held(points', b) = Held(points, b))
    BY <1>3, <1>6, SameVectors, CollectionEmptied DEF LoseCollection
  <2>6. QED
    BY <1>1, <1>2, <1>3, <2>1, <2>2, <2>3, <2>4, <2>5, JobCloses
<1>7. ASSUME NEW counted \in BOOLEAN, OpenCollection(Branch, counted), GoOn([run EXCEPT !.at = "list"])
      PROVE  IndexInv'
  <2> DEFINE row == jobs[run.job]
  <2>1. /\ points' \subseteq Branches \X Chunks /\ whole' \in [Branches -> Revisions]
        /\ short' \subseteq Branches /\ NeverHalfEmpty'
        /\ \A b \in Branches : b # Branch => b \in short' \/ (b \notin short /\ Held(points', b) = Held(points, b))
    BY <1>3, <1>7, CollectionOpens
  <2>2. jobs' = [jobs EXCEPT ![run.job] = row] /\ waiting' = waiting
    BY <1>3, <1>4, <1>7, RowSet DEF GoOn
  <2>3. run' \in RunState /\ run'.job = run.job /\ run'.at = "list" /\ run'.killed = run.killed
    BY <1>7 DEF GoOn, IndexInv, QueueTypeOK, RunState, JobStages
  <2>4. checkout' \in [{"own", "shared"} -> Revisions] /\ checkout'[Dir(Branch)] = Here
    BY <1>1 DEF IndexInv, QueueTypeOK, Here
  <2>5. row \in Row /\ row.branch = Branch /\ row.begun /\ row.status \notin {"pending", "deleted"} /\ ~Claims(row)
    BY <1>4 DEF Branch, Claims
  <2>6. StageOK(row, run', checkout'[Dir(Branch)]) /\ WriteOK(run', checkout'[Dir(Branch)], Held(points', Branch))
    BY <1>4, <2>3, <2>4 DEF StageOK, WriteOK
  <2>7. run'.at \in JobStages \ {"look"} /\ UNCHANGED <<remote, owed>>
    BY <1>1, <2>3 DEF JobStages
  <2>8. owed[Branch] # 0 /\ ~Pends(jobs, waiting, Branch) => ~run'.killed /\ Answers(row, FALSE, Branch, owed[Branch])
    BY <1>3, <2>3, OwedHere
  <2> HIDE DEF row
  <2>9. QED
    BY <1>2, <1>3, <2>1, <2>2, <2>3, <2>4, <2>5, <2>6, <2>7, <2>8, JobGoesOn
<1>8. QED
  BY <1>5, <1>6, <1>7 DEF Open

\* List: what is not stored is to be written, what the tree no longer has is stale.
LEMMA ListKeeps == ASSUME IndexInv, List PROVE IndexInv'
<1>1. run.at = "list" /\ UNCHANGED <<checkout, remote, owed, indexVars>>
  BY DEF List
<1>2. mishaps' \in Nat
  BY MishapType DEF List
<1>3. run.job # 0
  BY <1>1 DEF IndexInv, Sound, RunOK, JobStages
<1>4. /\ run.job \in DOMAIN jobs /\ jobs[run.job] \in Row /\ jobs[run.job].begun
      /\ jobs[run.job].status \notin {"pending", "deleted"} /\ Branch \in Branches
      /\ Here \in Revisions /\ jobs[run.job].mem9 = "embedding"
      /\ (jobs[run.job].commit = NoCommit \/ jobs[run.job].commit = Here)
  BY <1>1, <1>3, JobFacts DEF StageOK
<1>5. CASE Embedded("error")
  BY <1>1, <1>2, <1>3, <1>5, SameVectors, EmbeddedKeeps
<1>6. CASE GoOn([run EXCEPT !.at = "write", !.todo = ChunksOf(Here) \ Stored(Branch),
                            !.stale = Stored(Branch) \ ChunksOf(Here)])
  <2> DEFINE row == jobs[run.job]
  <2>1. ChunksOf(Here) \subseteq Chunks /\ Stored(Branch) = Held(points, Branch) /\ Stored(Branch) \subseteq Chunks
    BY <1>4, ChunksType DEF Stored, Held
  <2>2. jobs' = [jobs EXCEPT ![run.job] = row] /\ waiting' = waiting
    BY <1>3, <1>4, <1>6, RowSet DEF GoOn
  <2>3. /\ run' \in RunState /\ run'.job = run.job /\ run'.at = "write" /\ run'.killed = run.killed
        /\ run'.todo = ChunksOf(Here) \ Stored(Branch) /\ run'.stale = Stored(Branch) \ ChunksOf(Here)
    BY <1>6, <2>1 DEF GoOn, IndexInv, QueueTypeOK, RunState, JobStages
  <2>4. checkout' \in [{"own", "shared"} -> Revisions] /\ checkout'[Dir(Branch)] = Here
    BY <1>1 DEF IndexInv, QueueTypeOK, Here
  <2>5. row.branch = Branch /\ ~Claims(row)
    BY <1>4 DEF Branch, Claims
  <2>6. StageOK(row, run', checkout'[Dir(Branch)]) /\ WriteOK(run', checkout'[Dir(Branch)], Held(points, Branch))
    BY <1>4, <2>1, <2>3, <2>4 DEF StageOK, WriteOK
  <2>7. run'.at \in JobStages \ {"look"} /\ UNCHANGED <<remote, owed, indexVars>>
    BY <1>1, <2>3 DEF JobStages
  <2>8. owed[Branch] # 0 /\ ~Pends(jobs, waiting, Branch) => ~run'.killed /\ Answers(row, FALSE, Branch, owed[Branch])
    BY <1>3, <2>3, OwedHere
  <2> HIDE DEF row
  <2>9. QED
    BY <1>2, <1>3, <1>4, <2>2, <2>3, <2>4, <2>5, <2>6, <2>7, <2>8, JobWalks DEF row
<1>7. QED
  BY <1>5, <1>6 DEF List

\* Write: one chunk is stored, or only counted as failed.
LEMMA WriteKeeps == ASSUME IndexInv, Write PROVE IndexInv'
<1> DEFINE t == CHOOSE x \in run.todo : TRUE
           row == jobs[run.job]
           rest == [run EXCEPT !.todo = @ \ {t}]
<1>1. run.at = "write" /\ run.todo # {} /\ UNCHANGED <<checkout, remote, owed>>
  BY DEF Write
<1>2. mishaps' \in Nat
  BY MishapType DEF Write
<1>3. run.job # 0
  BY <1>1 DEF IndexInv, Sound, RunOK, JobStages
<1>4. /\ run.job \in DOMAIN jobs /\ row \in Row /\ row.begun
      /\ row.status \notin {"pending", "deleted"} /\ Branch \in Branches /\ row.mem9 = "embedding"
      /\ (row.commit = NoCommit \/ row.commit = Here) /\ Here \in Revisions
  BY <1>1, <1>3, JobFacts DEF StageOK
<1>5. WriteOK(run, Here, Held(points, Branch))
  BY <1>3, JobFacts
<1>6. t \in run.todo /\ t \in Chunks
  <2>1. run.todo \subseteq Chunks
    BY DEF IndexInv, QueueTypeOK, RunState
  <2>2. QED
    BY <1>1, <2>1
<1> HIDE DEF t
<1>7. row.branch = Branch /\ ~Claims(row)
  BY <1>4 DEF Branch, Claims
<1>8. checkout' \in [{"own", "shared"} -> Revisions] /\ checkout'[Dir(Branch)] = Here
  BY <1>1 DEF IndexInv, QueueTypeOK, Here
<1>9. CASE WriteChunk(Branch, t) /\ GoOn([rest EXCEPT !.wrote = TRUE])
  <2>1. points' = points \cup {<<Branch, t>>} /\ whole' = whole /\ short' = short
    BY <1>9 DEF WriteChunk
  <2>2. Held(points', Branch) = Held(points, Branch) \cup {t}
        /\ \A b \in Branches : b # Branch => Held(points', b) = Held(points, b)
    BY <1>6, <2>1 DEF Held
  <2>3. points' \subseteq Branches \X Chunks /\ whole' \in [Branches -> Revisions] /\ short' \subseteq Branches
    BY <1>4, <1>6, <2>1 DEF IndexInv, QueueTypeOK
  <2>4. NeverHalfEmpty'
    BY <2>1 DEF IndexInv, NeverHalfEmpty, Stored
  <2>5. jobs' = [jobs EXCEPT ![run.job] = row] /\ waiting' = waiting
    BY <1>3, <1>4, <1>9, RowSet DEF GoOn
  <2>6. /\ run' \in RunState /\ run'.job = run.job /\ run'.at = "write" /\ run'.killed = run.killed
        /\ run'.todo = run.todo \ {t} /\ run'.stale = run.stale /\ run'.failed = run.failed
    BY <1>1, <1>9 DEF GoOn, IndexInv, QueueTypeOK, RunState, JobStages
  <2>7. StageOK(row, run', checkout'[Dir(Branch)]) /\ WriteOK(run', checkout'[Dir(Branch)], Held(points', Branch))
    BY <1>1, <1>4, <1>5, <1>6, <1>8, <2>2, <2>6 DEF StageOK, WriteOK
  <2>8. run'.at \in JobStages \ {"look"} /\ UNCHANGED <<remote, owed>>
    BY <1>1, <2>6 DEF JobStages
  <2>9. owed[Branch] # 0 /\ ~Pends(jobs, waiting, Branch) => ~run'.killed /\ Answers(row, FALSE, Branch, owed[Branch])
    BY <1>3, <2>6, OwedHere
  <2>10. \A b \in Branches : b # Branch => b \in short' \/ (b \notin short /\ Held(points', b) = Held(points, b))
    BY <2>1, <2>2
  <2> HIDE DEF row, rest
  <2>11. QED
    BY <1>2, <1>3, <1>4, <1>7, <1>8, <2>3, <2>4, <2>5, <2>6, <2>7, <2>8, <2>9, <2>10, JobGoesOn
<1>10. CASE GoOn([rest EXCEPT !.failed = TRUE]) /\ UNCHANGED indexVars
  <2>1. jobs' = [jobs EXCEPT ![run.job] = row] /\ waiting' = waiting
    BY <1>3, <1>4, <1>10, RowSet DEF GoOn
  <2>2. /\ run' \in RunState /\ run'.job = run.job /\ run'.at = "write" /\ run'.killed = run.killed
        /\ run'.todo = run.todo \ {t} /\ run'.stale = run.stale /\ run'.failed
    BY <1>1, <1>10 DEF GoOn, IndexInv, QueueTypeOK, RunState, JobStages
  <2>3. StageOK(row, run', checkout'[Dir(Branch)]) /\ WriteOK(run', checkout'[Dir(Branch)], Held(points, Branch))
    BY <1>1, <1>4, <1>5, <1>8, <2>2 DEF StageOK, WriteOK
  <2>4. run'.at \in JobStages \ {"look"} /\ UNCHANGED <<remote, owed, indexVars>>
    BY <1>1, <1>10, <2>2 DEF JobStages
  <2>5. owed[Branch] # 0 /\ ~Pends(jobs, waiting, Branch) => ~run'.killed /\ Answers(row, FALSE, Branch, owed[Branch])
    BY <1>3, <2>2, OwedHere
  <2> HIDE DEF row, rest
  <2>6. QED
    BY <1>2, <1>3, <1>4, <1>7, <1>8, <2>1, <2>2, <2>3, <2>4, <2>5, JobWalks
<1>11. QED
  BY <1>9, <1>10 DEF Write, t

\* Finish: after a write that missed nothing the branch holds the chunks of the commit and, once the
\* stale ones are gone, no others; after any other it is short.
LEMMA FinishKeeps == ASSUME IndexInv, Finish PROVE IndexInv'
<1>1. run.at = "write" /\ run.todo = {} /\ UNCHANGED <<checkout, remote, owed>>
  BY DEF Finish
<1>2. mishaps' \in Nat
  BY MishapType DEF Finish
<1>3. run.job # 0
  BY <1>1 DEF IndexInv, Sound, RunOK, JobStages
<1>4. Branch \in Branches /\ Here \in Revisions /\ WriteOK(run, Here, Held(points, Branch))
  BY <1>3, JobFacts
<1>5. Held(points, Branch) = Stored(Branch) /\ whole \in [Branches -> Revisions]
  BY DEF Held, Stored, IndexInv, QueueTypeOK
<1>6. CASE ~run.failed /\ DropStale(Branch, Here, run.stale) /\ Embedded("done")
  <2>1. /\ points' = points \ PointsOf(Branch, run.stale) /\ short' = short \ {Branch}
        /\ whole' = [whole EXCEPT ![Branch] = Here]
    BY <1>6 DEF DropStale
  <2>2. Held(points', Branch) = Held(points, Branch) \ run.stale
        /\ \A b \in Branches : b # Branch => Held(points', b) = Held(points, b)
    BY <2>1 DEF Held, PointsOf
  <2>3. Held(points', Branch) = ChunksOf(Here)
    BY <1>1, <1>4, <1>6, <2>2 DEF WriteOK
  <2>4. NeverHalfEmpty'
    <3> SUFFICES ASSUME NEW b \in Branches PROVE ChunksOf(whole'[b]) \subseteq Held(points', b)
      BY DEF NeverHalfEmpty, Stored, Held
    <3>1. CASE b = Branch
      BY <3>1, <1>5, <2>1, <2>3
    <3>2. CASE b # Branch
      BY <3>2, <1>5, <2>1, <2>2 DEF IndexInv, NeverHalfEmpty, Stored, Held
    <3>3. QED
      BY <3>1, <3>2
  <2>5. points' \subseteq Branches \X Chunks /\ whole' \in [Branches -> Revisions] /\ short' \subseteq Branches
    BY <1>4, <1>5, <2>1 DEF IndexInv, QueueTypeOK
  <2>6. \A b \in Branches : b # Branch => b \in short' \/ (b \notin short /\ Held(points', b) = Held(points, b))
    BY <2>1, <2>2
  <2>7. QED
    BY <1>1, <1>2, <1>3, <1>6, <2>3, <2>4, <2>5, <2>6, EmbeddedKeeps
<1>7. ASSUME NEW written \in BOOLEAN, written => ~run.failed, KeepStale(Branch, Here, written),
             NEW status \in {"done", "error"}, Embedded(status)
      PROVE  IndexInv'
  <2>1. /\ points' = points /\ short' = short \cup {Branch}
        /\ whole' = IF written THEN [whole EXCEPT ![Branch] = Here] ELSE whole
    BY <1>7 DEF KeepStale
  <2>2. written => ChunksOf(Here) \subseteq Held(points, Branch)
    BY <1>1, <1>4, <1>7 DEF WriteOK
  <2>3. NeverHalfEmpty'
    BY <1>5, <2>1, <2>2 DEF IndexInv, NeverHalfEmpty, Stored
  <2>4. points' \subseteq Branches \X Chunks /\ whole' \in [Branches -> Revisions] /\ short' \subseteq Branches
    BY <1>4, <1>5, <2>1 DEF IndexInv, QueueTypeOK
  <2>5. \A b \in Branches : b # Branch => b \in short' \/ (b \notin short /\ Held(points', b) = Held(points, b))
    BY <2>1
  <2>6. Branch \in short'
    BY <2>1
  <2>7. QED
    BY <1>1, <1>2, <1>3, <1>7, <2>3, <2>4, <2>5, <2>6, EmbeddedKeeps
<1>8. QED
  BY <1>6, <1>7 DEF Finish

\* Docs: the job is over.
LEMMA DocsKeeps == ASSUME IndexInv, Docs PROVE IndexInv'
<1>1. run.at = "docs" /\ UNCHANGED <<checkout, remote, owed, indexVars>> /\ mishaps' \in Nat
  BY MishapType DEF Docs
<1>2. run.job # 0
  BY <1>1 DEF IndexInv, Sound, RunOK, JobStages
<1>3. /\ run.job \in DOMAIN jobs /\ jobs[run.job] \in Row /\ jobs[run.job].begun
      /\ jobs[run.job].status \notin {"pending", "deleted"}
      /\ \A k \in DOMAIN jobs : jobs[k].begun => k <= run.job
  BY <1>2, JobFacts
<1>4. PICK s \in {"done", "error"} : JobOver([jobs EXCEPT ![run.job].docs = s])
  BY DEF Docs
<1> DEFINE row == [jobs[run.job] EXCEPT !.docs = s]
<1>5. JobOver([jobs EXCEPT ![run.job] = row])
  <2>1. [jobs EXCEPT ![run.job].docs = s] = [jobs EXCEPT ![run.job] = row]
    BY <1>3
  <2>2. QED
    BY <2>1, <1>4
<1>6. /\ row \in Row /\ row.branch = Branch /\ row.begun /\ row.status = jobs[run.job].status
      /\ row.commit = jobs[run.job].commit /\ row.mem9 = jobs[run.job].mem9
  BY <1>3 DEF Row, Branch
<1>7. Claims(row) /\ Branch \notin short => Held(points, Branch) = ChunksOf(row.commit)
  <2>1. IsNewest(jobs, Looking(run), run.job)
    BY <1>1, <1>3 DEF IsNewest, Looking
  <2>2. DoneFor(jobs, Looking(run), points, short)
    BY DEF IndexInv, Sound
  <2>3. Claims(row) => Claims(jobs[run.job])
    BY <1>6 DEF Claims
  <2> HIDE DEF row
  <2>4. QED
    BY <1>3, <1>6, <2>1, <2>2, <2>3 DEF DoneFor, Branch
<1>8. owed[Branch] # 0 /\ ~Pends(jobs, waiting, Branch) => Answers(row, TRUE, Branch, owed[Branch])
  BY <1>2, <1>6, OwedHere DEF Answers
<1> HIDE DEF row
<1>9. QED
  BY <1>1, <1>2, <1>3, <1>5, <1>6, <1>7, <1>8, SameCheckout, JobEnds

-----------------------------------------------------------------------------
(* Requests, cancelling and a restart.                                     *)

\* The requests that wait but for one, in their order.
LEMMA WithoutProperties ==
  ASSUME NEW queue \in Seq(Entry), NEW j,
         \A i, k \in DOMAIN queue : i < k => queue[i].job < queue[k].job
  PROVE  /\ Without(queue, j) \in Seq(Entry)
         /\ queue = <<>> => Without(queue, j) = <<>>
         /\ \A i \in DOMAIN Without(queue, j) :
              \E m \in DOMAIN queue :
                /\ Without(queue, j)[i] = queue[m] /\ queue[m].job # j
                /\ \A k \in DOMAIN Without(queue, j) :
                     i < k => \E n \in DOMAIN queue : m < n /\ Without(queue, j)[k] = queue[n]
         /\ \A m \in DOMAIN queue :
              queue[m].job # j => \E i \in DOMAIN Without(queue, j) : Without(queue, j)[i] = queue[m]
<1> DEFINE at == {i \in DOMAIN queue : queue[i].job = j}
<1>1. CASE at = {}
  BY <1>1 DEF Without
<1>2. CASE at # {}
  <2> DEFINE p == CHOOSE i \in at : TRUE
             n == Len(queue)
             q == SubSeq(queue, 1, p - 1) \o SubSeq(queue, p + 1, n)
  <2>1. p \in DOMAIN queue /\ queue[p].job = j
    BY <1>2
  <2>2. Without(queue, j) = q
    BY <1>2 DEF Without, RemoveAt
  <2> HIDE DEF at, p
  <2>3. p \in 1..n /\ n \in Nat /\ DOMAIN queue = 1..n
    BY <2>1
  <2> HIDE DEF n
  <2>4. /\ SubSeq(queue, 1, p - 1) \in Seq(Entry) /\ Len(SubSeq(queue, 1, p - 1)) = p - 1
        /\ \A i \in 1..(p - 1) : SubSeq(queue, 1, p - 1)[i] = queue[i]
    BY <2>3 DEF n
  <2>5. /\ SubSeq(queue, p + 1, n) \in Seq(Entry) /\ Len(SubSeq(queue, p + 1, n)) = n - p
        /\ \A i \in 1..(n - p) : SubSeq(queue, p + 1, n)[i] = queue[p + i]
    <3>1. p + 1 \in Int /\ n \in Int /\ \A i \in (p + 1)..n : queue[i] \in Entry
      BY <2>3
    <3>2. /\ SubSeq(queue, p + 1, n) \in Seq(Entry)
          /\ Len(SubSeq(queue, p + 1, n)) = IF p + 1 <= n THEN n - (p + 1) + 1 ELSE 0
          /\ \A i \in 1..(n - (p + 1) + 1) : SubSeq(queue, p + 1, n)[i] = queue[(p + 1) + i - 1]
      BY <3>1, SubSeqProperties
    <3>3. n - (p + 1) + 1 = n - p /\ \A i \in Int : (p + 1) + i - 1 = p + i
      BY <2>3
    <3>4. QED
      BY <2>3, <3>2, <3>3
  <2>6. /\ q \in Seq(Entry) /\ DOMAIN q = 1..(n - 1)
        /\ \A i \in 1..(n - 1) : q[i] = IF i < p THEN queue[i] ELSE queue[i + 1]
    BY <2>3, <2>4, <2>5
  <2> HIDE DEF q
  <2>7. \A m \in 1..n : m # p => queue[m].job # j
    <3> SUFFICES ASSUME NEW m \in 1..n, m # p PROVE queue[m].job # j
      OBVIOUS
    <3>1. m < p \/ p < m
      BY <2>3
    <3>2. queue[m] \in Entry /\ queue[p] \in Entry
      BY <2>3
    <3>3. queue[m].job \in Nat /\ queue[p].job \in Nat
      BY <3>2 DEF Entry
    <3>4. QED
      BY <2>1, <2>3, <3>1, <3>3
  <2>8. \A i \in DOMAIN q :
          \E m \in DOMAIN queue :
            /\ q[i] = queue[m] /\ queue[m].job # j
            /\ \A k \in DOMAIN q : i < k => \E l \in DOMAIN queue : m < l /\ q[k] = queue[l]
    <3> TAKE i \in DOMAIN q
    <3> DEFINE m == IF i < p THEN i ELSE i + 1
    <3>1. m \in 1..n /\ m # p /\ q[i] = queue[m]
      BY <2>3, <2>6
    <3>2. \A k \in DOMAIN q : i < k => \E l \in DOMAIN queue : m < l /\ q[k] = queue[l]
      <4> TAKE k \in DOMAIN q
      <4> HAVE i < k
      <4> DEFINE l == IF k < p THEN k ELSE k + 1
      <4>1. l \in 1..n /\ m < l /\ q[k] = queue[l]
        BY <2>3, <2>6
      <4>2. QED
        BY <2>3, <4>1
    <3> HIDE DEF m
    <3>3. QED
      BY <2>3, <2>7, <3>1, <3>2
  <2>9. \A m \in DOMAIN queue : queue[m].job # j => \E i \in DOMAIN q : q[i] = queue[m]
    <3> TAKE m \in DOMAIN queue
    <3> HAVE queue[m].job # j
    <3> DEFINE i == IF m < p THEN m ELSE m - 1
    <3>1. m # p
      BY <2>1
    <3>2. i \in 1..(n - 1) /\ q[i] = queue[m]
      BY <2>3, <2>6, <3>1
    <3>3. QED
      BY <2>6, <3>2
  <2>10. queue # <<>>
    BY <2>1
  <2>11. QED
    BY <2>2, <2>6, <2>8, <2>9, <2>10
<1>3. QED
  BY <1>1, <1>2

\* Cancel: the row is closed and leaves the queue; nothing is owed to its branch any more.
LEMMA CancelKeeps == ASSUME IndexInv, Cancel PROVE IndexInv'
<1> DEFINE j == Newest(Active)
           b == jobs[j].branch
           row == [jobs[j] EXCEPT !.status = "error"]
           q == Without(waiting, j)
<1>1. j \in DOMAIN jobs /\ jobs[j].status \in {"pending", "cloning", "analyzing"} /\ jobs[j] \in Row
  <2>1. Active \in SUBSET (1..Len(jobs)) /\ Len(jobs) \in Nat /\ Active # {}
    BY DEF Active, Cancel, IndexInv, QueueTypeOK
  <2>2. j \in Active
    BY <2>1, NewestIsLargest
  <2>3. QED
    BY <2>2 DEF Active, IndexInv, QueueTypeOK
<1>2. /\ owed' = [owed EXCEPT ![b] = 0] /\ waiting' = q
      /\ UNCHANGED <<checkout, remote>> /\ UNCHANGED indexVars
  BY DEF Cancel
<1>3. jobs' = [jobs EXCEPT ![j] = row]
  BY <1>1 DEF Cancel
<1>4. /\ run' \in RunState /\ run'.at = run.at /\ run'.job = run.job /\ run'.todo = run.todo
      /\ run'.stale = run.stale /\ run'.failed = run.failed
      /\ run.job # j => run'.killed = run.killed
  BY DEF Cancel, IndexInv, QueueTypeOK, RunState
<1> HIDE DEF j
<1>5. /\ row \in Row /\ row.branch = jobs[j].branch /\ row.begun = jobs[j].begun /\ row.status = "error"
      /\ row.commit = jobs[j].commit /\ row.mem9 = jobs[j].mem9
  BY <1>1 DEF Row
<1>6. /\ jobs' \in Seq(Row) /\ DOMAIN jobs' = DOMAIN jobs /\ jobs'[j] = row
      /\ \A k \in DOMAIN jobs : k # j => jobs'[k] = jobs[k]
  <2>1. jobs \in Seq(Row)
    BY DEF IndexInv, QueueTypeOK
  <2>2. QED
    BY <1>1, <1>3, <1>5, <2>1, ExceptSeq
<1> HIDE DEF row
<1>7. \A k \in DOMAIN jobs : /\ jobs'[k].branch = jobs[k].branch /\ jobs'[k].begun = jobs[k].begun
                             /\ jobs'[k].commit = jobs[k].commit /\ jobs'[k].mem9 = jobs[k].mem9
                             /\ jobs'[k].status \in {jobs[k].status, "error"}
  BY <1>5, <1>6
<1>8. \A skip, k : IsNewest(jobs', skip, k) <=> IsNewest(jobs, skip, k)
  BY <1>6, <1>7 DEF IsNewest
<1>9. QueueOK(jobs, waiting) /\ waiting \in Seq(Entry)
  BY DEF IndexInv, Sound, QueueTypeOK
<1>10. /\ q \in Seq(Entry)
       /\ waiting = <<>> => q = <<>>
       /\ \A i \in DOMAIN q :
            \E m \in DOMAIN waiting :
              /\ q[i] = waiting[m] /\ waiting[m].job # j
              /\ \A k \in DOMAIN q : i < k => \E n \in DOMAIN waiting : m < n /\ q[k] = waiting[n]
       /\ \A m \in DOMAIN waiting : waiting[m].job # j => \E i \in DOMAIN q : q[i] = waiting[m]
  <2>1. \A i, k \in DOMAIN waiting : i < k => waiting[i].job < waiting[k].job
    BY <1>9 DEF QueueOK
  <2>2. QED
    BY <1>9, <2>1, WithoutProperties
<1> HIDE DEF q
<1>11. RowsOK(jobs')
  BY <1>6, <1>7 DEF IndexInv, Sound, RowsOK
<1>12. QueueOK(jobs', q)
  <2> SUFFICES ASSUME NEW i \in DOMAIN q
               PROVE  /\ q[i].job \in DOMAIN jobs' /\ jobs'[q[i].job].status = "pending"
                      /\ \A k \in DOMAIN jobs' : jobs'[k].begun => k < q[i].job
                      /\ \A k \in DOMAIN q : i < k => q[i].job < q[k].job
    BY DEF QueueOK
  <2>1. PICK m \in DOMAIN waiting :
          /\ q[i] = waiting[m] /\ waiting[m].job # j
          /\ \A k \in DOMAIN q : i < k => \E n \in DOMAIN waiting : m < n /\ q[k] = waiting[n]
    BY <1>10
  <2>2. \A k \in DOMAIN q : i < k => q[i].job < q[k].job
    BY <1>9, <2>1 DEF QueueOK
  <2>3. /\ waiting[m].job \in DOMAIN jobs /\ jobs[waiting[m].job].status = "pending"
        /\ \A k \in DOMAIN jobs : jobs[k].begun => k < waiting[m].job
    BY <1>9, <2>1 DEF QueueOK
  <2>4. /\ waiting[m].job \in DOMAIN jobs' /\ jobs'[waiting[m].job].status = "pending"
        /\ \A k \in DOMAIN jobs' : jobs'[k].begun => k < waiting[m].job
    BY <1>6, <1>7, <2>1, <2>3
  <2>5. QED
    BY <2>1, <2>2, <2>4
<1>13. RunOK(jobs', run')
  BY <1>4, <1>6, <1>7 DEF IndexInv, Sound, RunOK
<1>14. JobOK(jobs', run', checkout', points')
  <2> SUFFICES ASSUME run.job # 0
               PROVE  LET c == jobs'[run.job].branch
                      IN /\ StageOK(jobs'[run.job], run', checkout[Dir(c)])
                         /\ WriteOK(run', checkout[Dir(c)], Held(points, c))
    BY <1>2, <1>4 DEF JobOK, indexVars
  <2>1. run.job \in DOMAIN jobs
    BY JobFacts
  <2>2. StageOK(jobs[run.job], run, Here) /\ WriteOK(run, Here, Held(points, Branch))
    BY JobFacts
  <2>3. QED
    BY <1>4, <1>7, <2>1, <2>2 DEF StageOK, WriteOK, Here, Branch
<1>15. DoneFor(jobs', Looking(run'), points', short')
  <2>1. \A k \in DOMAIN jobs : Claims(jobs'[k]) => Claims(jobs[k])
    BY <1>7 DEF Claims
  <2>2. Looking(run') = Looking(run) /\ points' = points /\ short' = short
    BY <1>2, <1>4 DEF Looking, indexVars
  <2>3. QED
    BY <1>6, <1>7, <1>8, <2>1, <2>2 DEF IndexInv, Sound, DoneFor
<1>16. OwedFor(jobs', q, run', owed')
  <2> SUFFICES ASSUME NEW c \in Branches, owed'[c] # 0, ~Pends(jobs', q, c)
               PROVE  /\ run'.killed /\ run'.job # 0 => jobs'[run'.job].branch # c
                      /\ \A k \in DOMAIN jobs' : IsNewest(jobs', {}, k) /\ jobs'[k].branch = c =>
                           Answers(jobs'[k], k # run'.job, c, owed'[c])
    BY DEF OwedFor
  <2>1. c # b /\ owed'[c] = owed[c] /\ b \in Branches
    BY <1>1, <1>2 DEF IndexInv, QueueTypeOK, Row
  <2>2. ~Pends(jobs, waiting, c)
    <3> SUFFICES ASSUME NEW m \in DOMAIN waiting, jobs[waiting[m].job].branch = c PROVE FALSE
      BY DEF Pends
    <3>1. waiting[m].job # j
      BY <2>1
    <3>2. PICK i \in DOMAIN q : q[i] = waiting[m]
      BY <1>10, <3>1
    <3>3. jobs'[q[i].job].branch = c
      BY <1>6, <1>9, <3>1, <3>2 DEF QueueOK
    <3>4. QED
      BY <3>3 DEF Pends
  <2>3. /\ run.killed /\ run.job # 0 => jobs[run.job].branch # c
        /\ \A k \in DOMAIN jobs : IsNewest(jobs, {}, k) /\ jobs[k].branch = c =>
             Answers(jobs[k], k # run.job, c, owed[c])
    BY <2>1, <2>2 DEF IndexInv, Sound, OwedFor
  <2>4. run'.killed /\ run'.job # 0 => jobs'[run'.job].branch # c
    <3>1. run.job # 0 => run.job \in DOMAIN jobs
      BY JobFacts
    <3>2. QED
      BY <1>4, <1>7, <2>1, <2>3, <3>1
  <2>5. ASSUME NEW k \in DOMAIN jobs', IsNewest(jobs', {}, k), jobs'[k].branch = c
        PROVE  Answers(jobs'[k], k # run'.job, c, owed'[c])
    <3>1. k # j /\ jobs'[k] = jobs[k] /\ k \in DOMAIN jobs
      BY <1>5, <1>6, <2>1, <2>5
    <3>2. QED
      BY <1>4, <1>8, <2>1, <2>3, <2>5, <3>1
  <2>6. QED
    BY <2>4, <2>5
<1>17. QueueTypeOK'
  <2>1. mishaps' \in Nat
    BY MishapType DEF Cancel
  <2>2. owed' \in [Branches -> Commits \cup {0}]
    BY <1>2 DEF IndexInv, QueueTypeOK
  <2>3. QED
    BY <1>2, <1>4, <1>6, <1>10, <2>1, <2>2 DEF IndexInv, QueueTypeOK, indexVars
<1>18. RemoteOK'
  <2> SUFFICES ASSUME NEW c \in Branches, remote[c] # 0 PROVE owed'[c] <= remote[c]
    BY <1>2 DEF RemoteOK
  <2>1. owed'[c] \in {0, owed[c]} /\ remote[c] \in Nat /\ owed[c] <= remote[c]
    <3>1. remote[c] \in Commits
      BY DEF IndexInv, QueueTypeOK
    <3>2. remote[c] \in Nat
      BY <3>1, TreeAssumption
    <3>3. owed'[c] \in {0, owed[c]}
      BY <1>2 DEF IndexInv, QueueTypeOK
    <3>4. QED
      BY <3>2, <3>3 DEF IndexInv, RemoteOK
  <2>2. QED
    BY <2>1
<1>19. NeverHalfEmpty'
  BY <1>2, SameVectors
<1>20. run'.at = "idle" => q = <<>>
  BY <1>4, <1>10 DEF IndexInv, Sound
<1>21. QED
  BY <1>2, <1>11, <1>12, <1>13, <1>14, <1>15, <1>16, <1>17, <1>18, <1>19, <1>20 DEF IndexInv, Sound

\* Restart: rows that were open end in error and claim nothing; nobody waits.
LEMMA RestartKeeps == ASSUME IndexInv, Restart PROVE IndexInv'
<1>1. /\ jobs' = [j \in DOMAIN jobs |-> Recovered(jobs[j])] /\ run' = Idle /\ waiting' = <<>>
      /\ owed' = [b \in Branches |-> 0] /\ UNCHANGED <<checkout, remote>> /\ UNCHANGED indexVars
  BY DEF Restart
<1>2. jobs \in Seq(Row) /\ DOMAIN jobs = 1..Len(jobs) /\ Len(jobs) \in Nat
  BY DEF IndexInv, QueueTypeOK
<1>3. \A j \in DOMAIN jobs :
        /\ Recovered(jobs[j]) \in Row
        /\ Recovered(jobs[j]).branch = jobs[j].branch /\ Recovered(jobs[j]).begun = jobs[j].begun
        /\ Recovered(jobs[j]).commit = jobs[j].commit
        /\ Recovered(jobs[j]).status \in {jobs[j].status, "error"}
        /\ Recovered(jobs[j]).status = "done" => jobs[j].status = "done"
        /\ Recovered(jobs[j]).mem9 = "done" => jobs[j].mem9 = "done"
  <2> TAKE j \in DOMAIN jobs
  <2>1. jobs[j] \in Row
    BY <1>2
  <2>2. QED
    BY <2>1 DEF Recovered, Row
<1>4. jobs' \in Seq(Row) /\ DOMAIN jobs' = DOMAIN jobs
  <2>1. jobs' \in [1..Len(jobs) -> Row]
    BY <1>1, <1>2, <1>3
  <2>2. QED
    BY <1>2, <2>1, SeqDef
<1>5. RowsOK(jobs')
  BY <1>1, <1>3 DEF IndexInv, Sound, RowsOK
<1>6. QueueOK(jobs', waiting') /\ RunOK(jobs', run') /\ JobOK(jobs', run', checkout', points')
  BY <1>1 DEF QueueOK, RunOK, JobOK, Idle, JobStages
<1>7. \A k : IsNewest(jobs', {}, k) => IsNewest(jobs, {}, k)
  BY <1>1, <1>3 DEF IsNewest
<1>8. DoneFor(jobs', Looking(run'), points', short')
  <2> SUFFICES ASSUME NEW k \in DOMAIN jobs, IsNewest(jobs', {}, k), Claims(jobs'[k]),
                      jobs'[k].branch \notin short
               PROVE  Held(points, jobs'[k].branch) = ChunksOf(jobs'[k].commit)
    BY <1>1, <1>4 DEF DoneFor, Looking, Idle, indexVars
  <2>1. Claims(jobs[k]) /\ jobs'[k].branch = jobs[k].branch /\ jobs'[k].commit = jobs[k].commit
    BY <1>1, <1>3 DEF Claims
  <2>2. run.at = "look" => k # run.job
    <3>1. run.at = "look" => run.job # 0
      BY DEF IndexInv, Sound, RunOK, JobStages
    <3>2. run.at = "look" => jobs[run.job].commit = NoCommit
      BY <3>1, JobFacts DEF StageOK
    <3>3. QED
      BY <2>1, <3>2 DEF Claims, ChunksOf
  <2>3. IsNewest(jobs, Looking(run), k)
    BY <1>7, <2>2 DEF IsNewest, Looking
  <2>4. QED
    BY <2>1, <2>3 DEF IndexInv, Sound, DoneFor
<1>9. OwedFor(jobs', waiting', run', owed') /\ RemoteOK'
  <2>1. \A c \in Branches : remote[c] \in Commits \cup {0} /\ owed'[c] = 0
    BY <1>1 DEF IndexInv, QueueTypeOK
  <2>2. \A n \in Commits \cup {0} : 0 <= n
    BY TreeAssumption
  <2>3. QED
    BY <1>1, <2>1, <2>2 DEF OwedFor, RemoteOK
<1>10. QueueTypeOK'
  <2>1. mishaps' \in Nat /\ Idle \in RunState /\ waiting' \in Seq(Entry)
    BY <1>1, MishapType DEF Restart, Idle, RunState, JobStages
  <2>2. QED
    BY <1>1, <1>4, <2>1 DEF IndexInv, QueueTypeOK, indexVars
<1>11. NeverHalfEmpty'
  BY <1>1, SameVectors
<1>12. QED
  BY <1>1, <1>5, <1>6, <1>8, <1>9, <1>10, <1>11 DEF IndexInv, Sound

-----------------------------------------------------------------------------
(* The sweep.                                                              *)

\* When no job runs, the rows are as they are between two jobs,
LEMMA RestIsReady ==
  ASSUME IndexInv, run.at \notin JobStages
  PROVE  run.job = 0 /\ Ready(jobs, waiting, owed, points, short)
<1>1. run.job = 0
  BY DEF IndexInv, Sound, RunOK
<1>2. Looking(run) = {}
  BY DEF Looking, JobStages
<1>3. OwedFor(jobs, waiting, Idle, owed)
  <2>1. Idle.job = 0
    BY DEF Idle
  <2>2. QED
    BY <1>1, <2>1 DEF IndexInv, Sound, OwedFor
<1>4. QED
  BY <1>1, <1>2, <1>3 DEF IndexInv, Sound, Ready

\* and whatever runs then that is no job leaves them so.
LEMMA ReadyIsSound ==
  ASSUME NEW rows, NEW queue, NEW r, NEW co, NEW due, NEW pts, NEW sh,
         Ready(rows, queue, due, pts, sh), r.job = 0, r.at \notin JobStages, r.at # "idle"
  PROVE  Sound(rows, queue, r, co, due, pts, sh)
<1>1. RunOK(rows, r) /\ JobOK(rows, r, co, pts) /\ Looking(r) = {}
  BY DEF RunOK, JobOK, Looking, JobStages
<1>2. OwedFor(rows, queue, r, due)
  <2>1. Idle.job = 0
    BY DEF Idle
  <2>2. QED
    BY <2>1 DEF Ready, OwedFor
<1>3. QED
  BY <1>1, <1>2 DEF Ready, Sound

\* Sweep: it begins when nothing runs.
LEMMA SweepKeeps == ASSUME IndexInv, Sweep PROVE IndexInv'
<1>1. run.at = "idle" /\ UNCHANGED <<jobs, waiting, checkout, remote, owed, mishaps, indexVars>>
  BY DEF Sweep
<1>2. run' \in RunState /\ run'.job = 0 /\ run'.at = "sweep"
  <2>1. PICK left \in SUBSET Prunable : run' = [Idle EXCEPT !.at = "sweep", !.left = left]
    BY DEF Sweep
  <2>2. left \subseteq Branches
    BY DEF Prunable
  <2>3. QED
    BY <2>1, <2>2 DEF Idle, RunState, JobStages
<1>3. Ready(jobs, waiting, owed, points, short)
  BY <1>1, RestIsReady DEF JobStages
<1> DEFINE r == run'
<1>4. r.job = 0 /\ r.at \notin JobStages /\ r.at # "idle"
  BY <1>2 DEF JobStages
<1> HIDE DEF r
<1>5. Sound(jobs, waiting, r, checkout, owed, points, short)
  BY <1>3, <1>4, ReadyIsSound
<1>6. QueueTypeOK' /\ NeverHalfEmpty' /\ RemoteOK'
  BY <1>1, <1>2, SameVectors DEF IndexInv, QueueTypeOK, RemoteOK
<1>7. QED
  BY <1>1, <1>5, <1>6 DEF IndexInv, indexVars, r

\* SweepPoints: the branch whose points go is short of them, the others keep theirs.
LEMMA SweepPointsKeeps == ASSUME IndexInv, SweepPoints PROVE IndexInv'
<1> DEFINE b == CHOOSE x \in run.left : TRUE
           r == run'
           pts == points'
           sh == short'
<1>1. run.at = "sweep" /\ run.left # {} /\ UNCHANGED <<jobs, waiting, checkout, remote, owed>>
  BY DEF SweepPoints
<1>2. mishaps' \in Nat
  BY MishapType DEF SweepPoints
<1>3. b \in Branches
  <2>1. run.left \subseteq Branches
    BY DEF IndexInv, QueueTypeOK, RunState
  <2>2. QED
    BY <1>1, <2>1
<1>4. Ready(jobs, waiting, owed, points, short) /\ run.job = 0
  BY <1>1, RestIsReady DEF JobStages
<1>5. /\ DropBranch(b) \/ UNCHANGED indexVars
      /\ run' \in {[run EXCEPT !.at = "sweep rows"], [run EXCEPT !.left = @ \ {b}]}
  BY DEF SweepPoints
<1> HIDE DEF b
<1>6. r \in RunState /\ r.job = 0 /\ r.at \in {"sweep", "sweep rows"}
  BY <1>1, <1>4, <1>5 DEF IndexInv, QueueTypeOK, RunState
<1>7. /\ pts \subseteq Branches \X Chunks /\ whole' \in [Branches -> Revisions] /\ sh \subseteq Branches
      /\ \A c \in Branches : c \in sh \/ (c \notin short /\ Held(pts, c) = Held(points, c))
      /\ NeverHalfEmpty'
  <2>1. CASE DropBranch(b)
    <3>1. /\ pts = points \ PointsOf(b, Chunks) /\ sh = short \cup {b}
          /\ whole' = [whole EXCEPT ![b] = NoCommit]
      BY <2>1 DEF DropBranch
    <3>2. \A c \in Branches : c # b => Held(pts, c) = Held(points, c)
      BY <3>1 DEF Held, PointsOf
    <3>3. NeverHalfEmpty'
      <4> SUFFICES ASSUME NEW c \in Branches PROVE ChunksOf(whole'[c]) \subseteq Held(pts, c)
        BY DEF NeverHalfEmpty, Stored, Held
      <4>1. CASE c = b
        BY <4>1, <3>1, <1>3 DEF IndexInv, QueueTypeOK, ChunksOf
      <4>2. CASE c # b
        BY <4>2, <3>1, <3>2 DEF IndexInv, QueueTypeOK, NeverHalfEmpty, Stored, Held
      <4>3. QED
        BY <4>1, <4>2
    <3>4. whole' \in [Branches -> Revisions]
      BY <3>1 DEF IndexInv, QueueTypeOK, Revisions
    <3>5. pts \subseteq Branches \X Chunks /\ sh \subseteq Branches
      BY <1>3, <3>1 DEF IndexInv, QueueTypeOK
    <3>6. QED
      BY <3>1, <3>2, <3>3, <3>4, <3>5
  <2>2. CASE UNCHANGED indexVars
    BY <2>2, SameVectors
  <2>3. QED
    BY <1>5, <2>1, <2>2
<1> HIDE DEF r, pts, sh
<1>8. Ready(jobs, waiting, owed, pts, sh)
  <2>1. DoneFor(jobs, {}, pts, sh)
    <3> SUFFICES ASSUME NEW j \in DOMAIN jobs, IsNewest(jobs, {}, j), Claims(jobs[j]), jobs[j].branch \notin sh
                 PROVE  Held(pts, jobs[j].branch) = ChunksOf(jobs[j].commit)
      BY DEF DoneFor
    <3>1. jobs[j] \in Row
      BY DEF IndexInv, QueueTypeOK
    <3>2. jobs[j].branch \in Branches
      BY <3>1 DEF Row
    <3>3. QED
      BY <1>4, <1>7, <3>2 DEF Ready, DoneFor
  <2>2. QED
    BY <1>4, <2>1 DEF Ready
<1>9. Sound(jobs, waiting, r, checkout, owed, pts, sh)
  <2>1. r.at \notin JobStages /\ r.at # "idle"
    BY <1>6 DEF JobStages
  <2>2. QED
    BY <1>6, <1>8, <2>1, ReadyIsSound
<1>10. QueueTypeOK' /\ RemoteOK'
  BY <1>1, <1>2, <1>6, <1>7 DEF IndexInv, QueueTypeOK, RemoteOK, r, pts, sh
<1>11. QED
  BY <1>1, <1>7, <1>9, <1>10 DEF IndexInv, r, pts, sh

\* SweepRows: its rows go, but for a request that waits; nothing is claimed of the branch any more.
LEMMA SweepRowsKeeps == ASSUME IndexInv, SweepRows PROVE IndexInv'
<1> DEFINE b == CHOOSE x \in run.left : TRUE
           r == run'
           rows == jobs'
           sh == short'
<1>1. run.at = "sweep rows" /\ UNCHANGED <<waiting, checkout, remote, owed, mishaps, points, whole>>
  BY DEF SweepRows
<1>2. Ready(jobs, waiting, owed, points, short) /\ run.job = 0
  BY <1>1, RestIsReady DEF JobStages
<1>3. /\ rows = [j \in DOMAIN jobs |->
                   IF jobs[j].branch = b /\ jobs[j].status # "pending"
                   THEN [NewRow(b) EXCEPT !.status = "deleted"] ELSE jobs[j]]
      /\ r = [run EXCEPT !.at = "sweep", !.left = @ \ {b}] /\ sh = short \ {b}
  BY DEF SweepRows
<1> HIDE DEF b
<1>4. jobs \in Seq(Row) /\ DOMAIN jobs = 1..Len(jobs) /\ Len(jobs) \in Nat
  BY DEF IndexInv, QueueTypeOK
<1>5. r \in RunState /\ r.job = 0 /\ r.at = "sweep"
  BY <1>2, <1>3 DEF IndexInv, QueueTypeOK, RunState
<1>6. DOMAIN rows = DOMAIN jobs
  BY <1>3
<1>7. \A j \in DOMAIN jobs :
        \/ /\ jobs[j].branch = b /\ jobs[j].status # "pending" /\ rows[j] \in Row
           /\ rows[j].branch = b /\ rows[j].status = "deleted" /\ ~rows[j].begun /\ rows[j].commit = NoCommit
        \/ /\ jobs[j].branch # b \/ jobs[j].status = "pending"
           /\ rows[j] = jobs[j] /\ rows[j] \in Row
  <2> TAKE j \in DOMAIN jobs
  <2>1. jobs[j] \in Row
    BY <1>4
  <2> USE DEF Row
  <2>2. CASE jobs[j].branch = b /\ jobs[j].status # "pending"
    <3>1. rows[j] = [NewRow(b) EXCEPT !.status = "deleted"]
      BY <1>3, <2>2
    <3>2. QED
      BY <2>1, <2>2, <3>1 DEF NewRow, Row, Revisions
  <2>3. CASE ~(jobs[j].branch = b /\ jobs[j].status # "pending")
    BY <1>3, <2>1, <2>3
  <2>4. QED
    BY <2>2, <2>3
<1>8. rows \in Seq(Row)
  <2>1. rows \in [1..Len(jobs) -> Row]
    BY <1>3, <1>4, <1>7
  <2>2. QED
    BY <1>4, <2>1, SeqDef
<1> HIDE DEF r, rows, sh
<1>9. RowsOK(jobs) /\ QueueOK(jobs, waiting) /\ DoneFor(jobs, {}, points, short) /\ OwedFor(jobs, waiting, Idle, owed)
  BY <1>2 DEF Ready
<1>10. RowsOK(rows)
  BY <1>6, <1>7, <1>9 DEF RowsOK
<1>11. QueueOK(rows, waiting)
  <2> SUFFICES ASSUME NEW i \in DOMAIN waiting
               PROVE  /\ waiting[i].job \in DOMAIN rows /\ rows[waiting[i].job].status = "pending"
                      /\ \A j \in DOMAIN rows : rows[j].begun => j < waiting[i].job
    BY <1>9 DEF QueueOK
  <2>1. /\ waiting[i].job \in DOMAIN jobs /\ jobs[waiting[i].job].status = "pending"
        /\ \A j \in DOMAIN jobs : jobs[j].begun => j < waiting[i].job
    BY <1>9 DEF QueueOK
  <2>2. QED
    BY <1>6, <1>7, <2>1
<1>12. \A j : IsNewest(rows, {}, j) => rows[j].branch # b /\ rows[j] = jobs[j] /\ IsNewest(jobs, {}, j)
  <2> SUFFICES ASSUME NEW j, IsNewest(rows, {}, j)
               PROVE  rows[j].branch # b /\ rows[j] = jobs[j] /\ IsNewest(jobs, {}, j)
    OBVIOUS
  <2>1. j \in DOMAIN jobs /\ rows[j].begun
    BY <1>6 DEF IsNewest
  <2>2. rows[j] = jobs[j] /\ jobs[j].branch # b
    BY <1>7, <1>9, <2>1 DEF RowsOK
  <2>3. \A k \in DOMAIN jobs : jobs[k].branch # b => rows[k] = jobs[k]
    BY <1>7
  <2>4. QED
    BY <1>6, <2>1, <2>2, <2>3 DEF IsNewest
<1>13. DoneFor(rows, {}, points, sh)
  BY <1>3, <1>6, <1>9, <1>12 DEF DoneFor
<1>14. \A c : Pends(jobs, waiting, c) => Pends(rows, waiting, c)
  BY <1>7, <1>9 DEF Pends, QueueOK
<1>15. OwedFor(rows, waiting, Idle, owed)
  <2>1. Idle.job = 0
    BY DEF Idle
  <2>2. QED
    BY <1>6, <1>9, <1>12, <1>14, <2>1 DEF OwedFor
<1>16. Sound(rows, waiting, r, checkout, owed, points, sh)
  <2>1. Ready(rows, waiting, owed, points, sh)
    BY <1>10, <1>11, <1>13, <1>15 DEF Ready
  <2>2. r.at \notin JobStages /\ r.at # "idle"
    BY <1>5 DEF JobStages
  <2>3. QED
    BY <1>5, <2>1, <2>2, ReadyIsSound
<1>17. QueueTypeOK' /\ RemoteOK' /\ NeverHalfEmpty'
  BY <1>1, <1>3, <1>5, <1>8
     DEF IndexInv, QueueTypeOK, RemoteOK, NeverHalfEmpty, Stored, r, rows, sh
<1>18. QED
  BY <1>1, <1>16, <1>17 DEF IndexInv, r, rows, sh

\* SweepEnds: what came meanwhile starts.
LEMMA SweepEndsKeeps == ASSUME IndexInv, SweepEnds PROVE IndexInv'
<1> DEFINE co == checkout'
<1>1. /\ run.at = "sweep" /\ StartNext(jobs, waiting)
      /\ UNCHANGED <<remote, owed, mishaps, indexVars>>
  BY DEF SweepEnds
<1>2. Ready(jobs, waiting, owed, points, short) /\ jobs \in Seq(Row) /\ waiting \in Seq(Entry)
  BY <1>1, RestIsReady DEF JobStages, IndexInv, QueueTypeOK
<1>3. co \in [{"own", "shared"} -> Revisions]
  BY DEF SweepEnds, IndexInv, QueueTypeOK, Revisions
<1> HIDE DEF co
<1>4. /\ jobs' \in Seq(Row) /\ waiting' \in Seq(Entry) /\ run' \in RunState
      /\ Sound(jobs', waiting', run', co, owed, points, short)
  BY <1>1, <1>2, StartNextKeeps
<1>5. QueueTypeOK' /\ RemoteOK' /\ NeverHalfEmpty'
  BY <1>1, <1>3, <1>4, SameVectors DEF IndexInv, QueueTypeOK, RemoteOK, indexVars, co
<1>6. QED
  BY <1>1, <1>4, <1>5 DEF IndexInv, indexVars, co

-----------------------------------------------------------------------------
(* Requests and the remote.                                                *)

\* A push, and a branch that goes, change the remote only.
LEMMA RemoteKeeps ==
  ASSUME IndexInv, remote' \in [Branches -> Commits \cup {0}], mishaps' \in Nat,
         \A b \in Branches : remote'[b] = 0 \/ (remote[b] <= remote'[b] /\ remote[b] # 0),
         UNCHANGED <<jobs, waiting, run, checkout, owed, indexVars>>
  PROVE  IndexInv'
<1>1. RemoteOK'
  <2> SUFFICES ASSUME NEW b \in Branches, remote'[b] # 0 PROVE owed[b] <= remote'[b]
    BY DEF RemoteOK
  <2>1. remote[b] <= remote'[b] /\ owed[b] <= remote[b]
    BY DEF IndexInv, RemoteOK
  <2>2. remote'[b] \in Commits \cup {0}
    OBVIOUS
  <2>3. \A n \in Commits \cup {0} : n \in Int
    BY TreeAssumption
  <2>4. remote'[b] \in Int
    BY <2>2, <2>3, Zenon
  <2>5. remote[b] \in Int /\ owed[b] \in Int
    BY OwedType
  <2>6. QED
    BY <2>1, <2>4, <2>5
<1>2. QueueTypeOK' /\ NeverHalfEmpty'
  BY SameVectors DEF IndexInv, QueueTypeOK
<1>3. QED
  BY <1>1, <1>2 DEF IndexInv, indexVars

\* Push: the branch moves on.
LEMMA PushKeeps == ASSUME IndexInv, NEW b \in Branches, Push(b) PROVE IndexInv'
<1>1. /\ remote[b] # 0 /\ remote[b] + 1 \in Commits /\ remote' = [remote EXCEPT ![b] = @ + 1]
      /\ UNCHANGED <<jobs, waiting, run, checkout, owed, indexVars>> /\ mishaps' = mishaps
  BY DEF Push
<1>2. \A c \in Branches : remote[c] \in Int
  BY OwedType
<1>3. remote' \in [Branches -> Commits \cup {0}] /\ mishaps' \in Nat
  BY <1>1 DEF IndexInv, QueueTypeOK
<1>4. \A c \in Branches : remote'[c] = IF c = b THEN remote[b] + 1 ELSE remote[c]
  BY <1>1 DEF IndexInv, QueueTypeOK
<1>5. \A c \in Branches : remote'[c] = 0 \/ (remote[c] <= remote'[c] /\ remote[c] # 0)
  BY <1>1, <1>2, <1>4
<1>6. QED
  BY <1>1, <1>3, <1>5, RemoteKeeps

\* Gone: it has no commit any more.
LEMMA GoneKeeps == ASSUME IndexInv, NEW b \in Branches, Gone(b) PROVE IndexInv'
<1>1. /\ remote' = [remote EXCEPT ![b] = 0]
      /\ UNCHANGED <<jobs, waiting, run, checkout, owed, indexVars>>
  BY DEF Gone
<1>2. mishaps' \in Nat
  BY MishapType DEF Gone
<1>3. \A c \in Branches : remote[c] \in Int
  BY OwedType
<1>4. remote' \in [Branches -> Commits \cup {0}]
  BY <1>1 DEF IndexInv, QueueTypeOK
<1>5. \A c \in Branches : remote'[c] = IF c = b THEN 0 ELSE remote[c]
  BY <1>1 DEF IndexInv, QueueTypeOK
<1>6. \A c \in Branches : remote'[c] = 0 \/ (remote[c] <= remote'[c] /\ remote[c] # 0)
  BY <1>3, <1>5
<1>7. QED
  BY <1>1, <1>2, <1>4, <1>6, RemoteKeeps

\* ModelSwitched: only the collection is no longer what the model needs.
LEMMA ModelSwitchedKeeps == ASSUME IndexInv, ModelSwitched PROVE IndexInv'
<1>1. UNCHANGED <<jobs, waiting, run, checkout, remote, owed, points, whole, short>>
  BY DEF ModelSwitched
<1>2. mishaps' \in Nat
  BY MishapType DEF ModelSwitched
<1>3. QueueTypeOK' /\ NeverHalfEmpty' /\ RemoteOK'
  BY <1>1, <1>2 DEF IndexInv, QueueTypeOK, NeverHalfEmpty, Stored, RemoteOK
<1>4. QED
  BY <1>1, <1>3 DEF IndexInv

\* What is owed after a request is no more than the remote has.
LEMMA RequestOwes ==
  ASSUME IndexInv, NEW b \in Branches, UNCHANGED remote, owed' = [owed EXCEPT ![b] = remote[b]]
  PROVE  /\ owed' \in [Branches -> Commits \cup {0}] /\ RemoteOK'
         /\ \A c \in Branches : c # b => owed'[c] = owed[c]
<1>1. \A c \in Branches : owed'[c] = IF c = b THEN remote[b] ELSE owed[c]
  BY DEF IndexInv, QueueTypeOK
<1>2. \A c \in Branches : remote[c] \in Int
  BY OwedType
<1>3. owed' \in [Branches -> Commits \cup {0}]
  BY DEF IndexInv, QueueTypeOK
<1>4. RemoteOK'
  BY <1>1, <1>2 DEF IndexInv, RemoteOK
<1>5. QED
  BY <1>1, <1>3, <1>4

\* A request that joins the one that waits: the queue has the same jobs in the same order.
LEMMA JoinKeeps ==
  ASSUME IndexInv, NEW b \in Branches, NEW force \in BOOLEAN, Waits(b),
         waiting' = [i \in DOMAIN waiting |->
                       IF jobs[waiting[i].job].branch = b
                       THEN [waiting[i] EXCEPT !.force = @ \/ force] ELSE waiting[i]],
         owed' = [owed EXCEPT ![b] = remote[b]],
         UNCHANGED <<jobs, run, checkout, remote, mishaps, indexVars>>
  PROVE  IndexInv'
<1>1. waiting \in Seq(Entry) /\ DOMAIN waiting = 1..Len(waiting) /\ Len(waiting) \in Nat
  BY DEF IndexInv, QueueTypeOK
<1>2. \A i \in DOMAIN waiting : waiting'[i] \in Entry /\ waiting'[i].job = waiting[i].job
  <2> TAKE i \in DOMAIN waiting
  <2>1. waiting[i] \in Entry
    BY <1>1
  <2>2. QED
    BY <2>1 DEF Entry
<1>3. DOMAIN waiting' = DOMAIN waiting /\ waiting' \in Seq(Entry)
  <2>1. waiting' \in [1..Len(waiting) -> Entry]
    BY <1>1, <1>2
  <2>2. QED
    BY <1>1, <2>1, SeqDef
<1>4. QueueOK(jobs, waiting')
  BY <1>2, <1>3 DEF IndexInv, Sound, QueueOK
<1>5. \A c : Pends(jobs, waiting', c) <=> Pends(jobs, waiting, c)
  BY <1>2, <1>3 DEF Pends
<1>6. Pends(jobs, waiting, b)
  BY DEF Waits, Pends
<1>7. \A c \in Branches : c # b => owed'[c] = owed[c]
  BY RequestOwes
<1>8. OwedFor(jobs, waiting', run, owed')
  BY <1>5, <1>6, <1>7 DEF IndexInv, Sound, OwedFor
<1>9. run.at # "idle"
  BY <1>1 DEF IndexInv, Sound, Waits
<1>10. QueueTypeOK' /\ RemoteOK' /\ NeverHalfEmpty'
  BY <1>3, RequestOwes, SameVectors DEF IndexInv, QueueTypeOK
<1>11. QED
  BY <1>4, <1>8, <1>9, <1>10 DEF IndexInv, Sound, indexVars

\* The rows and the queue with a request that has a row of its own.
RowsWith(b) == Append(jobs, NewRow(b))
QueueWith(b, force) == Append(waiting, [job |-> Len(RowsWith(b)), force |-> force])

\* That row is the last, and never began.
LEMMA AppendKeeps ==
  ASSUME IndexInv, NEW b \in Branches, NEW force \in BOOLEAN,
         UNCHANGED remote, owed' = [owed EXCEPT ![b] = remote[b]]
  PROVE  /\ RowsWith(b) \in Seq(Row) /\ QueueWith(b, force) \in Seq(Entry)
         /\ RowsOK(RowsWith(b)) /\ QueueOK(RowsWith(b), QueueWith(b, force))
         /\ RunOK(RowsWith(b), run) /\ JobOK(RowsWith(b), run, checkout, points)
         /\ DoneFor(RowsWith(b), Looking(run), points, short)
         /\ OwedFor(RowsWith(b), QueueWith(b, force), run, owed')
<1> DEFINE rows == RowsWith(b)
           queue == QueueWith(b, force)
           due == owed'
           n == Len(jobs) + 1
           w == [job |-> Len(rows), force |-> force]
<1>1. /\ jobs \in Seq(Row) /\ Len(jobs) \in Nat /\ DOMAIN jobs = 1..Len(jobs)
      /\ waiting \in Seq(Entry) /\ Len(waiting) \in Nat /\ DOMAIN waiting = 1..Len(waiting)
  BY DEF IndexInv, QueueTypeOK
<1>2. NewRow(b) \in Row /\ NewRow(b).branch = b /\ NewRow(b).status = "pending" /\ ~NewRow(b).begun
      /\ NewRow(b).commit = NoCommit
  BY DEF NewRow, Row, Revisions
<1>3. /\ rows \in Seq(Row) /\ Len(rows) = n /\ DOMAIN rows = 1..n
      /\ rows[n] = NewRow(b) /\ \A k \in DOMAIN jobs : k \in DOMAIN rows /\ k # n /\ rows[k] = jobs[k]
  BY <1>1, <1>2, AppendProperties DEF RowsWith
<1>4. w \in Entry /\ w.job = n
  BY <1>1, <1>3 DEF Entry
<1> HIDE DEF w
<1>5. /\ queue \in Seq(Entry) /\ DOMAIN queue = 1..(Len(waiting) + 1) /\ queue[Len(waiting) + 1] = w
      /\ \A i \in DOMAIN waiting : i \in DOMAIN queue /\ queue[i] = waiting[i]
  <2>1. queue = Append(waiting, w)
    BY DEF w, QueueWith
  <2>2. QED
    BY <1>1, <1>4, <2>1, AppendProperties
<1> HIDE DEF rows, queue, due
<1>6. \A k \in DOMAIN rows : rows[k].begun => k \in DOMAIN jobs
  BY <1>1, <1>2, <1>3
<1>7. RowsOK(jobs) /\ QueueOK(jobs, waiting) /\ RunOK(jobs, run) /\ JobOK(jobs, run, checkout, points)
      /\ DoneFor(jobs, Looking(run), points, short) /\ OwedFor(jobs, waiting, run, owed)
  BY DEF IndexInv, Sound
<1>8. n \in Nat /\ \A k \in DOMAIN jobs : k < n
  BY <1>1
<1> HIDE DEF n
<1>9. RowsOK(rows)
  <2> SUFFICES ASSUME NEW k \in DOMAIN rows
               PROVE  /\ rows[k].begun => rows[k].status \notin {"pending", "deleted"}
                      /\ ~rows[k].begun => rows[k].commit = NoCommit
    BY DEF RowsOK
  <2>1. k = n \/ k \in DOMAIN jobs
    BY <1>1, <1>3 DEF n
  <2>2. QED
    BY <1>2, <1>3, <1>7, <2>1 DEF RowsOK
<1>10. QueueOK(rows, queue)
  <2> SUFFICES ASSUME NEW i \in DOMAIN queue
               PROVE  /\ queue[i].job \in DOMAIN rows /\ rows[queue[i].job].status = "pending"
                      /\ \A j \in DOMAIN rows : rows[j].begun => j < queue[i].job
                      /\ \A k \in DOMAIN queue : i < k => queue[i].job < queue[k].job
    BY DEF QueueOK
  <2>1. CASE i \in DOMAIN waiting
    <3>1. /\ queue[i] = waiting[i] /\ waiting[i].job \in DOMAIN jobs
          /\ jobs[waiting[i].job].status = "pending"
          /\ \A j \in DOMAIN jobs : jobs[j].begun => j < waiting[i].job
          /\ \A k \in DOMAIN waiting : i < k => waiting[i].job < waiting[k].job
      BY <1>5, <1>7, <2>1 DEF QueueOK
    <3>2. \A k \in DOMAIN queue : i < k => queue[i].job < queue[k].job
      <4> TAKE k \in DOMAIN queue
      <4>1. k = Len(waiting) + 1 \/ k \in DOMAIN waiting
        BY <1>1, <1>5
      <4>2. QED
        BY <1>4, <1>5, <1>8, <3>1, <4>1
    <3>3. \A j \in DOMAIN rows : rows[j].begun => j < queue[i].job
      BY <1>3, <1>6, <3>1
    <3>4. QED
      BY <1>3, <3>1, <3>2, <3>3
  <2>2. CASE i = Len(waiting) + 1
    <3>1. queue[i].job = n /\ \A k \in DOMAIN queue : ~(i < k)
      BY <1>1, <1>4, <1>5, <2>2
    <3>2. n \in DOMAIN rows
      BY <1>1, <1>3 DEF n
    <3>3. \A j \in DOMAIN rows : rows[j].begun => j < n
      BY <1>6, <1>8
    <3>4. QED
      BY <1>2, <1>3, <3>1, <3>2, <3>3
  <2>3. i \in DOMAIN waiting \/ i = Len(waiting) + 1
    BY <1>1, <1>5
  <2>4. QED
    BY <2>1, <2>2, <2>3
<1>11. RunOK(rows, run)
  BY <1>3, <1>6, <1>7 DEF RunOK
<1>12. JobOK(rows, run, checkout, points)
  BY <1>3, <1>7 DEF JobOK, RunOK
<1>13. \A skip, k : IsNewest(rows, skip, k) => IsNewest(jobs, skip, k) /\ k \in DOMAIN jobs /\ rows[k] = jobs[k]
  BY <1>3, <1>6 DEF IsNewest
<1>14. DoneFor(rows, Looking(run), points, short)
  BY <1>7, <1>13 DEF DoneFor
<1>15. OwedFor(rows, queue, run, due)
  <2> SUFFICES ASSUME NEW c \in Branches, due[c] # 0, ~Pends(rows, queue, c)
               PROVE  /\ run.killed /\ run.job # 0 => rows[run.job].branch # c
                      /\ \A k \in DOMAIN rows : IsNewest(rows, {}, k) /\ rows[k].branch = c =>
                           Answers(rows[k], k # run.job, c, due[c])
    BY DEF OwedFor
  <2>1. c # b /\ due[c] = owed[c]
    <3>1. Pends(rows, queue, b)
      <4>1. Len(waiting) + 1 \in DOMAIN queue /\ queue[Len(waiting) + 1].job = n
        BY <1>1, <1>4, <1>5
      <4>2. QED
        BY <1>2, <1>3, <4>1 DEF Pends
    <3>2. QED
      BY <3>1, RequestOwes DEF due
  <2>2. ~Pends(jobs, waiting, c)
    <3> SUFFICES ASSUME NEW i \in DOMAIN waiting, jobs[waiting[i].job].branch = c PROVE FALSE
      BY DEF Pends
    <3>1. waiting[i].job \in DOMAIN jobs
      BY <1>7 DEF QueueOK
    <3>2. i \in DOMAIN queue /\ rows[queue[i].job].branch = c
      BY <1>3, <1>5, <3>1
    <3>3. QED
      BY <3>2 DEF Pends
  <2>3. /\ run.killed /\ run.job # 0 => jobs[run.job].branch # c
        /\ \A k \in DOMAIN jobs : IsNewest(jobs, {}, k) /\ jobs[k].branch = c =>
             Answers(jobs[k], k # run.job, c, due[c])
    BY <1>7, <2>1, <2>2 DEF OwedFor
  <2>4. run.job # 0 => rows[run.job] = jobs[run.job]
    BY <1>3, <1>7 DEF RunOK
  <2>5. QED
    BY <1>13, <2>3, <2>4
<1>16. QED
  BY <1>3, <1>5, <1>9, <1>10, <1>11, <1>12, <1>14, <1>15 DEF rows, queue, due

\* Request: it joins the one that waits, waits itself, or starts when nothing runs.
LEMMA RequestKeeps == ASSUME IndexInv, NEW b \in Branches, NEW force \in BOOLEAN, Request(b, force) PROVE IndexInv'
<1>1. owed' = [owed EXCEPT ![b] = remote[b]] /\ UNCHANGED <<checkout, remote, mishaps, indexVars>>
  BY DEF Request
<1>2. CASE Waits(b)
  BY <1>1, <1>2, JoinKeeps DEF Request
<1>3. CASE ~Waits(b)
  <2> DEFINE rows == RowsWith(b)
             queue == QueueWith(b, force)
             due == owed'
  <2>1. IF run.at = "idle" THEN StartNext(rows, queue)
                           ELSE jobs' = rows /\ waiting' = queue /\ UNCHANGED run
    BY <1>3 DEF Request, RowsWith, QueueWith
  <2>2. /\ rows \in Seq(Row) /\ queue \in Seq(Entry)
        /\ RowsOK(rows) /\ QueueOK(rows, queue) /\ RunOK(rows, run) /\ JobOK(rows, run, checkout, points)
        /\ DoneFor(rows, Looking(run), points, short) /\ OwedFor(rows, queue, run, due)
    BY <1>1, AppendKeeps
  <2> HIDE DEF rows, queue, due
  <2>3. /\ jobs' \in Seq(Row) /\ waiting' \in Seq(Entry) /\ run' \in RunState
        /\ Sound(jobs', waiting', run', checkout, due, points, short)
    <3>1. CASE run.at = "idle"
      <4>1. run.job = 0 /\ Looking(run) = {}
        BY <3>1, RestIsReady DEF JobStages, Looking
      <4>2. OwedFor(rows, queue, Idle, due)
        BY <2>2, <4>1 DEF OwedFor, Idle
      <4>3. Ready(rows, queue, due, points, short)
        BY <2>2, <4>1, <4>2 DEF Ready
      <4>4. StartNext(rows, queue)
        BY <2>1, <3>1
      <4>5. QED
        BY <2>2, <4>3, <4>4, StartNextKeeps
    <3>2. CASE run.at # "idle"
      <4>1. jobs' = rows /\ waiting' = queue /\ run' = run /\ run \in RunState
        BY <2>1, <3>2 DEF IndexInv, QueueTypeOK
      <4>2. QED
        BY <2>2, <3>2, <4>1 DEF Sound
    <3>3. QED
      BY <3>1, <3>2
  <2>4. QueueTypeOK' /\ RemoteOK' /\ NeverHalfEmpty'
    BY <1>1, <2>3, RequestOwes, SameVectors DEF IndexInv, QueueTypeOK, indexVars
  <2>5. QED
    BY <1>1, <2>3, <2>4 DEF IndexInv, indexVars, due
<1>4. QED
  BY <1>2, <1>3

-----------------------------------------------------------------------------
(* The theorems.                                                           *)

\* Every variable of the queue keeps its type, and the invariant holds, from the start
LEMMA IndexInvInit == QueueInit => IndexInv
<1> SUFFICES ASSUME QueueInit PROVE IndexInv
  OBVIOUS
<1> DEFINE row == [NewRow(Default) EXCEPT !.status = "done", !.begun = TRUE, !.commit = <<Default, 1>>,
                                          !.mem9 = "done", !.docs = "done"]
<1>1. /\ waiting = <<>> /\ run = Idle /\ mishaps = 0 /\ short = {}
      /\ remote = [b \in Branches |-> 1] /\ owed = [b \in Branches |-> 0]
  BY DEF QueueInit
<1>2. Default \in Branches /\ 1 \in Commits /\ <<Default, 1>> \in Revisions /\ NoCommit \in Revisions
  BY DefaultAssumption, TreeAssumption DEF Revisions
<1>3. row \in Row /\ row.branch = Default /\ row.status = "done" /\ row.begun /\ row.commit = <<Default, 1>>
  BY <1>2 DEF NewRow, Row
<1>4. ChunksOf(<<Default, 1>>) = Tree[Default][1] /\ Tree[Default][1] \subseteq Chunks /\ ChunksOf(NoCommit) = {}
  <2>1. <<Default, 1>> # NoCommit
    BY DEF NoCommit
  <2>2. Tree[Default][1] \subseteq Chunks
    BY <1>2, TreeAssumption
  <2>3. QED
    BY <2>1, <2>2 DEF ChunksOf
<1>5. \/ /\ jobs = <<>> /\ points = {}
         /\ checkout = [d \in {"own", "shared"} |-> NoCommit] /\ whole = [b \in Branches |-> NoCommit]
      \/ /\ jobs = <<row>> /\ points = PointsOf(Default, Tree[Default][1])
         /\ checkout = [d \in {"own", "shared"} |-> IF d = "own" THEN <<Default, 1>> ELSE NoCommit]
         /\ whole = [b \in Branches |-> IF b = Default THEN <<Default, 1>> ELSE NoCommit]
  BY DEF QueueInit
<1> HIDE DEF row
<1>6. jobs \in Seq(Row) /\ (jobs = <<>> \/ (Len(jobs) = 1 /\ jobs[1] = row))
  <2>1. <<row>> \in Seq(Row) /\ Len(<<row>>) = 1 /\ <<row>>[1] = row /\ <<>> \in Seq(Row)
    BY <1>3
  <2>2. jobs = <<>> \/ jobs = <<row>>
    BY <1>5
  <2>3. QED
    BY <2>1, <2>2
<1>7. QueueTypeOK
  <2>1. Idle \in RunState /\ waiting \in Seq(Entry)
    BY <1>1 DEF Idle, RunState
  <2>2. /\ checkout \in [{"own", "shared"} -> Revisions] /\ points \subseteq Branches \X Chunks
        /\ whole \in [Branches -> Revisions]
    BY <1>2, <1>4, <1>5 DEF PointsOf
  <2>3. remote \in [Branches -> Commits \cup {0}] /\ owed \in [Branches -> Commits \cup {0}]
    BY <1>1, <1>2
  <2>4. QED
    BY <1>1, <1>6, <2>1, <2>2, <2>3 DEF QueueTypeOK
<1>8. NeverHalfEmpty
  <2> SUFFICES ASSUME NEW b \in Branches PROVE ChunksOf(whole[b]) \subseteq Stored(b)
    BY DEF NeverHalfEmpty
  <2>1. CASE whole[b] = NoCommit
    BY <1>4, <2>1
  <2>2. CASE b = Default /\ points = PointsOf(Default, Tree[Default][1]) /\ whole[b] = <<Default, 1>>
    BY <1>4, <2>2 DEF Stored, PointsOf
  <2>3. QED
    BY <1>5, <2>1, <2>2
<1>9. RowsOK(jobs) /\ QueueOK(jobs, waiting) /\ RunOK(jobs, run) /\ JobOK(jobs, run, checkout, points)
      /\ OwedFor(jobs, waiting, run, owed)
  BY <1>1, <1>3, <1>6 DEF RowsOK, QueueOK, RunOK, JobOK, OwedFor, Idle, JobStages
<1>10. DoneFor(jobs, Looking(run), points, short)
  <2> SUFFICES ASSUME NEW j \in DOMAIN jobs PROVE Held(points, jobs[j].branch) = ChunksOf(jobs[j].commit)
    BY DEF DoneFor
  <2>1. jobs[j] = row /\ points = PointsOf(Default, Tree[Default][1])
    BY <1>5, <1>6
  <2>2. Held(points, Default) = Tree[Default][1]
    BY <1>4, <2>1 DEF Held, PointsOf
  <2>3. QED
    BY <1>3, <1>4, <2>1, <2>2
<1>11. RemoteOK
  BY <1>1 DEF RemoteOK
<1>12. QED
  BY <1>1, <1>7, <1>8, <1>9, <1>10, <1>11 DEF IndexInv, Sound

\* and through every step.
LEMMA IndexInvStep == IndexInv /\ [QueueNext]_queueVars => IndexInv'
<1> SUFFICES ASSUME IndexInv, [QueueNext]_queueVars PROVE IndexInv'
  OBVIOUS
<1>1. CASE Look \/ Fetch \/ Clone \/ Analyze \/ Open \/ List \/ Write \/ Finish \/ Docs
  BY <1>1, LookKeeps, FetchKeeps, CloneKeeps, AnalyzeKeeps, OpenKeeps, ListKeeps, WriteKeeps, FinishKeeps, DocsKeeps
<1>2. CASE SweepPoints \/ SweepRows \/ SweepEnds \/ Cancel \/ Restart \/ Sweep \/ ModelSwitched
  BY <1>2, SweepPointsKeeps, SweepRowsKeeps, SweepEndsKeeps, CancelKeeps, RestartKeeps, SweepKeeps,
     ModelSwitchedKeeps
<1>3. CASE \E b \in Branches : Push(b) \/ Gone(b) \/ \E force \in BOOLEAN : Request(b, force)
  BY <1>3, PushKeeps, GoneKeeps, RequestKeeps
<1>4. CASE UNCHANGED queueVars
  <2>1. UNCHANGED <<jobs, waiting, run, checkout, remote, owed, mishaps, indexVars>>
    BY <1>4 DEF queueVars
  <2>2. NeverHalfEmpty'
    BY <2>1, SameVectors
  <2>3. QueueTypeOK' /\ RemoteOK'
    BY <2>1 DEF IndexInv, QueueTypeOK, RemoteOK, indexVars
  <2>4. QED
    BY <2>1, <2>2, <2>3 DEF IndexInv, indexVars
<1>5. QED
  BY <1>1, <1>2, <1>3, <1>4 DEF QueueNext, QueueStep

\* The invariant holds in every behaviour of the queue.
LEMMA IndexInvAlways == QueueSpec => []IndexInv
BY IndexInvInit, IndexInvStep, PTL DEF QueueSpec

\* Skipping a commit that is indexed is safe, for any number of branches, jobs, commits and mishaps:
\* what the newest finished job of a branch says is stored is what is stored.
THEOREM SkippingIsSafe == QueueSpec => []IndexedBranchIsWhole
<1>1. IndexInv => IndexedBranchIsWhole
  <2> SUFFICES ASSUME IndexInv, NEW b \in Branches, NEW rows, rows = Begun(jobs, b), rows # {},
                      jobs[Newest(rows)].status = "done", jobs[Newest(rows)].mem9 = "done",
                      ChunksOf(jobs[Newest(rows)].commit) # {}, b \notin short
               PROVE  Stored(b) = ChunksOf(jobs[Newest(rows)].commit)
    BY DEF IndexedBranchIsWhole
  <2> DEFINE j == Newest(rows)
  <2>1. rows = Begun(jobs, b) \ {}
    OBVIOUS
  <2>2. IsNewest(jobs, {}, j) /\ jobs[j].branch = b
    BY <2>1, NewestBegun
  <2>3. run.at = "look" => j # run.job
    <3>1. run.at = "look" => run.job # 0
      BY DEF IndexInv, Sound, RunOK, JobStages
    <3>2. run.at = "look" => jobs[run.job].commit = NoCommit
      BY <3>1, JobFacts DEF StageOK
    <3>3. QED
      BY <3>2 DEF ChunksOf
  <2>4. IsNewest(jobs, Looking(run), j)
    BY <2>2, <2>3 DEF IsNewest, Looking
  <2>5. j \in DOMAIN jobs /\ Claims(jobs[j])
    BY <2>2 DEF IsNewest, Claims
  <2>6. Stored(b) = Held(points, b)
    BY DEF Stored, Held
  <2> HIDE DEF j
  <2>7. Stored(b) = ChunksOf(jobs[j].commit)
    BY <2>2, <2>4, <2>5, <2>6 DEF IndexInv, Sound, DoneFor
  <2>8. QED
    BY <2>7 DEF j
<1>2. QED
  BY <1>1, IndexInvAlways, PTL

\* From the first time it is whole, a branch keeps the chunks it was last whole with, whatever fails.
THEOREM BranchesStayWhole == QueueSpec => []NeverHalfEmpty
<1>1. IndexInv => NeverHalfEmpty
  BY DEF IndexInv
<1>2. QED
  BY <1>1, IndexInvAlways, PTL

\* When the queue is empty, every push that was asked for has been looked at, or its job says why not.
THEOREM PushesAreAnswered == QueueSpec => []NoPushLost
<1>1. IndexInv => NoPushLost
  <2> SUFFICES ASSUME IndexInv, run.at = "idle", NEW b \in Branches, owed[b] # 0,
                      NEW rows, rows = Begun(jobs, b), rows # {}
               PROVE  LET last == jobs[Newest(rows)]
                      IN \/ last.status = "error" \/ last.commit = NoCommit
                         \/ last.commit[1] = b /\ last.commit[2] >= owed[b]
    BY DEF NoPushLost
  <2> DEFINE j == Newest(rows)
  <2>1. rows = Begun(jobs, b) \ {}
    OBVIOUS
  <2>2. IsNewest(jobs, {}, j) /\ jobs[j].branch = b
    BY <2>1, NewestBegun
  <2>3. waiting = <<>> /\ OwedFor(jobs, waiting, run, owed)
    BY DEF IndexInv, Sound
  <2>4. ~Pends(jobs, waiting, b)
    BY <2>3 DEF Pends
  <2>5. j \in DOMAIN jobs
    BY <2>2 DEF IsNewest
  <2> HIDE DEF j
  <2>6. Answers(jobs[j], j # run.job, b, owed[b])
    BY <2>2, <2>3, <2>4, <2>5 DEF OwedFor
  <2>7. QED
    BY <2>6 DEF Answers, j
<1>2. QED
  BY <1>1, IndexInvAlways, PTL

=============================================================================
