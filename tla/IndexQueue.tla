----------------------------- MODULE IndexQueue ------------------------------
(***************************************************************************)
(* The indexing of one project (dashboard-api, services/indexer.ts, the    *)
(* routes of routes/indexing.ts and webhooks.ts that ask for it, and the   *)
(* sweep of services/branch-retention.ts).  Jobs run one after another; a  *)
(* request for a branch that waits joins the job that waits; the sweep     *)
(* takes the place of a job.  The rows of index_jobs outlive the process,  *)
(* the queue does not.                                                     *)
(*                                                                         *)
(* A job looks whether its branch is indexed already, brings the checkout  *)
(* to the branch, has it analysed, embeds it and builds the docs.  Every   *)
(* step that is awaited is an action, and may fail.  MaxJobs, MaxPushes    *)
(* and MaxMishaps bound the rows, the pushes and what goes wrong.          *)
(***************************************************************************)
EXTENDS BranchIndex, SequencesExt

CONSTANTS Default, MaxJobs, MaxMishaps

ASSUME DefaultAssumption == Default \in Branches

VARIABLES
  jobs,      \* index_jobs, in the order of their rows
  waiting,   \* the queue of the project: [job, force]
  run,       \* what runs in the queue, and how far it is
  checkout,  \* the commit in the own directory of the project and in the shared one
  remote,    \* the newest commit of each branch on the remote, 0 when the branch is gone
  owed,      \* history: the remote's commit when a branch was last asked for
  mishaps

queueVars == <<jobs, waiting, run, checkout, remote, owed, mishaps, indexVars>>

Idle == [at |-> "idle", job |-> 0, force |-> FALSE, killed |-> FALSE,
         todo |-> {}, stale |-> {}, failed |-> FALSE, wrote |-> FALSE, left |-> {}]

NewRow(b) == [branch |-> b, status |-> "pending", begun |-> FALSE, commit |-> NoCommit,
              mem9 |-> "none", docs |-> "none"]

Dir(b) == IF b = Default THEN "own" ELSE "shared"
Head1(b) == IF remote[b] = 0 THEN NoCommit ELSE <<b, remote[b]>>

Branch == jobs[run.job].branch
Here == checkout[Dir(Branch)]

\* Rows of a branch, and the newest of them that ever ran.
RowsOf(rows, b) == {j \in DOMAIN rows : rows[j].branch = b /\ rows[j].status # "deleted"}
Begun(rows, b) == {j \in RowsOf(rows, b) : rows[j].begun}
Newest(S) == CHOOSE j \in S : \A k \in S : k <= j

Mishap == mishaps < MaxMishaps /\ mishaps' = mishaps + 1
NoMishap == mishaps' = mishaps

-----------------------------------------------------------------------------
(***************************************************************************)
(* drain: the next row that is still pending starts.  It is marked before  *)
(* the first await, so a request in between finds the queue busy.          *)
(***************************************************************************)
StartNext(rows, queue) ==
  LET ready == {i \in DOMAIN queue : rows[queue[i].job].status = "pending"}
  IN \/ ready = {} /\ run' = Idle /\ waiting' = <<>> /\ jobs' = rows
     \/ \E i \in ready :
          LET w == queue[i]
          IN /\ \A j \in ready : i <= j
             /\ run' = [Idle EXCEPT !.at = "look", !.job = w.job, !.force = w.force]
             /\ waiting' = SubSeq(queue, i + 1, Len(queue))
             /\ jobs' = [rows EXCEPT ![w.job].status = "cloning", ![w.job].begun = TRUE]

GoOn(next) == run' = next /\ UNCHANGED <<jobs, waiting>>
JobOver(rows) == StartNext(rows, waiting)

Waits(b) == \E i \in DOMAIN waiting : jobs[waiting[i].job].branch = b

\* Mutant: a request joins the job of its branch that runs, too.
RequestJoinsRunning(b, force) ==
  /\ owed' = [owed EXCEPT ![b] = remote[b]]
  /\ \/ /\ Waits(b)
        /\ waiting' = [i \in DOMAIN waiting |->
             IF jobs[waiting[i].job].branch = b
             THEN [waiting[i] EXCEPT !.force = @ \/ force] ELSE waiting[i]]
        /\ UNCHANGED <<jobs, run>>
     \/ /\ ~Waits(b) /\ run.job # 0 /\ Branch = b
        /\ UNCHANGED <<jobs, run, waiting>>
     \/ /\ ~Waits(b) /\ Len(jobs) < MaxJobs /\ (run.job # 0 => Branch # b)
        /\ LET rows == Append(jobs, NewRow(b))
               queue == Append(waiting, [job |-> Len(rows), force |-> force])
           IN IF run.at = "idle"
              THEN StartNext(rows, queue)
              ELSE jobs' = rows /\ waiting' = queue /\ UNCHANGED run
  /\ UNCHANGED <<checkout, remote, mishaps, indexVars>>

\* requestIndexing, by a push (which forces nothing) or by a person.
Request(b, force) ==
  /\ owed' = [owed EXCEPT ![b] = remote[b]]
  /\ \/ /\ Waits(b)
        /\ waiting' = [i \in DOMAIN waiting |->
             IF jobs[waiting[i].job].branch = b
             THEN [waiting[i] EXCEPT !.force = @ \/ force] ELSE waiting[i]]
        /\ UNCHANGED <<jobs, run>>
     \/ /\ ~Waits(b) /\ Len(jobs) < MaxJobs
        /\ LET rows == Append(jobs, NewRow(b))
               queue == Append(waiting, [job |-> Len(rows), force |-> force])
           IN IF run.at = "idle"
              THEN StartNext(rows, queue)
              ELSE jobs' = rows /\ waiting' = queue /\ UNCHANGED run
  /\ UNCHANGED <<checkout, remote, mishaps, indexVars>>

-----------------------------------------------------------------------------
(***************************************************************************)
(* The steps of a job.                                                     *)
(***************************************************************************)
\* Mutant: the newest job need only have ended, however its embedding went.
IndexedAlreadyUnembedded(j, b) ==
  LET before == Begun(jobs, b) \ {j}
      last == jobs[Newest(before)]
  IN /\ before # {}
     /\ last.status = "done"
     /\ last.commit # NoCommit /\ last.commit = Head1(b) /\ checkout[Dir(b)] = last.commit

\* findIndexedCommit: the branch's newest job, the remote and the checkout agree.
IndexedAlready(j, b) ==
  LET before == Begun(jobs, b) \ {j}
      last == jobs[Newest(before)]
  IN /\ before # {}
     /\ last.status = "done" /\ last.mem9 = "done"
     /\ last.commit # NoCommit /\ last.commit = Head1(b) /\ checkout[Dir(b)] = last.commit

Look ==
  LET last == jobs[Newest(Begun(jobs, Branch) \ {run.job})]
  IN /\ run.at = "look"
     /\ \/ /\ ~run.force /\ IndexedAlready(run.job, Branch)
           /\ JobOver([jobs EXCEPT ![run.job].status = "done", ![run.job].commit = last.commit,
                                   ![run.job].mem9 = "done", ![run.job].docs = last.docs])
           /\ NoMishap
        \/ /\ run.force \/ ~IndexedAlready(run.job, Branch)
           /\ GoOn([run EXCEPT !.at = IF Here = NoCommit THEN "clone" ELSE "fetch"])
           /\ NoMishap
        \/ /\ ~run.force /\ IndexedAlready(run.job, Branch)   \* the remote did not answer
           /\ GoOn([run EXCEPT !.at = "fetch"])
           /\ Mishap
     /\ UNCHANGED <<checkout, remote, owed, indexVars>>

(***************************************************************************)
(* The checkout is at a commit, which git is asked for and may not say;    *)
(* the analysis begins.  A directory a killed clone left is empty.         *)
(***************************************************************************)
CheckedOut(c, said) ==
  /\ checkout' = [checkout EXCEPT ![Dir(Branch)] = c]
  /\ jobs' = [jobs EXCEPT ![run.job].status = "analyzing", ![run.job].commit = IF said THEN c ELSE @]
  /\ run' = [run EXCEPT !.at = "analyze", !.killed = FALSE]
  /\ UNCHANGED waiting

\* Where the steps of an update leave the checkout when one of them is skipped.
Reached == {Here} \cup (IF remote[Branch] = 0 THEN {} ELSE {Head1(Branch)})

\* git fetch, checkout and clean in a checkout that is there.  A step that is
\* killed counts as one that worked: its exit code is null, taken for 0.  One
\* that cannot be started ends the job.
Fetch ==
  /\ run.at = "fetch"
  /\ \/ ~run.killed /\ remote[Branch] # 0 /\ CheckedOut(Head1(Branch), TRUE) /\ NoMishap
     \/ ~run.killed /\ remote[Branch] # 0 /\ CheckedOut(Head1(Branch), FALSE) /\ Mishap
     \/ run.killed /\ (\E c \in Reached : CheckedOut(c, TRUE)) /\ NoMishap
     \/ /\ \E c \in Reached : checkout' = [checkout EXCEPT ![Dir(Branch)] = c]
        /\ JobOver([jobs EXCEPT ![run.job].status = "error"]) /\ Mishap
     \/ /\ checkout' = [checkout EXCEPT ![Dir(Branch)] = NoCommit]
        /\ GoOn([run EXCEPT !.at = "clone", !.killed = FALSE])
        /\ IF run.killed \/ remote[Branch] = 0 THEN NoMishap ELSE Mishap
  /\ UNCHANGED <<remote, owed, indexVars>>

Clone ==
  /\ run.at = "clone"
  /\ \/ ~run.killed /\ remote[Branch] # 0 /\ CheckedOut(Head1(Branch), TRUE) /\ NoMishap
     \/ run.killed /\ CheckedOut(NoCommit, FALSE) /\ NoMishap
     \/ /\ ~run.killed /\ JobOver([jobs EXCEPT ![run.job].status = "error"])
        /\ IF remote[Branch] = 0 THEN NoMishap ELSE Mishap
        /\ UNCHANGED checkout
  /\ UNCHANGED <<remote, owed, indexVars>>

\* The analysis, which has a fallback: the job is done, and its embedding begins.
Analyze ==
  /\ run.at = "analyze"
  /\ jobs' = [jobs EXCEPT ![run.job].status = "done", ![run.job].mem9 = "embedding"]
  /\ run' = [run EXCEPT !.at = "open", !.killed = FALSE]
  /\ UNCHANGED <<waiting, checkout, remote, owed, mishaps, indexVars>>

Embedded(status) ==
  /\ jobs' = [jobs EXCEPT ![run.job].mem9 = status, ![run.job].docs = "building"]
  /\ run' = [Idle EXCEPT !.at = "docs", !.job = run.job]
  /\ UNCHANGED waiting

HasSources == ChunksOf(Here) # {}

\* embedProject until the collection is there.  A checkout without source files,
\* empty or not, is done with nothing looked at.  Without a model the embedding
\* fails; a collection that is refused or cannot be built ends the job.
Open ==
  /\ run.at = "open"
  /\ \/ ~HasSources /\ Embedded("done") /\ NoMishap /\ UNCHANGED indexVars
     \/ HasSources /\ Embedded("error") /\ Mishap /\ UNCHANGED indexVars
     \/ /\ HasSources /\ Refuses(Branch, TRUE)
        /\ JobOver([jobs EXCEPT ![run.job].mem9 = "error"]) /\ NoMishap /\ UNCHANGED indexVars
     \/ /\ HasSources
        /\ UNCHANGED indexVars \/ \E counted \in BOOLEAN : LoseCollection(Branch, counted)
        /\ JobOver([jobs EXCEPT ![run.job].mem9 = "error"]) /\ Mishap
     \/ /\ HasSources
        /\ \E counted \in BOOLEAN :
             /\ IF counted THEN NoMishap ELSE Mishap
             /\ OpenCollection(Branch, counted)
        /\ GoOn([run EXCEPT !.at = "list"])
  /\ UNCHANGED <<checkout, remote, owed>>

\* What is stored is compared with what the tree has.
List ==
  /\ run.at = "list"
  /\ \/ /\ GoOn([run EXCEPT !.at = "write", !.todo = ChunksOf(Here) \ Stored(Branch),
                            !.stale = Stored(Branch) \ ChunksOf(Here)])
        /\ NoMishap
     \/ Embedded("error") /\ Mishap
  /\ UNCHANGED <<checkout, remote, owed, indexVars>>

\* One batch: it is written, or some call failed and its chunks are only counted.
Write ==
  /\ run.at = "write" /\ run.todo # {}
  /\ LET t == CHOOSE x \in run.todo : TRUE
         rest == [run EXCEPT !.todo = @ \ {t}]
     IN \/ WriteChunk(Branch, t) /\ GoOn([rest EXCEPT !.wrote = TRUE]) /\ NoMishap
        \/ GoOn([rest EXCEPT !.failed = TRUE]) /\ Mishap /\ UNCHANGED indexVars
  /\ UNCHANGED <<checkout, remote, owed>>

\* Mutant: stale points are dropped though some chunk was not written.
FinishDropping ==
  /\ run.at = "write" /\ run.todo = {}
  /\ DropStale(Branch, Here, run.stale) /\ Embedded("done")
  /\ UNCHANGED <<checkout, remote, owed, mishaps>>

\* The stale points go, unless something failed; the status says error only
\* when nothing at all could be written.
Finish ==
  /\ run.at = "write" /\ run.todo = {}
  /\ \/ ~run.failed /\ DropStale(Branch, Here, run.stale) /\ Embedded("done") /\ NoMishap
     \/ /\ ~run.failed /\ run.stale # {}
        /\ KeepStale(Branch, Here, TRUE) /\ Embedded("done") /\ Mishap
     \/ /\ run.failed
        /\ KeepStale(Branch, Here, FALSE) /\ Embedded(IF run.wrote THEN "done" ELSE "error") /\ NoMishap
  /\ UNCHANGED <<checkout, remote, owed>>

\* The docs are built, or not: the job is over.
Docs ==
  /\ run.at = "docs"
  /\ \/ JobOver([jobs EXCEPT ![run.job].docs = "done"]) /\ NoMishap
     \/ JobOver([jobs EXCEPT ![run.job].docs = "error"]) /\ Mishap
  /\ UNCHANGED <<checkout, remote, owed, indexVars>>

-----------------------------------------------------------------------------
(***************************************************************************)
(* The cancel route takes the newest row that is not over.  One that waits *)
(* leaves the queue; of one that runs the row is closed and the process    *)
(* that git or the analysis runs in, if any, is killed.                    *)
(***************************************************************************)
Active == {j \in DOMAIN jobs : jobs[j].status \in {"pending", "cloning", "analyzing"}}

Without(queue, j) ==
  LET at == {i \in DOMAIN queue : queue[i].job = j}
  IN IF at = {} THEN queue ELSE RemoveAt(queue, CHOOSE i \in at : TRUE)

Cancel ==
  /\ Active # {} /\ Mishap
  /\ LET j == Newest(Active)
     IN /\ jobs' = [jobs EXCEPT ![j].status = "error"]
        /\ owed' = [owed EXCEPT ![jobs[j].branch] = 0]
        /\ waiting' = Without(waiting, j)
        /\ run' = IF run.job = j /\ run.at \in {"fetch", "clone", "analyze"}
                  THEN [run EXCEPT !.killed = TRUE] ELSE run
  /\ UNCHANGED <<checkout, remote, indexVars>>

\* The process ends, and recoverInterruptedJobs closes what it left open.
Recovered(row) ==
  [row EXCEPT !.status = IF @ \in {"pending", "cloning", "analyzing"} THEN "error" ELSE @,
              !.mem9 = IF @ = "embedding" THEN "error" ELSE @,
              !.docs = IF @ = "building" THEN "error" ELSE @]

Restart ==
  /\ Mishap
  /\ jobs' = [j \in DOMAIN jobs |-> Recovered(jobs[j])]
  /\ run' = Idle /\ waiting' = <<>>
  /\ owed' = [b \in Branches |-> 0]
  /\ UNCHANGED <<checkout, remote, indexVars>>

-----------------------------------------------------------------------------
(***************************************************************************)
(* The sweep, in the place of a job.  It may drop any branch that has      *)
(* rows, is not the default one, nor checked out in the project's own      *)
(* directory: one gone from the remote, merged, or idle for too long, as   *)
(* far as the remote could be asked.                                       *)
(***************************************************************************)
Prunable ==
  {b \in Branches : RowsOf(jobs, b) # {} /\ b # Default
                    /\ (checkout["own"] # NoCommit => checkout["own"][1] # b)}

\* runWhenQueueIdle.
Sweep ==
  /\ run.at = "idle"
  /\ \E left \in SUBSET Prunable :
       left # {} /\ run' = [Idle EXCEPT !.at = "sweep", !.left = left]
  /\ UNCHANGED <<jobs, waiting, checkout, remote, owed, mishaps, indexVars>>

\* The points go; when the call fails the rows stay, whether Qdrant did it or not.
SweepPoints ==
  /\ run.at = "sweep" /\ run.left # {}
  /\ LET b == CHOOSE x \in run.left : TRUE
     IN \/ /\ DropBranch(b) /\ NoMishap
           /\ run' = [run EXCEPT !.at = "sweep rows"]
        \/ /\ run' = [run EXCEPT !.left = @ \ {b}] /\ Mishap
           /\ DropBranch(b) \/ UNCHANGED indexVars
  /\ UNCHANGED <<jobs, waiting, checkout, remote, owed>>

\* The rows that are not pending go: a request that waits behind the sweep keeps its own.
SweepRows ==
  /\ run.at = "sweep rows"
  /\ LET b == CHOOSE x \in run.left : TRUE
     IN /\ jobs' = [j \in DOMAIN jobs |->
                      IF jobs[j].branch = b /\ jobs[j].status # "pending"
                      THEN [NewRow(b) EXCEPT !.status = "deleted"] ELSE jobs[j]]
        /\ run' = [run EXCEPT !.at = "sweep", !.left = @ \ {b}]
        /\ short' = short \ {b}
  /\ UNCHANGED <<waiting, checkout, remote, owed, mishaps, collection, points, whole>>

\* Mutant: the queue is given up with the requests that came during the sweep.
SweepEndsAlone ==
  /\ run.at = "sweep" /\ run.left = {}
  /\ run' = Idle /\ waiting' = <<>>
  /\ UNCHANGED <<jobs, checkout, remote, owed, mishaps, indexVars>>

\* Nobody needs the shared checkout any more, or somebody does; what came meanwhile starts.
SweepEnds ==
  /\ run.at = "sweep" /\ run.left = {}
  /\ checkout' = IF \A b \in Branches \ {Default} : RowsOf(jobs, b) = {}
                 THEN [checkout EXCEPT !["shared"] = NoCommit] ELSE checkout
  /\ StartNext(jobs, waiting)
  /\ UNCHANGED <<remote, owed, mishaps, indexVars>>

-----------------------------------------------------------------------------
\* The repository: a branch moves on, or goes.
Push(b) ==
  /\ remote[b] # 0 /\ remote[b] + 1 \in Commits
  /\ remote' = [remote EXCEPT ![b] = @ + 1]
  /\ UNCHANGED <<jobs, waiting, run, checkout, owed, mishaps, indexVars>>

Gone(b) ==
  /\ b # Default /\ remote[b] # 0 /\ Mishap
  /\ remote' = [remote EXCEPT ![b] = 0]
  /\ UNCHANGED <<jobs, waiting, run, checkout, owed, indexVars>>

\* The embedding model is switched for one with vectors of another size.
ModelSwitched ==
  /\ collection \in {"dense", "hybrid"} /\ Mishap
  /\ collection' = "other"
  /\ UNCHANGED <<jobs, waiting, run, checkout, remote, owed, points, whole, short>>

(***************************************************************************)
(* A project starts with nothing, or with its default branch indexed in a  *)
(* collection of the time before hybrid search.                            *)
(***************************************************************************)
QueueInit ==
  /\ waiting = <<>> /\ run = Idle /\ mishaps = 0 /\ short = {}
  /\ remote = [b \in Branches |-> 1]
  /\ owed = [b \in Branches |-> 0]
  /\ \/ /\ jobs = <<>> /\ collection = "none" /\ points = {}
        /\ checkout = [d \in {"own", "shared"} |-> NoCommit]
        /\ whole = [b \in Branches |-> NoCommit]
     \/ /\ jobs = <<[NewRow(Default) EXCEPT !.status = "done", !.begun = TRUE, !.commit = <<Default, 1>>,
                                            !.mem9 = "done", !.docs = "done"]>>
        /\ collection = "dense" /\ points = PointsOf(Default, Tree[Default][1])
        /\ checkout = [d \in {"own", "shared"} |-> IF d = "own" THEN <<Default, 1>> ELSE NoCommit]
        /\ whole = [b \in Branches |-> IF b = Default THEN <<Default, 1>> ELSE NoCommit]

QueueStep ==
  \/ Look \/ Fetch \/ Clone \/ Analyze \/ Open \/ List \/ Write \/ Finish \/ Docs
  \/ SweepPoints \/ SweepRows \/ SweepEnds

QueueNext ==
  \/ QueueStep
  \/ Cancel \/ Restart \/ Sweep \/ ModelSwitched
  \/ \E b \in Branches : Push(b) \/ Gone(b) \/ \E force \in BOOLEAN : Request(b, force)

QueueSpec == QueueInit /\ [][QueueNext]_queueVars

\* The process runs, and what it awaits ends.
QueueFairness == WF_queueVars(QueueStep)

-----------------------------------------------------------------------------
\* Skipping a commit that is indexed is safe: a branch whose newest job ran to the end, or found
\* nothing to do, holds the chunks of that job's commit and no others, whatever other branches,
\* sweeps, cancelled jobs and restarts did in between.  Two kinds of branches are excepted, of which
\* the code's own status says too much: those a failure left short, and those whose commit has no
\* source files, where embedProject leaves the points of the commit before.
IndexedBranchIsWhole ==
  \A b \in Branches :
    LET rows == Begun(jobs, b)
        last == jobs[Newest(rows)]
    IN rows # {} /\ last.status = "done" /\ last.mem9 = "done" /\ ChunksOf(last.commit) # {} /\ b \notin short
         => Stored(b) = ChunksOf(last.commit)

\* Search never sees a branch half empty: from the first time it is whole, a branch has all chunks
\* of the commit it was last whole at, though writes and deletes fail on the way to the next one.
NeverHalfEmpty ==
  \A b \in Branches : ChunksOf(whole[b]) \subseteq Stored(b)

\* No push is lost on a busy queue: when it is empty, a branch that was asked for has been looked
\* at no earlier than the commit the remote had then, or its newest job says what went wrong.
NoPushLost ==
  run.at = "idle" =>
    \A b \in Branches :
      LET last == jobs[Newest(Begun(jobs, b))]
      IN owed[b] # 0 /\ Begun(jobs, b) # {} =>
           \/ last.status = "error" \/ last.commit = NoCommit
           \/ last.commit[1] = b /\ last.commit[2] >= owed[b]

\* The queue always comes to rest, and then no row says that something waits or runs: a job that
\* waits behind another, or behind a sweep, is started, and a restart leaves nothing open.
QueueComesToRest ==
  []<>(run.at = "idle" /\ \A j \in DOMAIN jobs :
                            /\ jobs[j].status \in {"done", "error", "deleted"}
                            /\ jobs[j].mem9 # "embedding" /\ jobs[j].docs # "building")

=============================================================================
