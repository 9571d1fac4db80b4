----------------------------- MODULE BranchIndex -----------------------------
(***************************************************************************)
(* The vectors of a project's branches (dashboard-api,                     *)
(* services/mem9-embedder.ts) in one Qdrant collection.  A point is a chunk *)
(* of a branch: the id is derived from the two, so writing it again        *)
(* changes nothing.  Embedding a branch writes the chunks that are not      *)
(* stored yet and then deletes those the tree no longer has; every call to *)
(* the model or to Qdrant may fail.                                        *)
(*                                                                         *)
(* The steps are operators on the record of the embedding that runs, for   *)
(* IndexQueue, which says when one runs.                                   *)
(***************************************************************************)
EXTENDS Naturals, FiniteSets

CONSTANTS
  Branches,
  Chunks,
  Commits,      \* commits of a branch, numbered in the order of the pushes
  Tree          \* Tree[b][n]: the chunks of commit n of branch b

ASSUME TreeAssumption ==
  /\ Commits \subseteq Nat \ {0} /\ 1 \in Commits
  /\ Tree \in [Branches -> [Commits -> SUBSET Chunks]]

VARIABLES
  collection,   \* "none", one without ("dense") or with ("hybrid") sparse vectors, or one whose
                \* vectors are of another size than the model's ("other")
  points,       \* pairs of a branch and a chunk
  whole,        \* history: the commit whose chunks a branch was last seen to hold, all of them
  short         \* history: branches that lack chunks after a failure

indexVars == <<collection, points, whole, short>>

NoCommit == <<>>
ChunksOf(c) == IF c = NoCommit THEN {} ELSE Tree[c[1]][c[2]]
Stored(b) == {t \in Chunks : <<b, t>> \in points}
PointsOf(b, chunks) == {b} \X chunks
OfOthers(b) == {p \in points : p[1] # b}

(***************************************************************************)
(* ensureCollection: a collection without sparse vectors, or with vectors  *)
(* of another size, is built again when no other branch has points in it,  *)
(* which is also what a count that fails is taken for.  One of another     *)
(* size that others have points in is refused.                             *)
(***************************************************************************)
MayRebuild(b, counted) == counted => OfOthers(b) = {}
Rebuilds(b, counted) == collection \in {"dense", "other"} /\ MayRebuild(b, counted)
Refuses(b, counted)  == collection = "other" /\ ~MayRebuild(b, counted)

\* The collection is deleted, with all that is in it.
Emptied(b, counted) ==
  /\ points' = {}
  /\ whole' = [x \in Branches |-> NoCommit]
  /\ short' = IF counted THEN short ELSE {x \in Branches : x # b /\ Stored(x) # {}} \cup short

OpenCollection(b, counted) ==
  /\ ~Refuses(b, counted)
  /\ IF Rebuilds(b, counted) THEN collection' = "hybrid" /\ Emptied(b, counted)
     ELSE /\ collection' = IF collection = "none" THEN "hybrid" ELSE collection
          /\ UNCHANGED <<points, whole, short>>

\* It is deleted to be built again, and cannot be created.
LoseCollection(b, counted) ==
  Rebuilds(b, counted) /\ collection' = "none" /\ Emptied(b, counted)

\* One chunk of a batch is written.
WriteChunk(b, t) ==
  /\ points' = points \cup {<<b, t>>}
  /\ UNCHANGED <<collection, whole, short>>

\* The end of an embedding of commit c: nothing failed, and the stale points go.
DropStale(b, c, stale) ==
  /\ points' = points \ PointsOf(b, stale)
  /\ whole' = [whole EXCEPT ![b] = c]
  /\ short' = short \ {b}
  /\ UNCHANGED collection

\* The same, when some chunk was not written, or the stale points could not be deleted.
KeepStale(b, c, written) ==
  /\ whole' = IF written THEN [whole EXCEPT ![b] = c] ELSE whole
  /\ short' = short \cup {b}
  /\ UNCHANGED <<collection, points>>

\* deleteByFilter on a branch, and what is known of the branch once its rows are gone too.
DropBranch(b) ==
  /\ points' = points \ PointsOf(b, Chunks)
  /\ whole' = [whole EXCEPT ![b] = NoCommit]
  /\ short' = short \cup {b}
  /\ UNCHANGED collection

=============================================================================
