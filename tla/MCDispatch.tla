----------------------------- MODULE MCDispatch -----------------------------
(***************************************************************************)
(* Loose tasks: no tree, no gates.  Two tasks on overlapping paths, two    *)
(* routes and two workers: one runs both routes, the other only the        *)
(* second.  Failures, quotas, refusals, and a lead that rewrites the route *)
(* chain.                                                                  *)
(***************************************************************************)
EXTENDS Conductor, TLC

CONSTANTS t1, t2, both, half, r1, r2, dir, file

MCKind   == [t \in Tasks |-> "work"]
MCParent == [t \in Tasks |-> NoTask]
MCAbove  == [t \in Tasks |-> {}]
MCRank   == t1 :> 1 @@ t2 :> 2
MCUnder  == {<<file, dir>>}
MCDeps   == [t \in Tasks |-> {}]
MCCanRun == [t \in Tasks |-> {<<both, r1>>, <<both, r2>>, <<half, r2>>}]
MCFiles  == t1 :> {dir} @@ t2 :> {file}
MCChain  == [t \in Tasks |-> <<r1, r2>>]
MCPullableBy   == t1 :> {} @@ t2 :> {half}
MCBatches      == {{t1}, {t2}}
MCChainPatches == {<<r2, r1>>}

\* Bounds: one refusal, one quota and one worker that calls itself busy stand at a time.
OneOfEach ==
  /\ Cardinality({x \in Tasks \X Agents : x[2] \in declined[x[1]]}) <= 1
  /\ Cardinality({p \in Agents \X Routes : quota[p] # "none"}) <= 1
  /\ stat[both] = "idle"

=============================================================================
