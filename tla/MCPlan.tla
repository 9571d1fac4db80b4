------------------------------- MODULE MCPlan -------------------------------
(***************************************************************************)
(* A plan: a root group over a nested group, a task that waits for it and  *)
(* an early gate; a second gate over the work of both groups, and a task   *)
(* behind the plan.                                                        *)
(***************************************************************************)
EXTENDS Conductor, TLC

CONSTANTS root, sub, w1, w2, early, late, w3, a1, r1

MCKind   == root :> "group" @@ sub :> "group" @@ early :> "gate" @@ late :> "gate"
            @@ [t \in Tasks |-> "work"]
MCParent == sub :> root @@ w1 :> sub @@ w2 :> root @@ early :> root @@ [t \in Tasks |-> NoTask]
MCAbove  == sub :> {root} @@ w1 :> {sub, root} @@ w2 :> {root} @@ early :> {root}
            @@ [t \in Tasks |-> {}]
MCRank   == root :> 1 @@ sub :> 2 @@ w1 :> 3 @@ w2 :> 4 @@ early :> 5 @@ late :> 6 @@ w3 :> 7
MCDeps   == w2 :> {sub} @@ early :> {w1} @@ late :> {w1, w2} @@ w3 :> {root}
            @@ [t \in Tasks |-> {}]
MCCanRun == [t \in Tasks |-> Agents \X Routes]
MCFiles  == [t \in Tasks |-> {}]
MCChain  == [t \in Tasks |-> <<r1>>]
MCPullableBy  == [t \in Tasks |-> Agents]

\* The plan in one call, and the task behind it in a later one.
MCBatches     == {Tasks \ {w3}, {w3}}

\* What a reroute may make a task wait for.
MCDepPatches  == {{}, {w1}, {w2}}

=============================================================================
