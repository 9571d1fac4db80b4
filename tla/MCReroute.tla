----------------------------- MODULE MCReroute ------------------------------
(***************************************************************************)
(* A small plan whose lead keeps changing what its tasks wait for.         *)
(***************************************************************************)
EXTENDS Conductor, TLC

CONSTANTS root, w1, w2, w3, gate, a1, r1

MCKind   == root :> "group" @@ gate :> "gate" @@ [t \in Tasks |-> "work"]
MCParent == w1 :> root @@ w2 :> root @@ [t \in Tasks |-> NoTask]
MCAbove  == w1 :> {root} @@ w2 :> {root} @@ [t \in Tasks |-> {}]
MCRank   == root :> 1 @@ w1 :> 2 @@ w2 :> 3 @@ gate :> 4 @@ w3 :> 5
MCDeps   == w2 :> {w1} @@ w3 :> {root} @@ gate :> {w2} @@ [t \in Tasks |-> {}]
MCCanRun == [t \in Tasks |-> Agents \X Routes]
MCFiles  == [t \in Tasks |-> {}]
MCChain  == [t \in Tasks |-> <<r1>>]
MCPullableBy == [t \in Tasks |-> Agents]
MCBatches    == {Tasks}
MCDepPatches == {{}, {w2}, {w3}, {root}}

=============================================================================
