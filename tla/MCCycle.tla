------------------------------ MODULE MCCycle -------------------------------
(***************************************************************************)
(* Two tasks, the second waiting for the first, and a gate on each.        *)
(***************************************************************************)
EXTENDS Conductor, TLC

CONSTANTS w1, w2, first, second, a1, r1

MCKind   == [t \in Tasks |-> IF t \in {first, second} THEN "gate" ELSE "work"]
MCParent == [t \in Tasks |-> NoTask]
MCAbove  == [t \in Tasks |-> {}]
MCRank   == w1 :> 1 @@ w2 :> 2 @@ first :> 3 @@ second :> 4
MCDeps   == w1 :> {} @@ w2 :> {w1} @@ first :> {w1} @@ second :> {w2}
MCCanRun == [t \in Tasks |-> Agents \X Routes]
MCFiles  == [t \in Tasks |-> {}]
MCChain  == [t \in Tasks |-> <<r1>>]
MCPullableBy == [t \in Tasks |-> Agents]
MCBatches    == {Tasks}
MCDepPatches == {{w1}, {w2}}

=============================================================================
