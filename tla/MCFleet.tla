------------------------------ MODULE MCFleet -------------------------------
(***************************************************************************)
(* One worker process and a hub with a task for it.                        *)
(***************************************************************************)
EXTENDS Fleet, TLC

CONSTANTS t1, worker, r1

MCKind   == [t \in Tasks |-> "work"]
MCParent == [t \in Tasks |-> NoTask]
MCAbove  == [t \in Tasks |-> {}]
MCRank   == [t \in Tasks |-> IF t = t1 THEN 1 ELSE 2]
MCDeps   == [t \in Tasks |-> {}]
MCCanRun == [t \in Tasks |-> {worker} \X Routes]
MCFiles  == [t \in Tasks |-> {}]
MCChain  == [t \in Tasks |-> <<r1>>]
MCPullableBy == [t \in Tasks |-> {}]
MCBatches    == {Tasks}

\* Bound: leases expire, and ticks run, only while nothing has failed.
FewFaults ==
  (\E t \in Tasks : lease[t] = "expired") \/ stage \in {"leases", "offline"} =>
    \A w \in Workers : faults[w] = 0

=============================================================================
