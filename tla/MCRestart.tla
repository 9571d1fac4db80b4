----------------------------- MODULE MCRestart ------------------------------
(***************************************************************************)
(* One worker process and one session without a worker; leases that run    *)
(* out, connections that come and go, restarts of both sides.              *)
(***************************************************************************)
EXTENDS Conductor, TLC

CONSTANTS t1, t2, worker, session, r1, f1

MCKind   == [t \in Tasks |-> "work"]
MCParent == [t \in Tasks |-> NoTask]
MCAbove  == [t \in Tasks |-> {}]
MCRank   == t1 :> 1 @@ t2 :> 2
MCDeps   == [t \in Tasks |-> {}]
MCCanRun == [t \in Tasks |-> {worker} \X Routes]
MCFiles  == [t \in Tasks |-> {}]
MCChain  == [t \in Tasks |-> <<r1>>]
MCPullableBy == [t \in Tasks |-> {worker, session}]
MCBatches    == {{t1, t2}}

\* In MCLive one task may carry the flag of a pull-mode claim into a later attempt.
MCFlagged == t1 :> {worker} @@ t2 :> {}

=============================================================================
