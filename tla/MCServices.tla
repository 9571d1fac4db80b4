----------------------------- MODULE MCServices ------------------------------
(***************************************************************************)
(* Services of the hub beside the conductor, which share no state with it  *)
(* nor with each other: one run checks them side by side.  A behaviour is  *)
(* that of the index queue of a project, of the gateway with a search and  *)
(* a re-index, or of the gateway with a chat.                              *)
(***************************************************************************)
EXTENDS IndexQueue, Gateway

CONSTANTS main, feature, x, y, z, search, reindex, chat, s1, s2

VARIABLE part

MCTree == (main :> <<{x, y}, {y, z}>>) @@ (feature :> <<{x}, {}>>)

MCSize == (search :> 2) @@ (reindex :> 1) @@ (chat :> 1)
MCCallers ==
  {<<r, i, n, k>> : r \in Requests, i \in 1..Cardinality(Slots), n \in 0..Retries, k \in 0..2}
MCBackground == {c \in MCCallers : c[1] = reindex}

Present == CASE part = "embeddings" -> {search, reindex}
             [] part = "chat" -> {chat}
             [] OTHER -> {}

ServicesInit ==
  /\ part \in {"index", "embeddings", "chat"}
  /\ QueueInit /\ GatewayInit
  /\ part # "index" => jobs = <<>>

ServicesNext ==
  /\ \/ part = "index" /\ QueueNext /\ UNCHANGED gatewayVars
     \/ /\ part # "index" /\ GatewayNext /\ UNCHANGED queueVars
        /\ \A r \in Requests \ Present : UNCHANGED req[r]
  /\ UNCHANGED part

ServicesSpec ==
  /\ ServicesInit /\ [][ServicesNext]_<<part, queueVars, gatewayVars>>
  /\ QueueFairness /\ GatewayFairness

=============================================================================
