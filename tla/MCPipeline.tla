----------------------------- MODULE MCPipeline -----------------------------
(* Instances of Pipeline for TLC. *)
EXTENDS Pipeline, TLC

CONSTANTS r1, r2, boss, ann

\* The routes that read, write or refuse by what they find, called by everyone.
OpenRoutes == Writes \cup {"account"}

\* Every route called from one slot, those that change nothing by the administrator
\* or nobody; from the other the deletion of roles behind its back.
AllAndDeletions ==
  (r1 :> ([route : OpenRoutes, who : {boss, ann, None}]
            \cup [route : Routes \ OpenRoutes, who : {boss, None}]))
  @@ (r2 :> {[route |-> "deleteRole", who |-> boss]})

\* Production, and a demonstration.
ProdAndDemo == {[environment |-> "prod", demo |-> FALSE], [environment |-> "dev", demo |-> TRUE]}
=============================================================================
