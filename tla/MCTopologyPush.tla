--------------------------- MODULE MCTopologyPush ---------------------------
(* Instances of TopologyPush for TLC. *)
EXTENDS TopologyPush, TLC

\* All clusters or one; the poller never asks for one.
Scopes == {"all", "cluster"}
AsAsked == [k \in Scopes |-> k]
WithoutCluster == [k \in Scopes |-> "all"]

\* Clients are alike, and so are nodes.
Symmetry ==
    {[x \in Client \cup Node |-> IF x \in Client THEN p[x] ELSE q[x]] :
        p \in Permutations(Client), q \in Permutations(Node)}
=============================================================================
