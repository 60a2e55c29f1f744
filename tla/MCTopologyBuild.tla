-------------------------- MODULE MCTopologyBuild --------------------------
(* Instances of TopologyBuild for TLC. *)
EXTENDS TopologyBuild

\* Two namespaces; or two clusters of a namespace, which the key leaves out.
Namespaces == {"prod", "test"}
NamespaceKeys == [p \in Namespaces |-> p]
ClusterKeys == [p \in Namespaces |-> "all"]
=============================================================================
