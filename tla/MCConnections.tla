---------------------------- MODULE MCConnections ----------------------------
(* Small instances of Connections for TLC. *)
EXTENDS ConnectionsProperties, TLC

Symmetric == Permutations(Callbacks) \cup Permutations(Workers)

=============================================================================
