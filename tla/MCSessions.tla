----------------------------- MODULE MCSessions ------------------------------
(* Small instances of Sessions for TLC. *)
EXTENDS SessionsProperties, TLC

Symmetric == Permutations(Requests)

=============================================================================
