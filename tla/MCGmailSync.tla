---------------------------- MODULE MCGmailSync ------------------------------
(* Small instances of GmailSync for TLC. *)
EXTENDS GmailSyncProperties, TLC

\* One message before the connection; message 1 is listed before it.
OneMessage == <<[message |-> 2, kind |-> "changed"]>>

Symmetric == Permutations(Procs)

=============================================================================
