---------------------------- MODULE MCDriveSync ------------------------------
(* Small instances of DriveSync for TLC. *)
EXTENDS DriveSyncProperties, TLC

\* A folder before a file at the top, a file in the folder, and a source that
\* was removed before the scan.
FolderTree == 1 :> Top @@ 2 :> Top @@ 3 :> Top @@ 4 :> 1 @@ 5 :> Gone

\* A folder with a folder in it, a file in each of them, and a source that was
\* removed before the scan.
NestedTree == 1 :> Top @@ 2 :> 1 @@ 3 :> 1 @@ 4 :> 2 @@ 5 :> Gone

Symmetric == Permutations(Procs)

=============================================================================
