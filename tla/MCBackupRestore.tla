--------------------------- MODULE MCBackupRestore ---------------------------
(* A backup and the restore of it, one of them cancelled, two profiles.    *)
EXTENDS BackupRestore
==============================================================================
