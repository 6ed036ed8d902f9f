------------------------------ MODULE MCBackup ------------------------------
(* Small instances of Backup.                                              *)
EXTENDS Backup
=============================================================================
