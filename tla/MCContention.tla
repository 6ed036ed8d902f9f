---------------------------- MODULE MCContention ----------------------------
(* Small instances of Contention.                                          *)
EXTENDS Contention
=============================================================================
