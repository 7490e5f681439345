------------------------------ MODULE MCIngest ------------------------------
(***************************************************************************)
(* Small instances of Ingest: one pool, buckets two blocks wide.           *)
(***************************************************************************)
EXTENDS Ingest

CONSTANTS pool, loop, command
=============================================================================
