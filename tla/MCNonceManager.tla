--------------------------- MODULE MCNonceManager ---------------------------
(***************************************************************************)
(* Small instances of NonceManager: the supervisor's detect stage (hot)    *)
(* and recovery stage share one manager, the attest-pending command (cli)  *)
(* signs with the same key from a process of its own.                      *)
(***************************************************************************)
EXTENDS NonceManager, TLC

CONSTANTS hot, recovery, cli, supervisor, command

MCProcessOf == (hot :> supervisor) @@ (recovery :> supervisor) @@ (cli :> command)
=============================================================================
