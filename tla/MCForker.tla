------------------------------ MODULE MCForker ------------------------------
(* Two ports, with and without exit_status, and two pids: two children at  *)
(* a time, or the second with the pid of the first.                        *)
EXTENDS Forker

CONSTANTS p1, p2
=============================================================================
