---------------------------- MODULE MCSpawnPipes ----------------------------
(* Three ports, opened one after the other, closed in any order.           *)
EXTENDS SpawnPipes, TLC

CONSTANTS p1, p2, p3, emulator

Ports == {p1, p2, p3}
=============================================================================
