--------------------------- MODULE MCBeamCompiler ---------------------------
(* Three files of two packages and two workers: a command has to wait for  *)
(* a worker, and results arrive between commands.                          *)
EXTENDS BeamCompiler

CONSTANTS f1, f2, f3, d1, d2

MCSource == {f1, f2, f3}
OneModuleEach == [f \in MCSource |-> {f}]
MCHome == [f \in MCSource |-> IF f = f3 THEN d2 ELSE d1]
=============================================================================
