---------------------------- MODULE MCBuildRuns ----------------------------
(* The project of MCProjectCompiler, built more than once.                 *)
EXTENDS MCProjectCompiler, BuildRuns
=============================================================================
