------------------------- MODULE MCProjectCompiler -------------------------
(* A small project: two Gleam packages whose files are in the BEAM         *)
(* compiler together, an interface-only package without artefacts, a       *)
(* Rebar3 package that needs them, a Mix package, and the project itself   *)
(* at the end.                                                             *)
EXTENDS ProjectCompiler

CONSTANTS g1, g2, g3, r1, g4, m1, f1, f2, f3, f4, n1, n2

MCDeps == <<g1, g2, g3, r1, m1, g4>>
\* Every Gleam package but the last is followed by one that waits for it.
SoloDeps == <<g1, r1, g2, m1, g3>>
MCKind == [p \in Package |->
             CASE p = r1 -> "rebar3" [] p = m1 -> "mix" [] OTHER -> "gleam"]
MCArtefacts == [p \in Package |->
                  CASE p = g1 -> {f1, f2} [] p = g2 -> {f3}
                    [] p = g4 -> {f4} [] OTHER -> {}]
MCSource == {f1, f2, f3, f4}

\* An .erl file compiles to exactly one module, named like the file.
MCModule == MCSource
OneModuleEach == [f \in MCSource |-> {f}]

\* f3 is an .ex file that defines two modules.
ElixirModule == MCSource \cup {n1, n2}
TwoModules == [f \in MCSource |-> IF f = f3 THEN {n1, n2} ELSE {f}]
=============================================================================
