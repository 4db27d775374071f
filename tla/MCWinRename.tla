----------------------------- MODULE MCWinRename ----------------------------
(* Two threads, two folders with two names each.                           *)
EXTENDS WinRename, TLC

CONSTANTS t1, t2, f, g, a, b

Threads == {t1, t2}
Folders == {f, g}
Names == {a, b}
Symmetry == Permutations(Threads) \cup Permutations(Folders) \cup Permutations(Names)
=============================================================================
