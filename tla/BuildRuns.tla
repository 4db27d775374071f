----------------------------- MODULE BuildRuns -----------------------------
(***************************************************************************)
(* Several builds of the same project, one after the other: what one run   *)
(* of the pipeline leaves on disk is what package_cache.check believes in  *)
(* the next.                                                               *)
(***************************************************************************)
EXTENDS ProjectCompiler

CONSTANTS MaxRuns,     \* bound on the number of builds
          Interrupted  \* may a build be killed, or restarted too early?

ASSUME RunsAssumption ==
  /\ MaxRuns \in Nat \ {0}
  /\ Interrupted \in BOOLEAN

VARIABLE runs  \* builds started so far

\* release_compiler.build always stops the BEAM compiler, which answers what
\* it was sent before it exits (gleepack_compiler:drain).  An interrupted
\* build leaves any part of that undone.
LeftOver == IF Interrupted THEN SUBSET outstanding ELSE {outstanding}

NewRun ==
  /\ runs < MaxRuns
  /\ ~Interrupted => phase \in Finals
  /\ runs' = runs + 1
  /\ \E fs \in LeftOver :
       beams' = beams \cup UNION {Emits[f] : f \in fs \ Broken}
  /\ outstanding' = {} /\ answered' = {} /\ alive' = TRUE
  /\ next' = 1
  /\ inFlight' = None /\ proc' = "none"
  /\ pending' = <<>> /\ credit' = 0
  /\ phase' = "start"
  /\ UNCHANGED disk

RunsInit == Init /\ runs = 1
RunsNext == NewRun \/ (Next /\ UNCHANGED runs)
RunsSpec == RunsInit /\ [][RunsNext]_<<vars, runs>>

\* "Return whether a package has a complete matching cache entry": a Hit is
\* only ever given for a package whose .app and .beam files are all there,
\* whatever happened to the builds before.
HitMeansComplete == CanStart /\ IsGleam(head) /\ Hit(head) => InPlace(head)
=============================================================================
