--------------------------- MODULE CompileService ---------------------------
(***************************************************************************)
(* What the BEAM compiler subprocess promises to the Gleam side that       *)
(* drives it (beam_compiler.gleam): it accepts compile commands, compiles  *)
(* them on several schedulers, and prints one result line per command, in  *)
(* whatever order the workers finish.  The subprocess itself, the actors   *)
(* of gleepack_compiler.erl, is module BeamCompiler, which implements this *)
(* one.                                                                    *)
(***************************************************************************)

CONSTANTS Source,   \* .erl and .ex files the compiler can be asked for
          Module,   \* names of the modules (.beam files) it can write
          Emits,    \* Emits[f]: the modules source f compiles to
          Broken,   \* sources whose compilation may fail
          MayCrash  \* may the subprocess die before its stdin is closed?

ConstantsOK ==
  /\ Emits \in [Source -> SUBSET Module]
  /\ Broken \subseteq Source
  /\ MayCrash \in BOOLEAN

VARIABLES outstanding,  \* sources sent to the subprocess and not answered
          answered,     \* result lines printed and not read by gleepack
          beams,        \* modules whose up-to-date .beam file is on disk
          alive         \* the subprocess has not died

vars == <<outstanding, answered, beams, alive>>

\* A result line: {ok, Modules} or {error, File}.
Line == [file : Source, ok : BOOLEAN]

\* list.length(compiled) for a chunk of lines, as handle_lines adds it up.
Files(S) == {l.file : l \in S}
Compiled(S) == UNION {Emits[l.file] : l \in {k \in S : k.ok}}
Failed(S) == Files({l \in S : ~l.ok})

Init ==
  /\ outstanding = {}
  /\ answered = {}
  /\ beams \in SUBSET Module
  /\ alive = TRUE

Send(fs) ==
  /\ outstanding' = outstanding \cup fs
  /\ UNCHANGED <<answered, beams, alive>>

\* A worker compiled f, wrote its modules and its result line was printed.
Compile(f) ==
  /\ alive
  /\ f \in outstanding
  /\ outstanding' = outstanding \ {f}
  /\ answered' = answered \cup {[file |-> f, ok |-> TRUE]}
  /\ beams' = beams \cup Emits[f]
  /\ UNCHANGED alive

\* A worker failed on f: a compile error, or a module that was written could
\* not be stripped.
Fail(f) ==
  /\ alive
  /\ f \in outstanding \cap Broken
  /\ outstanding' = outstanding \ {f}
  /\ answered' = answered \cup {[file |-> f, ok |-> FALSE]}
  /\ \E ms \in SUBSET Emits[f] : beams' = beams \cup ms
  /\ UNCHANGED alive

\* gleepack reads one chunk of whole lines.
Take(S) ==
  /\ answered' = answered \ S
  /\ UNCHANGED <<outstanding, beams, alive>>

Crash ==
  /\ MayCrash
  /\ alive
  /\ alive' = FALSE
  /\ UNCHANGED <<outstanding, answered, beams>>

Work == \E f \in Source : Compile(f) \/ Fail(f)

\* A client may send any source that is not under way, and read any lines.
Next ==
  \/ \E f \in Source \ (outstanding \cup Files(answered)) : Send({f})
  \/ Work
  \/ \E S \in SUBSET answered : Take(S)
  \/ Crash

Fairness == \A f \in Source : WF_vars(Compile(f) \/ Fail(f))

Spec == Init /\ [][Next]_vars /\ Fairness

TypeOK ==
  /\ outstanding \in SUBSET Source
  /\ answered \in SUBSET Line
  /\ beams \in SUBSET Module
  /\ alive \in BOOLEAN
=============================================================================
