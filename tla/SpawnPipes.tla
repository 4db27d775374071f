----------------------------- MODULE SpawnPipes -----------------------------
(***************************************************************************)
(* Who holds the ends of the pipes spawn_start makes.  None of them is     *)
(* close-on-exec, so a child starts with a copy of everything the emulator *)
(* has open at that moment, less the two ends its own file actions close;  *)
(* dup2 onto 0, 1, 3 or 4 only gives a number to an end it has anyway.     *)
(* spawn_start of different ports run on different schedulers at once: the *)
(* driver uses port locking.                                               *)
(***************************************************************************)
EXTENDS FiniteSets

CONSTANTS
  Port,
  Emulator,
  Serial   \* does the program open one port after the other?

ASSUME SpawnPipesAssumption == Emulator \notin Port /\ Serial \in BOOLEAN

VARIABLES
  step,   \* step[p]: where spawn_start or its port is
  redir,  \* ports whose child's stderr goes to the port too
  life,   \* life[p]: its child is "none", "running" or "ended"
  held    \* held[x]: the ends the emulator or the child of a port has

vars == <<step, redir, life, held>>

Ifd(p) == {<<p, "ifd0">>, <<p, "ifd1">>}  \* the child's output, read and written
Ofd(p) == {<<p, "ofd0">>, <<p, "ofd1">>}  \* its input, read and written
Err(p) == {<<p, "stderr">>}
Pipes(p) == Ifd(p) \cup Ofd(p)

UnderWay == {p \in Port : step[p] \in {"ifd", "pipes", "prepare", "ready", "forked"}}

Init ==
  /\ step = [p \in Port |-> "new"] /\ redir \in SUBSET Port
  /\ life = [p \in Port |-> "none"]
  /\ held = [x \in Port \cup {Emulator} |-> {}]

\* p goes on to s, the emulator has opened and closed ends.
Goto(p, s, opened, closed) ==
  /\ step' = [step EXCEPT ![p] = s]
  /\ held' = [held EXCEPT ![Emulator] = (@ \cup opened) \ closed]
  /\ UNCHANGED redir

\* pipe fails or the descriptor is beyond sys_max_files.
InPipe(p) ==
  /\ step[p] = "new" /\ (Serial => UnderWay = {})
  /\ Goto(p, "ifd", Ifd(p), {}) \/ Goto(p, "failed", {}, {})
  /\ UNCHANGED life

OutPipe(p) ==
  /\ step[p] = "ifd"
  /\ Goto(p, "pipes", Ofd(p), {}) \/ Goto(p, "failed", {}, Pipes(p))
  /\ UNCHANGED life

\* stderrfd is ifd[1] or a copy of the emulator's own.
Stderr(p) ==
  /\ step[p] = "pipes"
  /\ \/ Goto(p, "prepare", IF p \in redir THEN {} ELSE Err(p), {})
     \/ Goto(p, "failed", {}, Pipes(p))
  /\ UNCHANGED life

\* The command, access and getcwd: their failures leave stderrfd open.
Prepare(p) ==
  /\ step[p] = "prepare"
  /\ Goto(p, "ready", {}, {}) \/ Goto(p, "unprepared", {}, Pipes(p))
  /\ UNCHANGED life

\* Mutation: no file actions for the emulator's ends.
InheritedAll(p) == held[Emulator]

\* What posix_spawn leaves a child of p.
Inherited(p) == held[Emulator] \ {<<p, "ifd0">>, <<p, "ofd1">>}

\* Mutation: the error path of posix_spawn forgets stderrfd.
SpawnFailsKeeps(p) ==
  /\ step[p] = "ready" /\ Goto(p, "failed", {}, Pipes(p))
  /\ UNCHANGED life

SpawnFails(p) ==
  /\ step[p] = "ready" /\ Goto(p, "failed", {}, Pipes(p) \cup Err(p))
  /\ UNCHANGED life

PosixSpawn(p) ==
  /\ step[p] = "ready" /\ step' = [step EXCEPT ![p] = "forked"]
  /\ life' = [life EXCEPT ![p] = "running"]
  /\ held' = [held EXCEPT ![p] = Inherited(p)]
  /\ UNCHANGED redir

\* Mutation: the writing end of the child's output is not closed.
CloseChildSideOne(p) ==
  /\ step[p] = "forked"
  /\ Goto(p, "open", {}, {<<p, "ofd0">>} \cup Err(p))
  /\ UNCHANGED life

\* The child-side ends; create_driver_data.
CloseChildSide(p) ==
  /\ step[p] = "forked"
  /\ Goto(p, "open", {}, {<<p, "ofd0">>, <<p, "ifd1">>} \cup Err(p))
  /\ UNCHANGED life

\* stop: both drivers' ends, by stop_select.
Stop(p) ==
  /\ step[p] = "open" /\ Goto(p, "closed", {}, {<<p, "ifd0">>, <<p, "ofd1">>})
  /\ UNCHANGED life

\* The child ends, at the end of its input at the latest.
ChildEnds(p) ==
  /\ life[p] = "running" /\ life' = [life EXCEPT ![p] = "ended"]
  /\ held' = [held EXCEPT ![p] = {}]
  /\ UNCHANGED <<step, redir>>

AtEof(p) == \A x \in DOMAIN held : <<p, "ofd1">> \notin held[x]

SpawnStart(p) == InPipe(p) \/ OutPipe(p) \/ Stderr(p) \/ Prepare(p) \/ SpawnFails(p)
                 \/ PosixSpawn(p) \/ CloseChildSide(p)

Next == \E p \in Port : SpawnStart(p) \/ Stop(p) \/ ChildEnds(p)

Spec == Init /\ [][Next]_vars /\ \A p \in Port : WF_vars(AtEof(p) /\ ChildEnds(p))

-----------------------------------------------------------------------------
(* Properties.                                                             *)

\* Whatever fails, the emulator has pipe ends only of ports that are open or
\* being opened.  Of its copies of stderr it keeps one for each port without
\* redirection whose program, command or directory could not be prepared (the
\* returns between dup(2) and posix_spawn leak it), and no other.
OnlyStderrKept ==
  \A p \in Port : p \notin UnderWay /\ step[p] # "open" =>
    held[Emulator] \cap (Pipes(p) \cup Err(p)) =
      IF step[p] = "unprepared" /\ p \notin redir THEN Err(p) ELSE {}

\* An open port's output ends, and its exit status is reported, when its own
\* child is done, not when somebody else's is.
OwnOutput ==
  \A p \in Port : step[p] = "open" =>
    {x \in DOMAIN held : <<p, "ifd1">> \in held[x]} \subseteq {p}

\* When every port has been closed every child comes to the end of its input:
\* no children wait for each other to let go of their ends.
ChildrenEnd ==
  (\A p \in Port : step[p] \in {"failed", "unprepared", "closed"})
    ~> (\A p \in Port : life[p] # "running")

\* "Close BEAM-side ends in the child to avoid fd leak"
NoBeamEnds ==
  \A p, r \in Port : <<r, "ofd1">> \notin held[p] /\ <<r, "ifd0">> \notin held[p]
=============================================================================
