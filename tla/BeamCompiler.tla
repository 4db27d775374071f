---------------------------- MODULE BeamCompiler ----------------------------
(***************************************************************************)
(* The BEAM compiler subprocess, gleepack_compiler.erl: a reader forwards  *)
(* the lines of stdin to the dispatcher, which hands files to idle workers *)
(* and prints one line per result.  gleepack, at the other end of the two  *)
(* pipes, writes commands and reads result lines (beam_compiler.gleam).    *)
(* It implements CompileService.                                           *)
(***************************************************************************)
EXTENDS Naturals, Sequences, FiniteSets

CONSTANTS Source, Module, Emits, Broken, MayCrash,
          Worker,  \* one process per scheduler
          Path,    \* ebin directories
          Home,    \* Home[f]: the directory of the package f belongs to
          None

ASSUME CompilerAssumption ==
  /\ Emits \in [Source -> SUBSET Module] /\ Broken \subseteq Source
  /\ MayCrash \in BOOLEAN
  /\ IsFiniteSet(Worker) /\ Worker # {}
  /\ Home \in [Source -> Path]
  /\ \A f, g \in Source : f # g => Emits[f] \cap Emits[g] = {}
  /\ None \notin Source

VARIABLES stdin,      \* commands written and not read by the reader
          writer,     \* gleepack's end: "open", "closed", or "eof" once read
          mail,       \* the dispatcher's mailbox, without work_please
          dispatcher, \* "loop", "assign", "drain", "done" or "dead"
          job,        \* the file of a compile command being assigned, or None
          count,      \* Pending
          work,       \* work[w]: the file w compiles, None after work_please
          paths,      \* the code path
          beams,      \* modules written since the build was set up
          answered,   \* result lines printed and not read
          listening,  \* gleepack is there to read them
          asked,      \* directories gleepack has sent add_path for
          owed        \* files gleepack sent and has no printed answer for

vars == <<stdin, writer, mail, dispatcher, job, count, work, paths, beams,
          answered, listening, asked, owed>>
client == <<writer, listening, asked>>

Line(f) == [type |-> "compile", of |-> f]
AddPath(p) == [type |-> "add_path", of |-> p]
Result(f, ok) == [type |-> IF ok THEN "compiled" ELSE "failed", of |-> f]
Eof == [type |-> "eof", of |-> None]
Command == {Line(f) : f \in Source} \cup {AddPath(p) : p \in Path}
Message == Command \cup {Result(f, b) : f \in Source, b \in BOOLEAN} \cup {Eof}

IsResult(m) == m.type \in {"compiled", "failed"}

\* Every other process is linked to the dispatcher, and the VM halts with it.
Up == dispatcher \notin {"done", "dead"}

Init ==
  /\ stdin = <<>> /\ writer = "open"
  /\ mail = <<>>
  /\ dispatcher = "loop" /\ job = None /\ count = 0
  /\ work = [w \in Worker |-> None]
  /\ paths = {} /\ beams = {}
  /\ answered = {} /\ listening = TRUE
  /\ asked = {} /\ owed = {}
-----------------------------------------------------------------------------
(* gleepack: add_path, compile, stop, and its death.  A package's files    *)
(* are sent once, after its directory.                                     *)

SendPath(p) ==
  /\ writer = "open" /\ p \notin asked
  /\ stdin' = Append(stdin, AddPath(p))
  /\ asked' = asked \cup {p}
  /\ UNCHANGED <<writer, mail, dispatcher, job, count, work, paths, beams,
                 answered, listening, owed>>

SendFile(f) ==
  /\ writer = "open" /\ Home[f] \in asked
  /\ f \notin owed \cup {l.file : l \in answered} /\ Emits[f] \cap beams = {}
  /\ stdin' = Append(stdin, Line(f))
  /\ owed' = owed \cup {f}
  /\ UNCHANGED <<writer, mail, dispatcher, job, count, work, paths, beams,
                 answered, listening, asked>>

ReadAnswers ==
  /\ listening
  /\ \E S \in (SUBSET answered) \ {{}} : answered' = answered \ S
  /\ UNCHANGED <<stdin, writer, mail, dispatcher, job, count, work, paths,
                 beams, listening, asked, owed>>

Stop ==
  /\ writer = "open"
  /\ writer' = "closed"
  /\ UNCHANGED <<stdin, mail, dispatcher, job, count, work, paths, beams,
                 answered, listening, asked, owed>>

\* Both pipes lose their other end.
Desert ==
  /\ MayCrash /\ listening
  /\ listening' = FALSE
  /\ writer' = IF writer = "open" THEN "closed" ELSE writer
  /\ UNCHANGED <<stdin, mail, dispatcher, job, count, work, paths, beams,
                 answered, asked, owed>>
-----------------------------------------------------------------------------
(* reader_loop                                                             *)

\* Mutation: a line overtakes what is in the mailbox.
ReadLineFirst ==
  /\ Up /\ stdin # <<>>
  /\ mail' = <<Head(stdin)>> \o mail
  /\ stdin' = Tail(stdin)
  /\ UNCHANGED <<client, dispatcher, job, count, work, paths, beams, answered,
                 owed>>

ReadLine ==
  /\ Up /\ stdin # <<>>
  /\ mail' = Append(mail, Head(stdin))
  /\ stdin' = Tail(stdin)
  /\ UNCHANGED <<client, dispatcher, job, count, work, paths, beams, answered,
                 owed>>

ReadEof ==
  /\ Up /\ stdin = <<>> /\ writer = "closed"
  /\ mail' = Append(mail, Eof)
  /\ writer' = "eof"
  /\ UNCHANGED <<stdin, dispatcher, job, count, work, paths, beams, answered,
                 listening, asked, owed>>
-----------------------------------------------------------------------------
(* dispatcher_loop.  Its first receive takes every message but work_please *)
(* in order; the inner one takes a work_please, from any worker waiting.   *)

Receives(type) == mail # <<>> /\ Head(mail).type = type /\ mail' = Tail(mail)

DispatchPath ==
  /\ dispatcher = "loop" /\ Receives("add_path")
  /\ paths' = paths \cup {Head(mail).of}
  /\ UNCHANGED <<stdin, client, dispatcher, job, count, work, beams, answered,
                 owed>>

\* Mutation: a compile command is dropped when all workers are busy.
DispatchOrDrop ==
  /\ dispatcher = "loop" /\ Receives("compile")
  /\ IF \E w \in Worker : work[w] = None
     THEN dispatcher' = "assign" /\ job' = Head(mail).of
     ELSE UNCHANGED <<dispatcher, job>>
  /\ UNCHANGED <<stdin, client, count, work, paths, beams, answered, owed>>

DispatchCompile ==
  /\ dispatcher = "loop" /\ Receives("compile")
  /\ dispatcher' = "assign" /\ job' = Head(mail).of
  /\ UNCHANGED <<stdin, client, count, work, paths, beams, answered, owed>>

\* Mutation: the file given to the worker is not counted.
AssignUncounted(w) ==
  /\ dispatcher = "assign" /\ work[w] = None
  /\ work' = [work EXCEPT ![w] = job]
  /\ dispatcher' = "loop" /\ job' = None
  /\ UNCHANGED <<stdin, client, mail, count, paths, beams, answered, owed>>

Assign(w) ==
  /\ dispatcher = "assign" /\ work[w] = None
  /\ work' = [work EXCEPT ![w] = job]
  /\ count' = count + 1
  /\ dispatcher' = "loop" /\ job' = None
  /\ UNCHANGED <<stdin, client, mail, paths, beams, answered, owed>>

\* A result is printed as one line; printing to a closed pipe raises.
PutLine(m) ==
  /\ answered' = answered \cup {[file |-> m.of, ok |-> m.type = "compiled"]}
  /\ owed' = owed \ {m.of}

\* Mutation: results printed by the loop are not counted.
DispatchUncounted ==
  /\ dispatcher = "loop" /\ (Receives("compiled") \/ Receives("failed"))
  /\ listening /\ PutLine(Head(mail))
  /\ UNCHANGED <<stdin, client, dispatcher, job, count, work, paths, beams>>

DispatchResult ==
  /\ dispatcher = "loop" /\ (Receives("compiled") \/ Receives("failed"))
  /\ \/ /\ listening /\ PutLine(Head(mail))
        /\ count' = count - 1
        /\ UNCHANGED dispatcher
     \/ /\ ~listening
        /\ dispatcher' = "done"
        /\ UNCHANGED <<answered, owed, count>>
  /\ UNCHANGED <<stdin, client, job, work, paths, beams>>

\* Mutation: end of input ends the program.
DispatchEofExits ==
  /\ dispatcher = "loop" /\ Receives("eof")
  /\ dispatcher' = "done"
  /\ UNCHANGED <<stdin, client, job, count, work, paths, beams, answered, owed>>

DispatchEof ==
  /\ dispatcher = "loop" /\ Receives("eof")
  /\ dispatcher' = "drain"
  /\ UNCHANGED <<stdin, client, job, count, work, paths, beams, answered, owed>>

\* Mutation: a result that cannot be printed is not counted.
DrainResultOnce ==
  /\ dispatcher = "drain" /\ (Receives("compiled") \/ Receives("failed"))
  /\ \/ listening /\ PutLine(Head(mail)) /\ count' = count - 1
     \/ ~listening /\ UNCHANGED <<answered, owed, count>>
  /\ UNCHANGED <<stdin, client, dispatcher, job, work, paths, beams>>

\* drain receives results only, and goes on when they cannot be printed.
DrainResult ==
  /\ dispatcher = "drain" /\ count > 0
  /\ Receives("compiled") \/ Receives("failed")
  /\ IF listening THEN PutLine(Head(mail)) ELSE UNCHANGED <<answered, owed>>
  /\ count' = count - 1
  /\ UNCHANGED <<stdin, client, dispatcher, job, work, paths, beams>>

DrainEnd ==
  /\ dispatcher = "drain" /\ count = 0
  /\ dispatcher' = "done"
  /\ UNCHANGED <<stdin, client, mail, job, count, work, paths, beams, answered,
                 owed>>
-----------------------------------------------------------------------------
(* worker_loop: compile and strip one file, report, ask for work again.    *)

WorkerCompiles(w) ==
  /\ Up /\ work[w] # None
  /\ \/ /\ beams' = beams \cup Emits[work[w]]
        /\ mail' = Append(mail, Result(work[w], TRUE))
     \/ /\ work[w] \in Broken
        /\ \E ms \in SUBSET Emits[work[w]] : beams' = beams \cup ms
        /\ mail' = Append(mail, Result(work[w], FALSE))
  /\ work' = [work EXCEPT ![w] = None]
  /\ UNCHANGED <<stdin, client, dispatcher, job, count, paths, answered, owed>>

\* An exception in any process takes the linked ones down.
Crash ==
  /\ MayCrash /\ Up
  /\ dispatcher' = "dead"
  /\ UNCHANGED <<stdin, client, mail, job, count, work, paths, beams, answered,
                 owed>>

Client == \/ \E p \in Path : SendPath(p)
          \/ \E f \in Source : SendFile(f)
          \/ ReadAnswers \/ Stop \/ Desert
Reader == ReadLine \/ ReadEof
Dispatcher == \/ DispatchPath \/ DispatchCompile \/ DispatchResult
              \/ DispatchEof \/ DrainResult \/ DrainEnd
              \/ \E w \in Worker : Assign(w)

Next == \/ Client \/ Reader \/ Dispatcher
        \/ \E w \in Worker : WorkerCompiles(w)
        \/ Crash

\* The scheduler runs every process that can run; compilations end.
Fairness ==
  /\ WF_vars(Reader)
  /\ WF_vars(Dispatcher)
  /\ \A w \in Worker : WF_vars(WorkerCompiles(w))

Spec == Init /\ [][Next]_vars /\ Fairness
-----------------------------------------------------------------------------
(* Properties.                                                             *)

TypeOK ==
  /\ stdin \in Seq(Command) /\ mail \in Seq(Message)
  /\ writer \in {"open", "closed", "eof"}
  /\ dispatcher \in {"loop", "assign", "drain", "done", "dead"}
  /\ job \in Source \cup {None} /\ count \in Nat
  /\ work \in [Worker -> Source \cup {None}]
  /\ paths \in SUBSET Path /\ asked \in SUBSET Path
  /\ beams \in SUBSET Module
  /\ answered \in SUBSET [file : Source, ok : BOOLEAN]
  /\ listening \in BOOLEAN /\ owed \in SUBSET Source

Busy == {w \in Worker : work[w] # None}
Results == {i \in DOMAIN mail : IsResult(mail[i])}

\* "Pending = number of modules dispatched but not yet output a result for":
\* the count drain relies on to know when all answers are out.
CountAgrees == Up => count = Cardinality(Busy) + Cardinality(Results)

\* Where the files under way are: in a pipe, in the mailbox, in hand, with a
\* worker.
Files(messages) == {messages[i].of : i \in {k \in DOMAIN messages :
                      IsResult(messages[k]) \/ messages[k].type = "compile"}}
UnderWay == Files(stdin) \cup Files(mail) \cup {work[w] : w \in Busy}
            \cup ({job} \ {None})

\* A file is compiled with its package's directory in the code path, however
\* commands and results interleave.
PathBeforeWork == \A w \in Busy : Home[work[w]] \in paths

\* No file is lost: while the program runs gleepack is owed exactly the files
\* under way in it, and a program that ended by itself owes none.
NothingLost ==
  listening /\ dispatcher # "dead" => owed = IF Up THEN UnderWay ELSE {}

\* The program does not outlive gleepack: once its pipes are closed at the
\* other end it stops.
EndsWithClient == writer # "open" ~> ~Up

\* gleepack_compiler.erl keeps the promises of CompileService.  What a worker
\* has written counts as written once the answer is out.
Service == INSTANCE CompileService
  WITH outstanding <- owed,
       beams <- beams \ UNION {Emits[f] : f \in owed},
       alive <- dispatcher # "dead" /\ listening
Implements == Service!Spec
=============================================================================
