-------------------------- MODULE ProjectCompiler --------------------------
(***************************************************************************)
(* The two-stage compile pipeline of project_compiler.gleam: one package   *)
(* at a time is compiled to .erl (stage 1, the in-flight process) while    *)
(* the BEAM compiler turns the .erl files of earlier packages into .beam   *)
(* (stage 2, module CompileService).  One behaviour is one call of         *)
(* compile, from the loop's first iteration to its result.                 *)
(***************************************************************************)
EXTENDS Naturals, Sequences, FiniteSets

CONSTANTS Source, Module, Emits, Broken, MayCrash,
          Deps,           \* the packages, in the order dependency.gleam gives
          Kind,           \* Kind[p]: "gleam", "rebar3" or "mix"
          Cacheable,      \* packages package_cache.new has a key for
          Artefacts,      \* Artefacts[p]: the .erl/.ex files gleam makes of p
          Unbuildable,    \* packages whose own build command may fail
          ListingMayFail, \* may reading _gleam_artefacts fail?
          DiskMayFail,    \* may another file operation or a spawn fail?
          None

Package == {Deps[i] : i \in DOMAIN Deps}

ASSUME PipelineAssumption ==
  /\ IsFiniteSet(Source) /\ IsFiniteSet(Module)
  /\ Deps \in Seq(Package)
  /\ \A i, j \in DOMAIN Deps : Deps[i] = Deps[j] => i = j
  /\ Kind \in [Package -> {"gleam", "rebar3", "mix"}]
  /\ Cacheable \subseteq {p \in Package : Kind[p] = "gleam"}
  /\ Artefacts \in [Package -> SUBSET Source]
  /\ \A p \in Package : Kind[p] # "gleam" => Artefacts[p] = {}
  /\ \A p, q \in Package : p # q => Artefacts[p] \cap Artefacts[q] = {}
  /\ Unbuildable \subseteq Package
  /\ ListingMayFail \in BOOLEAN
  /\ DiskMayFail \in BOOLEAN
  /\ None \notin Package

VARIABLES outstanding, answered, beams, alive,  \* the BEAM compiler
          keys,      \* packages whose stored cache key is the current one
          apps,      \* packages whose .app file is in their ebin directory
          next,      \* state.remaining is Deps from this position on
          inFlight,  \* state.in_flight: the package being compiled, or None
          proc,      \* its process: "running", "ok" or "failed", or "none"
          pending,   \* state.pending
          credit,    \* drain_queue's argument: modules still to attribute
          phase      \* where the loop is, or how it ended

service == <<outstanding, answered, beams, alive>>
disk == <<keys, apps>>
loop == <<next, inFlight, proc, pending, credit, phase>>
vars == <<outstanding, answered, beams, alive, keys, apps,
          next, inFlight, proc, pending, credit, phase>>

Service == INSTANCE CompileService

ASSUME ServiceAssumption == Service!ConstantsOK

IsGleam(p) == Kind[p] = "gleam"
Finals == {"ok", "error", "timeout"}
PendingPackage == [name : Package, left : Nat]
ModulesOf(p) == UNION {Emits[f] : f \in Artefacts[p]}

\* Everything a later package may need of p is on disk.
InPlace(p) == p \in apps /\ ModulesOf(p) \subseteq beams

\* Init assumes the cache was right when the build started: a stored key
\* stands for a package whose files are all there.
Init ==
  /\ keys \in SUBSET Cacheable
  /\ apps = keys
  /\ beams = UNION {ModulesOf(p) : p \in keys}
  /\ outstanding = {} /\ answered = {} /\ alive = TRUE
  /\ next = 1
  /\ inFlight = None /\ proc = "none"
  /\ pending = <<>> /\ credit = 0
  /\ phase = "start"
-----------------------------------------------------------------------------
(* maybe_start_compile, at the top of every iteration.                     *)

head == Deps[next]
CanStart == phase = "start" /\ inFlight = None /\ next <= Len(Deps)

\* package_cache.check and commit
Hit(p) == p \in Cacheable \cap keys \cap apps
Commit(p) == keys' = keys \cup ({p} \cap Cacheable)

\* Errors end the loop: a file operation or spawn that fails, and a write to
\* the BEAM compiler, which only fails when the subprocess is gone.
FileError == DiskMayFail /\ phase' = "error"
WriteError == ~alive /\ phase' = "error"

\* A cached package only has its path added, and the next one is looked at.
StartHit ==
  /\ CanStart /\ IsGleam(head) /\ Hit(head)
  /\ \/ next' = next + 1 /\ UNCHANGED phase
     \/ (WriteError \/ FileError) /\ UNCHANGED next
  /\ UNCHANGED <<service, disk, inFlight, proc, pending, credit>>

\* reset_directory removes the stored key with everything built before.
StartMiss ==
  /\ CanStart /\ IsGleam(head) /\ ~Hit(head)
  /\ keys' = keys \ {head}
  /\ apps' = apps \ {head}
  /\ beams' = beams \ ModulesOf(head)
  /\ inFlight' = head /\ proc' = "running"
  /\ next' = next + 1
  /\ phase' = "wait"
  /\ UNCHANGED <<outstanding, answered, alive, pending, credit>>

\* Checking, resetting or spawning fails with any part of the reset done.
StartMissFails ==
  /\ CanStart /\ IsGleam(head) /\ ~Hit(head)
  /\ FileError
  /\ keys' \in {keys, keys \ {head}}
  /\ apps' \in {apps, apps \ {head}}
  /\ \E ms \in SUBSET ModulesOf(head) : beams' = beams \ ms
  /\ UNCHANGED <<outstanding, answered, alive, next, inFlight, proc, pending,
                 credit>>

\* Mutation: such a package is started without waiting.
StartForeignAtOnce ==
  /\ CanStart /\ ~IsGleam(head)
  /\ inFlight' = head /\ proc' = "running"
  /\ next' = next + 1
  /\ phase' = "wait"
  /\ UNCHANGED <<service, disk, pending, credit>>

\* Rebar3 and Mix packages wait for the pending queue to be empty.
StartForeign ==
  /\ CanStart /\ ~IsGleam(head) /\ pending = <<>>
  /\ \/ /\ inFlight' = head /\ proc' = "running"
        /\ next' = next + 1
        /\ phase' = "wait"
     \/ FileError /\ UNCHANGED <<next, inFlight, proc>>
  /\ UNCHANGED <<service, disk, pending, credit>>

\* Mutation: the loop returns without the answers it is still owed.
FinishEarly ==
  /\ phase = "start" /\ inFlight = None /\ next > Len(Deps)
  /\ phase' = "ok"
  /\ UNCHANGED <<service, disk, next, inFlight, proc, pending, credit>>

Finish ==
  /\ phase = "start" /\ inFlight = None /\ next > Len(Deps) /\ pending = <<>>
  /\ phase' = "ok"
  /\ UNCHANGED <<service, disk, next, inFlight, proc, pending, credit>>

StartNothing ==
  /\ phase = "start"
  /\ \/ inFlight # None
     \/ next > Len(Deps) /\ pending # <<>>
     \/ next <= Len(Deps) /\ ~IsGleam(head) /\ pending # <<>>
  /\ phase' = "wait"
  /\ UNCHANGED <<service, disk, next, inFlight, proc, pending, credit>>
-----------------------------------------------------------------------------
(* on_compile_finished: CompileFinished(0) of the in-flight process.       *)

\* collect_artefacts returns no files when it cannot read the directory.
Listings(p) == {Artefacts[p]} \cup (IF ListingMayFail THEN {{}} ELSE {})

\* Mutations: the key is committed when the files are sent; a package without
\* files is queued too; it is not committed.
EnqueueCommits(fs) ==
  /\ pending' = Append(pending, [name |-> inFlight, left |-> Cardinality(fs)])
  /\ Commit(inFlight)
EnqueueAlways(fs) ==
  /\ pending' = Append(pending, [name |-> inFlight, left |-> Cardinality(fs)])
  /\ UNCHANGED keys
EnqueueForgets(fs) ==
  \/ fs = {} /\ UNCHANGED <<keys, pending>>
  \/ /\ fs # {}
     /\ pending' = Append(pending, [name |-> inFlight, left |-> Cardinality(fs)])
     /\ UNCHANGED keys

\* A package whose files fs were sent waits in the queue; one without files
\* never gets an answer and is finished at once.
Enqueue(fs) ==
  \/ fs = {} /\ Commit(inFlight) /\ UNCHANGED pending
  \/ /\ fs # {}
     /\ pending' = Append(pending, [name |-> inFlight, left |-> Cardinality(fs)])
     /\ UNCHANGED keys

GleamFinished ==
  /\ phase = "wait" /\ proc = "ok" /\ IsGleam(inFlight)
  /\ \/ \E fs \in Listings(inFlight) :
          /\ Service!Send(fs)
          /\ apps' = apps \cup {inFlight}
          /\ Enqueue(fs)
          /\ phase' = "start"
     \/ /\ WriteError \/ FileError
        /\ apps' \in {apps, apps \cup {inFlight}}
        /\ UNCHANGED <<service, keys, pending>>
  /\ inFlight' = None /\ proc' = "none"
  /\ UNCHANGED <<next, credit>>

ForeignFinished ==
  /\ phase = "wait" /\ proc = "ok" /\ ~IsGleam(inFlight)
  /\ apps' = apps \cup {inFlight}
  /\ phase' = "start" \/ WriteError \/ FileError
  /\ inFlight' = None /\ proc' = "none"
  /\ UNCHANGED <<service, keys, next, pending, credit>>

CompileFailed ==
  /\ phase = "wait" /\ proc = "failed"
  /\ phase' = "error"
  /\ UNCHANGED <<service, disk, next, inFlight, proc, pending, credit>>
-----------------------------------------------------------------------------
(* CompileOutput, and BeamMsg: a chunk of result lines, or the exit of the *)
(* subprocess.                                                             *)

\* Output of the compile process, a warning of the BEAM compiler or part of
\* a result line only takes the loop round.
Chatter ==
  /\ phase = "wait"
  /\ proc = "running" \/ (alive /\ outstanding # {})
  /\ phase' = "start"
  /\ UNCHANGED <<service, disk, next, inFlight, proc, pending, credit>>

ReceiveCompiled ==
  /\ phase = "wait"
  /\ \E S \in (SUBSET answered) \ {{}} :
       /\ Service!Failed(S) = {}
       /\ Service!Take(S)
       /\ credit' = Cardinality(Service!Compiled(S))
  /\ phase' = "drain"
  /\ UNCHANGED <<disk, next, inFlight, proc, pending>>

ReceiveFailed ==
  /\ phase = "wait"
  /\ \E S \in SUBSET answered : Service!Failed(S) # {} /\ Service!Take(S)
  /\ phase' = "error"
  /\ UNCHANGED <<disk, next, inFlight, proc, pending, credit>>

ReceiveExited ==
  /\ phase = "wait" /\ ~alive /\ answered = {}
  /\ phase' = "error"
  /\ UNCHANGED <<service, disk, next, inFlight, proc, pending, credit>>

(* drain_queue, one iteration of the recursion per step: each pop writes a *)
(* cache key.                                                              *)

\* Mutation: the front package is popped whatever it is owed.
DrainPopUnguarded ==
  /\ phase = "drain" /\ credit > 0 /\ pending # <<>>
  /\ Commit(Head(pending).name)
  /\ credit' = credit - Head(pending).left
  /\ pending' = Tail(pending)
  /\ UNCHANGED <<service, apps, next, inFlight, proc, phase>>

DrainPop ==
  /\ phase = "drain" /\ credit > 0 /\ pending # <<>>
  /\ Head(pending).left <= credit
  /\ Commit(Head(pending).name)
  /\ credit' = credit - Head(pending).left
  /\ pending' = Tail(pending)
  /\ UNCHANGED <<service, apps, next, inFlight, proc, phase>>

\* A key file whose write fails holds at most part of the key.
DrainFails ==
  /\ phase = "drain" /\ credit > 0 /\ pending # <<>>
  /\ Head(pending).left <= credit
  /\ FileError
  /\ UNCHANGED <<service, disk, next, inFlight, proc, pending, credit>>

\* Mutation: the credit of a partly paid package is not used up.
DrainFrontForgets ==
  /\ phase = "drain" /\ credit > 0 /\ pending # <<>>
  /\ Head(pending).left > credit
  /\ UNCHANGED <<service, disk, loop>>

DrainFront ==
  /\ phase = "drain" /\ credit > 0 /\ pending # <<>>
  /\ Head(pending).left > credit
  /\ pending' = [pending EXCEPT ![1] = [name |-> @.name,
                                      left |-> @.left - credit]]
  /\ credit' = 0
  /\ phase' = "start"
  /\ UNCHANGED <<service, disk, next, inFlight, proc>>

DrainDone ==
  /\ phase = "drain"
  /\ credit = 0 \/ pending = <<>>
  /\ credit' = 0
  /\ phase' = "start"
  /\ UNCHANGED <<service, disk, next, inFlight, proc, pending>>

\* selector_receive gives up after 60 s without a message.
NothingToReceive == proc \in {"none", "running"} /\ answered = {} /\ alive

Timeout ==
  /\ phase = "wait" /\ NothingToReceive
  /\ phase' = "timeout"
  /\ UNCHANGED <<service, disk, next, inFlight, proc, pending, credit>>
-----------------------------------------------------------------------------
(* The processes around the loop.                                          *)

\* The in-flight package's compile process ends.
ProcessExit ==
  /\ proc = "running"
  /\ \/ proc' = "ok"
     \/ inFlight \in Unbuildable /\ proc' = "failed"
  /\ UNCHANGED <<service, disk, next, inFlight, pending, credit, phase>>

BeamWork == Service!Work /\ UNCHANGED <<disk, loop>>
BeamCrash == Service!Crash /\ UNCHANGED <<disk, loop>>

Start == \/ StartHit \/ StartMiss \/ StartMissFails \/ StartForeign
         \/ Finish \/ StartNothing
Receive == \/ GleamFinished \/ ForeignFinished \/ CompileFailed \/ Chatter
           \/ ReceiveCompiled \/ ReceiveFailed \/ ReceiveExited \/ Timeout
Drain == DrainPop \/ DrainFails \/ DrainFront \/ DrainDone

Next == \/ Start \/ Receive \/ Drain
        \/ ProcessExit \/ BeamWork \/ BeamCrash

\* The loop always continues, a compile process eventually ends and every
\* module a worker was given is eventually compiled.
Fairness ==
  /\ WF_vars(Start \/ Receive \/ Drain)
  /\ WF_vars(ProcessExit)
  /\ WF_vars(BeamWork)

Spec == Init /\ [][Next]_vars /\ Fairness
-----------------------------------------------------------------------------
(* Properties.                                                             *)

TypeOK ==
  /\ Service!TypeOK
  /\ keys \in SUBSET Cacheable
  /\ apps \in SUBSET Package
  /\ next \in 1 .. Len(Deps) + 1
  /\ inFlight \in Package \cup {None}
  /\ proc \in {"none", "running", "ok", "failed"}
  /\ (inFlight = None) <=> (proc = "none")
  /\ pending \in Seq(PendingPackage)
  /\ credit \in Nat
  /\ phase \in {"start", "wait", "drain"} \cup Finals

\* When compile returns Ok(Nil) every package is complete on disk, so the
\* entrypoint compile and the assembly of the release read finished files
\* and no answer of the pipeline is left for them to receive by mistake.
OkMeansComplete ==
  phase = "ok" => /\ \A p \in Package : InPlace(p)
                  /\ outstanding = {} /\ answered = {}

\* "Rebar3/Mix packages wait for the pending queue to drain first - they
\* need all .beam files from previous Gleam packages to be present": while
\* such a package compiles, all packages before it are in place.
ForeignSeesAllBefore ==
  inFlight # None /\ ~IsGleam(inFlight) =>
    \A i \in 1 .. next - 2 : InPlace(Deps[i])

\* The loop only ever times out on a subprocess that is slow, never on a
\* message nobody was going to send: the counts it keeps agree with the
\* answers still to come.
NobodyBusy == inFlight = None /\ outstanding = {}
NoVainWait ==
  [][phase # "timeout" /\ phase' = "timeout" => ~NobodyBusy]_vars

\* A package being recompiled, one in the pending queue, or one with a source
\* that is still out - sent and not answered, or its answer not read - has no
\* key on disk: a build killed at that point does not leave it a hit.
Out == outstanding \cup Service!Files(answered)
UnfinishedHasNoKey ==
  \A p \in keys :
    /\ p # inFlight
    /\ \A i \in DOMAIN pending : pending[i].name # p
    /\ Artefacts[p] \cap Out = {}

\* A finished build leaves a key for every cacheable package: answers
\* credited to the wrong package of the queue still add up at the end.
OkMeansCached == phase = "ok" => Cacheable \subseteq keys

\* Every build ends, whatever fails on the way.
EveryBuildEnds == <>(phase \in Finals)
=============================================================================
