----------------------- MODULE ProjectCompilerProofs -----------------------
(***************************************************************************)
(* What the compile pipeline guarantees for every project, every number of *)
(* packages and files, and every order of answers, proved; and what a      *)
(* stored key means over any number of builds.                             *)
(***************************************************************************)
EXTENDS BuildRuns, FiniteSetTheorems, SequenceTheorems, TLAPS

\* The constants' types in the form the proofs use them.
LEMMA Constants ==
  /\ Emits \in [Source -> SUBSET Module] /\ Broken \subseteq Source
  /\ Cacheable \subseteq Package
  /\ Len(Deps) \in Nat
  /\ \A i \in 1 .. Len(Deps) : Deps[i] \in Package
  /\ \A p \in Package : Artefacts[p] \subseteq Source
  /\ \A p \in Package : ModulesOf(p) \subseteq Module
<1>1. Emits \in [Source -> SUBSET Module] /\ Broken \subseteq Source
  BY ServiceAssumption DEF Service!ConstantsOK
<1>2. Len(Deps) \in Nat /\ \A i \in 1 .. Len(Deps) : Deps[i] \in Package
  BY PipelineAssumption DEF Package
<1>3. \A p \in Package : Artefacts[p] \subseteq Source
  BY PipelineAssumption
<1>4. \A p \in Package : ModulesOf(p) \subseteq Module
  BY <1>1, <1>3 DEF ModulesOf
<1> QED
  BY <1>1, <1>2, <1>3, <1>4, PipelineAssumption

\* The modules of a chunk of result lines are finitely many.
LEMMA CompiledFinite ==
  ASSUME NEW S \in SUBSET Service!Line
  PROVE  /\ IsFiniteSet(Service!Compiled(S))
         /\ Cardinality(Service!Compiled(S)) \in Nat
<1>1. Service!Compiled(S) \subseteq Module
  BY Constants DEF Service!Compiled, Service!Line
<1> QED
  BY <1>1, PipelineAssumption, FS_Subset, FS_CardinalityType

LEMMA ArtefactsFinite ==
  ASSUME NEW fs \in SUBSET Source
  PROVE  IsFiniteSet(fs) /\ Cardinality(fs) \in Nat
BY PipelineAssumption, FS_Subset, FS_CardinalityType

LEMMA TypeInit == Init => TypeOK
<1> SUFFICES ASSUME Init PROVE TypeOK
  OBVIOUS
<1>1. Service!TypeOK
  BY Constants DEF Init, Service!TypeOK
<1>2. pending \in Seq(PendingPackage) /\ next \in 1 .. Len(Deps) + 1
  BY Constants DEF Init
<1> QED
  BY <1>1, <1>2, Constants DEF Init, TypeOK

LEMMA TypeStep == TypeOK /\ [Next]_vars => TypeOK'
<1> SUFFICES ASSUME TypeOK, [Next]_vars PROVE TypeOK'
  OBVIOUS
<1> USE Constants DEF TypeOK, service, disk, loop, Finals, WriteError, FileError
<1>1. CASE StartHit
  BY <1>1 DEF StartHit, CanStart, Service!TypeOK
<1>2. CASE StartMiss
  <2>1. Deps[next] \in Package /\ Deps[next] # None
    BY <1>2, PipelineAssumption DEF StartMiss, CanStart
  <2> QED
    BY <1>2, <2>1 DEF StartMiss, CanStart, head, Service!TypeOK
<1>3. CASE StartForeign
  <2>1. Deps[next] \in Package /\ Deps[next] # None
    BY <1>3, PipelineAssumption DEF StartForeign, CanStart
  <2> QED
    BY <1>3, <2>1 DEF StartForeign, CanStart, head, Service!TypeOK
<1>4. CASE \/ Finish \/ StartNothing \/ CompileFailed \/ Chatter
           \/ ReceiveExited \/ Timeout \/ DrainFails
  BY <1>4 DEF Finish, StartNothing, CompileFailed, Chatter, ReceiveExited,
              Timeout, DrainFails, Service!TypeOK
<1>5. CASE GleamFinished
  <2>1. inFlight \in Package
    BY <1>5 DEF GleamFinished
  <2>2. inFlight' = None /\ proc' = "none" /\ next' = next /\ credit' = credit
        /\ apps' \in SUBSET Package /\ phase' \in {"start", "error"}
    BY <1>5, <2>1 DEF GleamFinished
  <2>3. keys' \in SUBSET Cacheable
    BY <1>5, <2>1 DEF GleamFinished, Enqueue, Commit
  <2>4. ASSUME NEW fs \in Listings(inFlight), Service!Send(fs)
        PROVE  Service!TypeOK'
    BY <2>1, <2>4 DEF Listings, Service!Send, Service!TypeOK
  <2>5. UNCHANGED service => Service!TypeOK'
    BY DEF Service!TypeOK
  <2>6. Service!TypeOK'
    BY <1>5, <2>4, <2>5 DEF GleamFinished
  <2>7. pending' \in Seq(PendingPackage)
    <3>1. UNCHANGED pending => pending' \in Seq(PendingPackage)
      OBVIOUS
    <3>2. ASSUME NEW fs \in Listings(inFlight),
                 pending' = Append(pending, [name |-> inFlight,
                                             left |-> Cardinality(fs)])
          PROVE  pending' \in Seq(PendingPackage)
      <4>1. Cardinality(fs) \in Nat
        BY <2>1, ArtefactsFinite DEF Listings
      <4> QED
        BY <3>2, <4>1, <2>1 DEF PendingPackage
    <3> QED
      BY <1>5, <3>1, <3>2 DEF GleamFinished, Enqueue
  <2> QED
    BY <2>2, <2>3, <2>6, <2>7
<1>6. CASE ForeignFinished
  BY <1>6 DEF ForeignFinished, Service!TypeOK
<1>7. CASE ReceiveCompiled
  <2>1. PICK S \in SUBSET answered :
             Service!Take(S) /\ credit' = Cardinality(Service!Compiled(S))
    BY <1>7 DEF ReceiveCompiled
  <2>2. credit' \in Nat
    BY <2>1, CompiledFinite DEF Service!TypeOK
  <2> QED
    BY <1>7, <2>1, <2>2 DEF ReceiveCompiled, Service!Take, Service!TypeOK
<1>8. CASE ReceiveFailed
  BY <1>8 DEF ReceiveFailed, Service!Take, Service!TypeOK
<1>9. CASE DrainPop
  <2>1. Head(pending) \in PendingPackage /\ Tail(pending) \in Seq(PendingPackage)
    BY <1>9, HeadTailProperties DEF DrainPop
  <2> QED
    BY <1>9, <2>1 DEF DrainPop, Commit, PendingPackage, Service!TypeOK
<1>10. CASE DrainFront
  <2>1. 1 \in 1 .. Len(pending) /\ Head(pending) = pending[1]
    BY <1>10 DEF DrainFront
  <2>2. pending[1] \in PendingPackage
    BY <2>1
  <2>3. [name |-> pending[1].name, left |-> pending[1].left - credit]
          \in PendingPackage
    BY <1>10, <2>1, <2>2 DEF DrainFront, PendingPackage
  <2>4. pending' \in Seq(PendingPackage)
    BY <1>10, <2>1, <2>3, ExceptSeq DEF DrainFront
  <2> QED
    BY <1>10, <2>4 DEF DrainFront, Service!TypeOK
<1>11. CASE DrainDone
  BY <1>11 DEF DrainDone, Service!TypeOK
<1>12. CASE ProcessExit
  BY <1>12 DEF ProcessExit, Service!TypeOK
<1>13. CASE BeamWork
  <2>1. PICK f \in Source : Service!Compile(f) \/ Service!Fail(f)
    BY <1>13 DEF BeamWork, Service!Work
  <2>2. [file |-> f, ok |-> TRUE] \in Service!Line
        /\ [file |-> f, ok |-> FALSE] \in Service!Line
    BY DEF Service!Line
  <2>3. Service!TypeOK'
    BY <2>1, <2>2 DEF Service!Compile, Service!Fail, Service!TypeOK
  <2> QED
    BY <1>13, <2>3 DEF BeamWork
<1>14. CASE BeamCrash
  BY <1>14 DEF BeamCrash, Service!Crash, Service!TypeOK
<1>15. CASE StartMissFails
  <2>1. Deps[next] \in Package
    BY <1>15 DEF StartMissFails, CanStart
  <2> QED
    BY <1>15, <2>1 DEF StartMissFails, head, Service!TypeOK
<1>16. CASE UNCHANGED vars
  BY <1>16 DEF vars, Service!TypeOK
<1> QED
  BY <1>1, <1>2, <1>3, <1>4, <1>5, <1>6, <1>7, <1>8, <1>9, <1>10, <1>11,
     <1>12, <1>13, <1>14, <1>15, <1>16 DEF Next, Start, Receive, Drain

\* The pipeline's variables keep their types.
THEOREM TypeCorrect == Spec => []TypeOK
BY TypeInit, TypeStep, PTL DEF Spec
-----------------------------------------------------------------------------
(* The pending queue as a tally: s[i] modules are owed by the first i      *)
(* packages of queue q, total by all of them.                              *)

Tally(q, s, total) ==
  /\ s \in [0 .. Len(q) -> Nat]
  /\ s[0] = 0
  /\ \A i \in 1 .. Len(q) : s[i] = s[i-1] + q[i].left
  /\ \A i, j \in 0 .. Len(q) : i < j => s[i] < s[j]
  /\ s[Len(q)] = total

Owes(q, total) == \E s \in [0 .. Len(q) -> Nat] : Tally(q, s, total)

\* A queue owes nothing exactly when it is empty.
LEMMA OwesNothing ==
  ASSUME NEW q \in Seq(PendingPackage), NEW total \in Nat, Owes(q, total)
  PROVE  q = <<>> <=> total = 0
<1>1. PICK s : Tally(q, s, total)
  BY DEF Owes
<1>2. Len(q) \in Nat /\ (q = <<>> <=> Len(q) = 0)
  BY EmptySeq, LenProperties
<1>3. Len(q) # 0 => s[0] < s[Len(q)]
  BY <1>1, <1>2 DEF Tally
<1> QED
  BY <1>1, <1>2, <1>3 DEF Tally

LEMMA OwesEmpty == Owes(<<>>, 0)
<1> DEFINE s == [i \in 0 .. 0 |-> 0]
<1>1. s \in [0 .. Len(<<>>) -> Nat]
  OBVIOUS
<1>2. Tally(<<>>, s, 0)
  BY DEF Tally
<1> QED
  BY <1>1, <1>2 DEF Owes

LEMMA OwesAppend ==
  ASSUME NEW q \in Seq(PendingPackage), NEW total \in Nat, Owes(q, total),
         NEW p \in PendingPackage, p.left > 0
  PROVE  Owes(Append(q, p), total + p.left)
<1>1. PICK s \in [0 .. Len(q) -> Nat] : Tally(q, s, total)
  BY DEF Owes
<1> DEFINE r == Append(q, p)
           t == [i \in 0 .. Len(q) + 1 |->
                   IF i <= Len(q) THEN s[i] ELSE total + p.left]
<1>2. /\ Len(q) \in Nat /\ Len(r) = Len(q) + 1
      /\ r[Len(q) + 1] = p
      /\ \A i \in 1 .. Len(q) : r[i] = q[i]
  OBVIOUS
<1>3. p.left \in Nat
  BY DEF PendingPackage
<1>4. t \in [0 .. Len(r) -> Nat]
  BY <1>2, <1>3
<1>5. t[0] = 0 /\ t[Len(r)] = total + p.left
  BY <1>1, <1>2 DEF Tally
<1>6. ASSUME NEW i \in 1 .. Len(r) PROVE t[i] = t[i-1] + r[i].left
  <2>1. CASE i <= Len(q)
    BY <1>1, <1>2, <2>1 DEF Tally
  <2>2. CASE i = Len(q) + 1
    BY <1>1, <1>2, <2>2 DEF Tally
  <2> QED
    BY <1>2, <2>1, <2>2
<1>7. ASSUME NEW i \in 0 .. Len(r), NEW j \in 0 .. Len(r), i < j
      PROVE  t[i] < t[j]
  <2>1. CASE j <= Len(q)
    BY <1>1, <1>2, <1>7, <2>1 DEF Tally
  <2>2. CASE j = Len(q) + 1
    <3>1. i = Len(q) \/ s[i] < s[Len(q)]
      BY <1>1, <1>2, <1>7, <2>2 DEF Tally
    <3>2. s[i] <= total
      BY <1>1, <1>2, <1>7, <2>2, <3>1 DEF Tally
    <3> QED
      BY <1>1, <1>2, <1>3, <1>7, <2>2, <3>2
  <2> QED
    BY <1>2, <2>1, <2>2
<1>8. Tally(r, t, total + p.left)
  BY <1>4, <1>5, <1>6, <1>7 DEF Tally
<1> QED
  BY <1>4, <1>8 DEF Owes

LEMMA OwesPop ==
  ASSUME NEW q \in Seq(PendingPackage), q # <<>>,
         NEW total \in Nat, Owes(q, total)
  PROVE  Owes(Tail(q), total - Head(q).left)
<1>1. PICK s \in [0 .. Len(q) -> Nat] : Tally(q, s, total)
  BY DEF Owes
<1> DEFINE r == Tail(q)
           left == Head(q).left
           t == [i \in 0 .. Len(r) |-> s[i+1] - left]
<1>2. /\ Len(q) \in Nat \ {0} /\ Len(r) = Len(q) - 1
      /\ Head(q) = q[1] /\ q[1] \in PendingPackage
      /\ \A i \in 1 .. Len(r) : r[i] = q[i+1]
  BY HeadTailProperties
<1>3. left \in Nat /\ s[1] = left
  BY <1>1, <1>2 DEF PendingPackage, Tally
<1>4. \A i \in 0 .. Len(r) : s[i+1] - left \in Nat
  <2> TAKE i \in 0 .. Len(r)
  <2>1. i + 1 = 1 \/ s[1] < s[i+1]
    BY <1>1, <1>2 DEF Tally
  <2>2. s[i+1] \in Nat
    BY <1>2
  <2> QED
    BY <1>3, <2>1, <2>2
<1>5. t \in [0 .. Len(r) -> Nat]
  BY <1>4
<1>6. t[0] = 0 /\ t[Len(r)] = total - left
  BY <1>1, <1>2, <1>3 DEF Tally
<1>7. ASSUME NEW i \in 1 .. Len(r) PROVE t[i] = t[i-1] + r[i].left
  <2>1. i + 1 \in 1 .. Len(q) /\ i - 1 \in 0 .. Len(r) /\ i \in 0 .. Len(r)
    BY <1>2
  <2>2. s[i+1] = s[i] + q[i+1].left
    BY <1>1, <2>1 DEF Tally
  <2>3. q[i+1].left \in Nat /\ s[i] \in Nat /\ s[i+1] \in Nat
    <3>1. q[i+1] \in PendingPackage
      BY <2>1, ElementOfSeq
    <3>2. i \in 0 .. Len(q) /\ i + 1 \in 0 .. Len(q)
      BY <1>2, <2>1
    <3> QED
      BY <3>1, <3>2 DEF PendingPackage
  <2>4. t[i] = s[i+1] - left /\ t[i-1] = s[i] - left
    BY <2>1
  <2> QED
    BY <1>2, <1>3, <2>2, <2>3, <2>4
<1>8. ASSUME NEW i \in 0 .. Len(r), NEW j \in 0 .. Len(r), i < j
      PROVE  t[i] < t[j]
  <2>1. s[i+1] < s[j+1] /\ s[i+1] \in Nat /\ s[j+1] \in Nat
    BY <1>1, <1>2, <1>8 DEF Tally
  <2> QED
    BY <1>3, <2>1
<1>9. Tally(r, t, total - left)
  BY <1>5, <1>6, <1>7, <1>8 DEF Tally
<1> QED
  BY <1>5, <1>9 DEF Owes

LEMMA OwesFront ==
  ASSUME NEW q \in Seq(PendingPackage), q # <<>>,
         NEW total \in Nat, Owes(q, total),
         NEW n \in Nat, n < Head(q).left,
         NEW r \in Seq(PendingPackage), Len(r) = Len(q),
         r[1].left = q[1].left - n,
         \A i \in 2 .. Len(q) : r[i] = q[i]
  PROVE  Owes(r, total - n)
<1>1. PICK s \in [0 .. Len(q) -> Nat] : Tally(q, s, total)
  BY DEF Owes
<1> DEFINE t == [i \in 0 .. Len(q) |-> IF i = 0 THEN 0 ELSE s[i] - n]
<1>2. /\ Len(q) \in Nat \ {0} /\ Head(q) = q[1]
      /\ \A i \in 1 .. Len(q) : q[i] \in PendingPackage
  OBVIOUS
<1>3. \A i \in 1 .. Len(q) : q[i].left \in Nat
  BY <1>2 DEF PendingPackage
<1>4. s[0] = 0 /\ s[1] = q[1].left
  BY <1>1, <1>2, <1>3 DEF Tally
<1>5. \A i \in 1 .. Len(q) : n < s[i]
  <2> TAKE i \in 1 .. Len(q)
  <2>1. i = 1 \/ s[1] < s[i]
    BY <1>1, <1>2 DEF Tally
  <2> QED
    BY <1>2, <1>3, <1>4, <2>1
<1>6. t \in [0 .. Len(r) -> Nat]
  BY <1>5
<1>7. t[0] = 0 /\ t[Len(r)] = total - n
  BY <1>1, <1>2 DEF Tally
<1>8. ASSUME NEW i \in 1 .. Len(r) PROVE t[i] = t[i-1] + r[i].left
  <2>1. CASE i = 1
    BY <1>2, <1>3, <1>4, <2>1
  <2>2. CASE i > 1
    <3>1. s[i] = s[i-1] + q[i].left /\ r[i] = q[i]
      BY <1>1, <1>2, <2>2 DEF Tally
    <3>2. t[i] = s[i] - n /\ t[i-1] = s[i-1] - n
      BY <2>2
    <3> HIDE DEF t
    <3>3. i \in 1 .. Len(q) /\ i \in 0 .. Len(q) /\ i - 1 \in 0 .. Len(q)
      BY <1>2, <2>2
    <3>4. s[i] \in Nat /\ s[i-1] \in Nat
      BY <3>3
    <3>5. q[i].left \in Nat
      BY <1>3, <3>3
    <3> QED
      BY <3>1, <3>2, <3>4, <3>5
  <2> QED
    BY <1>2, <2>1, <2>2
<1>9. ASSUME NEW i \in 0 .. Len(r), NEW j \in 0 .. Len(r), i < j
      PROVE  t[i] < t[j]
  <2>1. j # 0 /\ t[j] = s[j] - n /\ n < s[j] /\ s[j] \in Nat
    BY <1>5, <1>9
  <2>2. i # 0 => t[i] = s[i] - n /\ s[i] < s[j] /\ s[i] \in Nat
    BY <1>1, <1>9 DEF Tally
  <2>3. i = 0 => t[i] = 0
    OBVIOUS
  <2> QED
    BY <2>1, <2>2, <2>3
<1>10. Tally(r, t, total - n)
  BY <1>6, <1>7, <1>8, <1>9 DEF Tally
<1> QED
  BY <1>6, <1>10 DEF Owes
-----------------------------------------------------------------------------
(* The inductive invariant.                                                *)

\* Every source is an .erl file: one module, named like the file.
OneModulePerFile == \A f \in Source : Emits[f] = {f}

Live == phase \notin {"error", "timeout"}

\* Packages the loop has taken from remaining, and is finished with itself.
Started == {Deps[i] : i \in 1 .. next - 1}
Past == Started \ {inFlight}

AnswersOnce ==
  /\ outstanding \cap Service!Files(answered) = {}
  /\ \A k, l \in answered : k.file = l.file => k = l

SendsOnce == \A p \in Package \ Past : Artefacts[p] \cap Out = {}

PendingOnce ==
  /\ \A i \in DOMAIN pending : pending[i].name \in Past
  /\ \A i, j \in DOMAIN pending : pending[i].name = pending[j].name => i = j

\* The queue owes exactly the answers to come, and those being drained.
Balanced == Live => Owes(pending, Cardinality(Out) + credit)

\* A package the loop is finished with has all its files on disk, but for
\* the files still to be compiled and those whose failure is not yet read.
Settled ==
  Live => \A p \in Past :
            /\ p \in apps
            /\ \A f \in Artefacts[p] : \/ f \in beams \cup outstanding
                                       \/ [file |-> f, ok |-> FALSE] \in answered

\* A cacheable one has its key, or is waiting for it in the queue.
KeyedOrPending ==
  Live => \A p \in Past \cap Cacheable :
            p \in keys \/ \E i \in DOMAIN pending : pending[i].name = p

\* The keys found at the start are still true.
OldKeysTrue ==
  \A p \in keys \ Started : p \in apps /\ Artefacts[p] \subseteq beams

\* Neither the package being compiled nor one in the queue has a key.
QueuedUnkeyed ==
  /\ inFlight \notin keys
  /\ \A i \in DOMAIN pending : pending[i].name \notin keys

LoopState ==
  /\ inFlight # None => next > 1 /\ inFlight = Deps[next - 1]
  /\ inFlight # None /\ ~IsGleam(inFlight) => pending = <<>>
  /\ Live /\ phase # "drain" => credit = 0
  /\ phase = "wait" /\ inFlight = None => pending # <<>>
  /\ phase = "ok" => next > Len(Deps) /\ inFlight = None /\ pending = <<>>

IInv ==
  /\ TypeOK
  /\ AnswersOnce
  /\ SendsOnce
  /\ PendingOnce
  /\ Balanced
  /\ Settled
  /\ KeyedOrPending
  /\ OldKeysTrue
  /\ LoopState
  /\ QueuedUnkeyed
  /\ ForeignSeesAllBefore

Parts == /\ AnswersOnce /\ SendsOnce /\ PendingOnce /\ Balanced /\ Settled
         /\ KeyedOrPending /\ OldKeysTrue /\ LoopState
         /\ QueuedUnkeyed /\ ForeignSeesAllBefore

LEMMA OutFinite ==
  ASSUME TypeOK
  PROVE  Out \subseteq Source /\ IsFiniteSet(Out) /\ Cardinality(Out) \in Nat
<1>1. Out \subseteq Source
  BY DEF TypeOK, Service!TypeOK, Out, Service!Files, Service!Line
<1> QED
  BY <1>1, ArtefactsFinite

\* The modules of a package are its files, one each.
LEMMA ModulesAreFiles ==
  ASSUME OneModulePerFile, NEW p \in Package
  PROVE  ModulesOf(p) = Artefacts[p]
BY Constants DEF OneModulePerFile, ModulesOf

\* Package positions: no package is started twice.
LEMMA StartedNext ==
  ASSUME TypeOK, next <= Len(Deps)
  PROVE  /\ Deps[next] \in Package
         /\ Deps[next] \notin Started
         /\ {Deps[i] : i \in 1 .. next} = Started \cup {Deps[next]}
<1>1. next \in 1 .. Len(Deps)
  BY Constants DEF TypeOK
<1>2. \A i \in 1 .. next - 1 : i \in DOMAIN Deps /\ i # next
  BY <1>1, Constants, PipelineAssumption
<1>3. next \in DOMAIN Deps
  BY <1>1, Constants, PipelineAssumption
<1>4. Deps[next] \notin Started
  BY <1>2, <1>3, PipelineAssumption DEF Started
<1>5. {Deps[i] : i \in 1 .. next} = Started \cup {Deps[next]}
  <2>1. 1 .. next = (1 .. next - 1) \cup {next}
    BY <1>1, Constants
  <2> QED
    BY <2>1 DEF Started
<1> QED
  BY <1>1, <1>4, <1>5, Constants

LEMMA StartedPackages ==
  ASSUME TypeOK
  PROVE  Started \subseteq Package /\ (next > Len(Deps) => Started = Package)
<1>1. next \in Nat /\ next - 1 <= Len(Deps)
  BY Constants DEF TypeOK
<1>2. Package = {Deps[i] : i \in 1 .. Len(Deps)}
  BY Constants, PipelineAssumption DEF Package
<1>3. next > Len(Deps) => next - 1 = Len(Deps)
  BY <1>1, Constants
<1> QED
  BY <1>1, <1>2, <1>3, Constants DEF Started

\* Steps that only move the loop, or end it, keep everything.
LEMMA LoopOnly ==
  ASSUME IInv, TypeOK',
         UNCHANGED <<service, disk, next, inFlight, pending>>,
         credit' = credit \/ ~Live',
         Live' => Live,
         LoopState'
  PROVE  Parts'
<1> USE DEF service, disk
<1>1. Out' = Out /\ Started' = Started /\ Past' = Past
  BY DEF Out, Started, Past
<1>2. AnswersOnce' /\ SendsOnce' /\ PendingOnce' /\ OldKeysTrue'
  BY <1>1 DEF IInv, AnswersOnce, SendsOnce, PendingOnce, OldKeysTrue
<1>3. Balanced' /\ Settled' /\ KeyedOrPending'
  BY <1>1 DEF IInv, Balanced, Settled, KeyedOrPending
<1>4. QueuedUnkeyed' /\ ForeignSeesAllBefore'
  BY DEF IInv, QueuedUnkeyed, ForeignSeesAllBefore, InPlace, ModulesOf
<1> QED
  BY <1>2, <1>3, <1>4 DEF Parts

LEMMA QuietSteps ==
  ASSUME IInv, TypeOK',
         \/ Finish \/ StartNothing \/ CompileFailed \/ Chatter
         \/ ReceiveExited \/ Timeout \/ DrainFails \/ ProcessExit \/ BeamCrash
  PROVE  Parts'
<1> USE DEF LoopState, Live, IInv
<1>1. CASE Finish
  BY <1>1, LoopOnly DEF Finish
<1>2. CASE StartNothing
  BY <1>2, LoopOnly DEF StartNothing
<1>3. CASE \/ CompileFailed \/ Chatter \/ ReceiveExited \/ Timeout
           \/ DrainFails
  BY <1>3, LoopOnly
     DEF CompileFailed, Chatter, ReceiveExited, Timeout, DrainFails, FileError
<1>4. CASE ProcessExit
  BY <1>4, LoopOnly DEF ProcessExit
<1>5. CASE BeamCrash
  <2> USE DEF disk, loop
  <2>1. UNCHANGED <<outstanding, answered, beams, keys, apps, next, inFlight,
                    pending, credit, phase>>
    BY <1>5 DEF BeamCrash, Service!Crash
  <2>2. Out' = Out /\ Started' = Started /\ Past' = Past
    BY <2>1 DEF Out, Started, Past
  <2>3. AnswersOnce' /\ SendsOnce' /\ PendingOnce' /\ OldKeysTrue'
    BY <2>1, <2>2 DEF AnswersOnce, SendsOnce, PendingOnce, OldKeysTrue
  <2>4. Balanced' /\ Settled' /\ KeyedOrPending' /\ LoopState'
    BY <2>1, <2>2 DEF Balanced, Settled, KeyedOrPending
  <2>5. QueuedUnkeyed' /\ ForeignSeesAllBefore'
    BY <2>1 DEF QueuedUnkeyed, ForeignSeesAllBefore, InPlace, ModulesOf
  <2> QED
    BY <2>3, <2>4, <2>5 DEF Parts
<1> QED
  BY <1>1, <1>2, <1>3, <1>4, <1>5

\* A cached package is skipped: its key was true, so it is settled.
LEMMA HitStep ==
  ASSUME OneModulePerFile, IInv, TypeOK', StartHit
  PROVE  Parts'
<1> USE DEF service, disk
<1>1. /\ UNCHANGED <<outstanding, answered, beams, alive, keys, apps,
                     inFlight, proc, pending, credit>>
      /\ phase = "start" /\ inFlight = None /\ next <= Len(Deps)
      /\ Deps[next] \in Cacheable \cap keys \cap apps
      /\ IsGleam(Deps[next])
  BY DEF StartHit, CanStart, head, Hit
<1>2. CASE (WriteError \/ FileError) /\ UNCHANGED next
  BY <1>1, <1>2, LoopOnly DEF WriteError, FileError, LoopState, Live, IInv
<1>3. CASE next' = next + 1 /\ UNCHANGED phase
  <2>1. next \in Nat /\ TypeOK
    BY Constants DEF IInv, TypeOK
  <2>2. Started' = Started \cup {Deps[next]}
    <3>1. 1 .. next' - 1 = 1 .. next
      BY <1>3, <2>1
    <3> QED
      BY <1>1, <2>1, <3>1, StartedNext DEF Started
  <2>3. Out' = Out /\ Past' = Past \cup {Deps[next]}
    BY <1>1, <2>1, <2>2, StartedNext, PipelineAssumption DEF Out, Past
  <2>4. Deps[next] \in apps /\ Artefacts[Deps[next]] \subseteq beams
    BY <1>1, <2>1, StartedNext DEF IInv, OldKeysTrue
  <2>5. AnswersOnce' /\ SendsOnce' /\ OldKeysTrue'
    BY <1>1, <2>2, <2>3 DEF IInv, AnswersOnce, SendsOnce, OldKeysTrue
  <2>6. PendingOnce'
    BY <1>1, <2>3 DEF IInv, PendingOnce
  <2>7. Balanced' /\ Settled' /\ KeyedOrPending'
    BY <1>1, <1>3, <2>3, <2>4 DEF IInv, Balanced, Settled, KeyedOrPending, Live
  <2>8. LoopState' /\ QueuedUnkeyed' /\ ForeignSeesAllBefore'
    BY <1>1, <1>3 DEF IInv, LoopState, Live, QueuedUnkeyed,
                      ForeignSeesAllBefore
  <2> QED
    BY <2>5, <2>6, <2>7, <2>8 DEF Parts
<1> QED
  BY <1>2, <1>3 DEF StartHit

\* Resetting a package's directory takes nothing from any other package.
LEMMA MissStep ==
  ASSUME OneModulePerFile, IInv, TypeOK', StartMiss
  PROVE  Parts'
<1> DEFINE p == Deps[next]
<1>1. /\ UNCHANGED <<outstanding, answered, alive, pending, credit>>
      /\ phase = "start" /\ inFlight = None /\ next <= Len(Deps)
      /\ IsGleam(p)
      /\ keys' = keys \ {p} /\ apps' = apps \ {p}
      /\ beams' = beams \ ModulesOf(p)
      /\ inFlight' = p /\ next' = next + 1 /\ phase' = "wait"
  BY DEF StartMiss, CanStart, head
<1>2. next \in Nat /\ next \in 1 .. Len(Deps) /\ TypeOK
  BY <1>1, Constants DEF IInv, TypeOK
<1>3. /\ p \in Package /\ p \notin Started /\ p # None
      /\ Started' = Started \cup {p}
  BY <1>1, <1>2, StartedNext, PipelineAssumption DEF Started
<1>4. Past = Started /\ None \notin Started /\ Started \subseteq Package
  BY <1>1, <1>2, StartedPackages, PipelineAssumption DEF Past
<1>5. Out' = Out /\ Past' = Past
  BY <1>1, <1>3, <1>4 DEF Out, Past
<1>6. ModulesOf(p) = Artefacts[p]
  BY <1>3, ModulesAreFiles
<1>7. \A q \in Package \ {p} : Artefacts[q] \cap Artefacts[p] = {}
  BY <1>3, PipelineAssumption
<1>8. AnswersOnce' /\ SendsOnce' /\ PendingOnce'
  BY <1>1, <1>5 DEF IInv, AnswersOnce, SendsOnce, PendingOnce
<1>9. Balanced'
  BY <1>1, <1>5 DEF IInv, Balanced, Live
<1>10. Settled'
  BY <1>1, <1>3, <1>4, <1>5, <1>6, <1>7 DEF IInv, Settled, Live
<1>11. KeyedOrPending'
  BY <1>1, <1>3, <1>4, <1>5 DEF IInv, KeyedOrPending, Live
<1>12. OldKeysTrue'
  <2>1. keys \subseteq Package
    BY <1>2, Constants DEF TypeOK
  <2> QED
    BY <1>1, <1>3, <1>6, <1>7, <2>1 DEF IInv, OldKeysTrue
<1>13. LoopState'
  BY <1>1, <1>2, <1>3 DEF IInv, LoopState, Live
<1>14. QueuedUnkeyed'
  BY <1>1 DEF IInv, QueuedUnkeyed
<1>15. ForeignSeesAllBefore'
  BY <1>1 DEF ForeignSeesAllBefore, IsGleam
<1> QED
  BY <1>8, <1>9, <1>10, <1>11, <1>12, <1>13, <1>14, <1>15 DEF Parts

\* A reset that fails half-way only touches a package without a key.
LEMMA MissFailsStep ==
  ASSUME OneModulePerFile, IInv, TypeOK', StartMissFails
  PROVE  Parts'
<1> DEFINE p == Deps[next]
<1>1. /\ UNCHANGED <<outstanding, answered, next, inFlight, pending, credit>>
      /\ phase = "start" /\ inFlight = None /\ next <= Len(Deps)
      /\ IsGleam(p) /\ phase' = "error" /\ ~Hit(p)
      /\ keys' \in {keys, keys \ {p}} /\ apps' \in {apps, apps \ {p}}
  BY DEF StartMissFails, CanStart, head, FileError
<1>2. PICK ms \in SUBSET ModulesOf(p) : beams' = beams \ ms
  BY DEF StartMissFails, head
<1>3. /\ TypeOK /\ p \in Package /\ p \notin Started
      /\ ModulesOf(p) = Artefacts[p]
      /\ \A q \in Package \ {p} : Artefacts[q] \cap Artefacts[p] = {}
  BY <1>1, StartedNext, ModulesAreFiles, PipelineAssumption DEF IInv
<1>4. Out' = Out /\ Started' = Started /\ Past' = Past
  BY <1>1 DEF Out, Started, Past
<1>5. AnswersOnce' /\ SendsOnce' /\ PendingOnce'
  BY <1>1, <1>4 DEF IInv, AnswersOnce, SendsOnce, PendingOnce
<1>6. Balanced' /\ Settled' /\ KeyedOrPending' /\ LoopState'
  BY <1>1 DEF IInv, Balanced, Settled, KeyedOrPending, LoopState, Live
<1>7. OldKeysTrue'
  <2>1. p \notin keys /\ keys \subseteq Package
    BY <1>1, <1>3, Constants DEF IInv, TypeOK, OldKeysTrue, Hit
  <2> QED
    BY <1>1, <1>2, <1>3, <1>4, <2>1 DEF IInv, OldKeysTrue
<1>8. QueuedUnkeyed' /\ ForeignSeesAllBefore'
  BY <1>1 DEF IInv, QueuedUnkeyed, ForeignSeesAllBefore
<1> QED
  BY <1>5, <1>6, <1>7, <1>8 DEF Parts

\* An empty queue owes nothing, so no file is under way.
LEMMA NothingUnderWay ==
  ASSUME IInv, Live, pending = <<>>
  PROVE  Out = {} /\ outstanding = {} /\ answered = {} /\ credit = 0
<1>1. TypeOK /\ Owes(pending, Cardinality(Out) + credit)
  BY DEF IInv, Balanced
<1>2. Cardinality(Out) \in Nat /\ credit \in Nat /\ IsFiniteSet(Out)
      /\ pending \in Seq(PendingPackage)
  BY <1>1, OutFinite DEF TypeOK
<1>3. Cardinality(Out) + credit = 0
  <2>1. Cardinality(Out) + credit \in Nat
    BY <1>2
  <2> QED
    BY <1>1, <1>2, <2>1, OwesNothing
<1>4. Out = {} /\ credit = 0
  BY <1>2, <1>3, FS_EmptySet
<1> QED
  BY <1>4 DEF Out, Service!Files

\* A package before which nothing is pending finds everything in place.
LEMMA ForeignStep ==
  ASSUME OneModulePerFile, IInv, TypeOK', StartForeign
  PROVE  Parts'
<1> DEFINE p == Deps[next]
<1> USE DEF service, disk
<1> SUFFICES ASSUME inFlight' = p, next' = next + 1, phase' = "wait"
             PROVE  Parts'
  BY LoopOnly DEF StartForeign, CanStart, head, FileError, IInv, LoopState, Live
<1>1. /\ UNCHANGED <<outstanding, answered, beams, alive, keys, apps,
                     pending, credit>>
      /\ phase = "start" /\ inFlight = None /\ next <= Len(Deps)
      /\ ~IsGleam(p) /\ pending = <<>>
      /\ inFlight' = p /\ next' = next + 1 /\ phase' = "wait"
  BY DEF StartForeign, CanStart, head
<1>2. next \in Nat /\ next \in 1 .. Len(Deps) /\ TypeOK
  BY <1>1, Constants DEF IInv, TypeOK
<1>3. /\ p \in Package /\ p \notin Started /\ p # None
      /\ Started' = Started \cup {p}
  BY <1>1, <1>2, StartedNext, PipelineAssumption DEF Started
<1>4. Past = Started /\ None \notin Started /\ Started \subseteq Package
  BY <1>1, <1>2, StartedPackages, PipelineAssumption DEF Past
<1>5. Out' = Out /\ Past' = Past
  BY <1>1, <1>3, <1>4 DEF Out, Past
<1>6. AnswersOnce' /\ SendsOnce' /\ PendingOnce'
  BY <1>1, <1>5 DEF IInv, AnswersOnce, SendsOnce, PendingOnce
<1>7. Balanced' /\ Settled' /\ KeyedOrPending'
  BY <1>1, <1>5 DEF IInv, Balanced, Settled, KeyedOrPending, Live
<1>8. OldKeysTrue'
  BY <1>1, <1>3 DEF IInv, OldKeysTrue
<1>9. LoopState'
  BY <1>1, <1>2, <1>3 DEF IInv, LoopState, Live
<1>10. QueuedUnkeyed'
  <2>1. p \notin Cacheable
    BY <1>1, PipelineAssumption DEF IsGleam
  <2> QED
    BY <1>1, <1>2, <2>1 DEF QueuedUnkeyed, TypeOK
<1>11. ForeignSeesAllBefore'
  <2>1. outstanding = {} /\ answered = {}
    BY <1>1, NothingUnderWay DEF Live
  <2>2. \A q \in Started : q \in apps /\ Artefacts[q] \subseteq beams
    BY <1>1, <1>4, <2>1 DEF IInv, Settled, Live
  <2>3. \A q \in Started : InPlace(q)
    BY <1>4, <2>2, ModulesAreFiles DEF InPlace
  <2>4. \A i \in 1 .. next' - 2 : Deps[i] \in Started
    BY <1>1, <1>2 DEF Started
  <2> QED
    BY <1>1, <2>3, <2>4 DEF ForeignSeesAllBefore, InPlace, ModulesOf
<1> QED
  BY <1>6, <1>7, <1>8, <1>9, <1>10, <1>11 DEF Parts

\* A worker's answer moves a file from sent to answered.
LEMMA BeamStep ==
  ASSUME OneModulePerFile, IInv, TypeOK', BeamWork
  PROVE  Parts'
<1> USE DEF disk, loop
<1>1. UNCHANGED <<keys, apps, next, inFlight, proc, pending, credit, phase>>
  BY DEF BeamWork
<1>2. PICK f \in outstanding, b \in BOOLEAN :
        /\ outstanding' = outstanding \ {f}
        /\ answered' = answered \cup {[file |-> f, ok |-> b]}
        /\ b => beams' = beams \cup Emits[f]
        /\ ~b => beams \subseteq beams'
  BY DEF BeamWork, Service!Work, Service!Compile, Service!Fail
<1>3. f \in Source /\ Emits[f] = {f}
  BY DEF IInv, TypeOK, Service!TypeOK, OneModulePerFile
<1>4. Service!Files(answered') = Service!Files(answered) \cup {f}
  <2> DEFINE r == [file |-> f, ok |-> b]
  <2>1. r.file = f
    OBVIOUS
  <2>2. answered' = answered \cup {r}
    BY <1>2
  <2> HIDE DEF r
  <2> QED
    BY <2>1, <2>2 DEF Service!Files
<1>5. Out' = Out /\ Started' = Started /\ Past' = Past
  BY <1>1, <1>2, <1>4 DEF Out, Started, Past
<1>6. AnswersOnce'
  BY <1>2, <1>4 DEF IInv, AnswersOnce, Service!Files
<1>7. SendsOnce' /\ PendingOnce' /\ Balanced' /\ KeyedOrPending' /\ LoopState'
  BY <1>1, <1>5 DEF IInv, SendsOnce, PendingOnce, Balanced, KeyedOrPending,
                    LoopState, Live
<1>8. beams \subseteq beams' /\ (b => f \in beams')
  BY <1>2, <1>3
<1>9. Settled'
  <2>1. ASSUME Live, NEW p \in Past, NEW g \in Artefacts[p]
        PROVE  \/ g \in beams' \cup outstanding'
               \/ [file |-> g, ok |-> FALSE] \in answered'
    <3>1. \/ g \in beams \cup outstanding
          \/ [file |-> g, ok |-> FALSE] \in answered
      BY <2>1 DEF IInv, Settled
    <3> QED
      BY <1>2, <1>8, <3>1
  <2>2. Live => \A p \in Past : p \in apps
    BY DEF IInv, Settled
  <2> QED
    BY <1>1, <1>5, <2>1, <2>2 DEF Settled, Live
<1>10. OldKeysTrue'
  BY <1>1, <1>5, <1>8 DEF IInv, OldKeysTrue
<1>11. QueuedUnkeyed'
  BY <1>1 DEF IInv, QueuedUnkeyed
<1>12. ForeignSeesAllBefore'
  BY <1>1, <1>8 DEF IInv, ForeignSeesAllBefore, InPlace, ModulesOf
<1> QED
  BY <1>6, <1>7, <1>9, <1>10, <1>11, <1>12 DEF Parts

\* When the in-flight package is done it joins the past ones.
LEMMA InFlightDone ==
  ASSUME IInv, inFlight # None, inFlight' = None, next' = next
  PROVE  /\ inFlight \in Package /\ inFlight \in Started /\ inFlight \notin Past
         /\ Started' = Started /\ Past' = Past \cup {inFlight}
<1>1. next \in Nat /\ inFlight \in Package
  BY Constants DEF IInv, TypeOK
<1>2. next - 1 \in 1 .. next - 1 /\ inFlight = Deps[next - 1]
  BY <1>1 DEF IInv, LoopState
<1>3. inFlight \in Started /\ Started' = Started
  BY <1>2 DEF Started
<1>4. None \notin Started
  BY StartedPackages, PipelineAssumption DEF IInv
<1> QED
  BY <1>1, <1>3, <1>4 DEF Past

\* A step into error gives up the guarantees of a live loop.
LEMMA GiveUp ==
  ASSUME IInv, TypeOK', phase' = "error",
         AnswersOnce', SendsOnce', PendingOnce', OldKeysTrue',
         inFlight' = inFlight \/ inFlight' = None,
         UNCHANGED <<beams, next, pending, keys>>, apps \subseteq apps'
  PROVE  Parts'
<1>1. Balanced' /\ Settled' /\ KeyedOrPending'
  BY DEF Balanced, Settled, KeyedOrPending, Live
<1>2. LoopState' /\ QueuedUnkeyed'
  <2>1. None \notin keys
    BY Constants, PipelineAssumption DEF IInv, TypeOK
  <2> QED
    BY <2>1 DEF IInv, LoopState, Live, QueuedUnkeyed, IsGleam
<1>3. ForeignSeesAllBefore'
  BY DEF IInv, ForeignSeesAllBefore, InPlace, ModulesOf, IsGleam
<1> QED
  BY <1>1, <1>2, <1>3 DEF Parts

\* Disjoint sets of files add up.
LEMMA SentAddsUp ==
  ASSUME TypeOK, NEW fs \in SUBSET Source, fs \cap Out = {}
  PROVE  Cardinality(Out \cup fs) = Cardinality(Out) + Cardinality(fs)
<1>1. IsFiniteSet(Out) /\ IsFiniteSet(fs) /\ Out \cap fs = {}
      /\ Cardinality(Out) \in Nat /\ Cardinality(fs) \in Nat
  BY OutFinite, ArtefactsFinite
<1>2. Cardinality(Out \cup fs)
        = Cardinality(Out) + Cardinality(fs) - Cardinality(Out \cap fs)
  BY <1>1, FS_Union
<1> QED
  BY <1>1, <1>2, FS_EmptySet

LEMMA GleamStep ==
  ASSUME OneModulePerFile, ~ListingMayFail, IInv, TypeOK', GleamFinished
  PROVE  Parts'
<1> DEFINE p == inFlight
           fs == Artefacts[p]
<1> USE DEF service
<1>1. /\ phase = "wait" /\ proc = "ok" /\ IsGleam(p) /\ TypeOK
      /\ inFlight' = None /\ proc' = "none" /\ UNCHANGED <<next, credit>>
      /\ p # None /\ credit = 0 /\ Live
  BY DEF GleamFinished, IInv, TypeOK, LoopState, Live
<1>2. /\ p \in Package /\ p \in Started /\ p \notin Past
      /\ Started' = Started /\ Past' = Past \cup {p}
  BY <1>1, InFlightDone
<1>3. CASE /\ WriteError \/ FileError
           /\ apps' \in {apps, apps \cup {p}}
           /\ UNCHANGED <<service, keys, pending>>
  <2>1. Out' = Out
    BY <1>3 DEF Out
  <2>2. AnswersOnce' /\ SendsOnce' /\ PendingOnce' /\ OldKeysTrue'
    BY <1>2, <1>3, <2>1 DEF IInv, AnswersOnce, SendsOnce, PendingOnce, OldKeysTrue
  <2> QED
    BY <1>1, <1>3, <2>2, GiveUp DEF WriteError, FileError
<1>4. CASE /\ Service!Send(fs)
           /\ apps' = apps \cup {p}
           /\ Enqueue(fs)
           /\ phase' = "start"
  <2>1. /\ outstanding' = outstanding \cup fs
        /\ UNCHANGED <<answered, beams, alive>>
    BY <1>4 DEF Service!Send
  <2>2. /\ fs \subseteq Source /\ fs \cap Out = {} /\ Out' = Out \cup fs
        /\ IsFiniteSet(fs) /\ Cardinality(fs) \in Nat
    BY <1>2, <2>1, Constants, ArtefactsFinite DEF IInv, SendsOnce, Out
  <2>3. Cardinality(Out') = Cardinality(Out) + Cardinality(fs)
    BY <1>1, <2>2, SentAddsUp
  <2>4. Owes(pending, Cardinality(Out)) /\ Cardinality(Out) \in Nat
        /\ pending \in Seq(PendingPackage)
    BY <1>1, OutFinite DEF IInv, Balanced, TypeOK
  <2>5. AnswersOnce'
    BY <2>1, <2>2 DEF IInv, AnswersOnce, Out
  <2>6. SendsOnce'
    <3>1. \A q \in Package \ Past' : Artefacts[q] \cap fs = {}
      BY <1>2, PipelineAssumption
    <3> QED
      BY <1>2, <2>2, <3>1 DEF IInv, SendsOnce
  <2>7. keys \subseteq keys' /\ keys' \subseteq keys \cup {p}
    BY <1>4 DEF Enqueue, Commit
  <2>8. OldKeysTrue'
    BY <1>2, <1>4, <2>1, <2>7 DEF IInv, OldKeysTrue
  <2>9. Settled'
    <3>1. \A f \in fs : f \in outstanding'
      BY <2>1
    <3> QED
      BY <1>1, <1>2, <1>4, <2>1, <3>1 DEF IInv, Settled, Live
  <2>10. LoopState'
    BY <1>1, <1>4 DEF LoopState, Live
  <2>11. ForeignSeesAllBefore'
    BY <1>1 DEF ForeignSeesAllBefore
  <2>12. PendingOnce' /\ Balanced' /\ KeyedOrPending' /\ QueuedUnkeyed'
    <3>1. \A i \in DOMAIN pending : pending[i].name # p
      BY <1>2 DEF IInv, PendingOnce
    <3>2. None \notin keys'
      BY <1>2, <2>7, Constants, PipelineAssumption DEF IInv, TypeOK
    <3>3. CASE fs = {} /\ Commit(p) /\ UNCHANGED pending
      <4>1. Cardinality(Out') + credit' = Cardinality(Out) + credit
        BY <1>1, <2>2, <3>3
      <4>2. PendingOnce' /\ Balanced'
        BY <1>1, <1>2, <3>3, <4>1 DEF IInv, PendingOnce, Balanced
      <4>3. KeyedOrPending'
        BY <1>1, <1>2, <3>3 DEF IInv, KeyedOrPending, Commit
      <4>4. QueuedUnkeyed'
        BY <1>1, <2>7, <3>1, <3>2, <3>3 DEF IInv, QueuedUnkeyed
      <4> QED
        BY <4>2, <4>3, <4>4
    <3>4. CASE fs # {} /\ UNCHANGED keys
               /\ pending' = Append(pending, [name |-> p,
                                              left |-> Cardinality(fs)])
      <4> DEFINE e == [name |-> p, left |-> Cardinality(fs)]
                 n == Len(pending)
      <4>1. e \in PendingPackage /\ e.left = Cardinality(fs) /\ e.name = p
        BY <1>2, <2>2 DEF PendingPackage
      <4>2. Cardinality(fs) > 0
        BY <2>2, <3>4, FS_EmptySet
      <4>3. Owes(Append(pending, e), Cardinality(Out) + e.left)
        BY <2>4, <4>1, <4>2, OwesAppend
      <4>4. Balanced'
        <5>1. Cardinality(Out') + credit' = Cardinality(Out) + e.left
          BY <1>1, <2>2, <2>3, <2>4, <4>1
        <5>2. pending' = Append(pending, e)
          BY <3>4
        <5> HIDE DEF e
        <5> QED
          BY <4>3, <5>1, <5>2 DEF Balanced
      <4>5. /\ n \in Nat /\ DOMAIN pending = 1 .. n
            /\ DOMAIN pending' = 1 .. n + 1
            /\ pending'[n + 1].name = p
            /\ \A i \in 1 .. n : pending'[i] = pending[i]
        BY <2>4, <3>4, <4>1
      <4>6. PendingOnce'
        <5>1. \A i \in 1 .. n : pending'[i].name = pending[i].name
                                /\ pending[i].name \in Past
          BY <4>5 DEF IInv, PendingOnce
        <5>2. \A i, j \in 1 .. n : pending[i].name = pending[j].name => i = j
          BY <4>5 DEF IInv, PendingOnce
        <5>3. \A i \in 1 .. n + 1 : i = n + 1 \/ i \in 1 .. n
          BY <4>5
        <5> QED
          BY <1>2, <4>5, <5>1, <5>2, <5>3 DEF PendingOnce
      <4>7. KeyedOrPending'
        <5>1. n + 1 \in DOMAIN pending' /\ DOMAIN pending \subseteq DOMAIN pending'
          BY <4>5
        <5>2. \A q \in Past \cap Cacheable :
                q \in keys \/ \E i \in DOMAIN pending : pending[i].name = q
          BY <1>1 DEF IInv, KeyedOrPending
        <5>3. \A i \in DOMAIN pending : pending'[i].name = pending[i].name
          BY <4>5
        <5>4. \A q \in Past \cap Cacheable :
                q \in keys' \/ \E i \in DOMAIN pending' : pending'[i].name = q
          BY <3>4, <5>1, <5>2, <5>3
        <5> QED
          BY <1>2, <4>5, <5>1, <5>4 DEF KeyedOrPending
      <4>8. QueuedUnkeyed'
        <5>1. p \notin keys
          BY DEF IInv, QueuedUnkeyed
        <5>2. \A i \in 1 .. n : pending[i].name \notin keys
          BY <4>5 DEF IInv, QueuedUnkeyed
        <5>3. \A i \in 1 .. n + 1 : i = n + 1 \/ i \in 1 .. n
          BY <4>5
        <5> QED
          BY <1>1, <3>2, <3>4, <4>5, <5>1, <5>2, <5>3 DEF QueuedUnkeyed
      <4> QED
        BY <4>4, <4>6, <4>7, <4>8
    <3> QED
      BY <1>4, <3>3, <3>4 DEF Enqueue
  <2> QED
    BY <2>5, <2>6, <2>8, <2>9, <2>10, <2>11, <2>12 DEF Parts
<1>5. Listings(p) = {fs}
  BY DEF Listings
<1> QED
  BY <1>3, <1>4, <1>5 DEF GleamFinished

LEMMA ForeignDoneStep ==
  ASSUME IInv, TypeOK', ForeignFinished
  PROVE  Parts'
<1> DEFINE p == inFlight
<1> USE DEF service
<1>1. /\ UNCHANGED <<outstanding, answered, beams, alive, keys, next, pending, credit>>
      /\ phase = "wait" /\ proc = "ok" /\ ~IsGleam(p) /\ TypeOK
      /\ inFlight' = None /\ apps' = apps \cup {p} /\ phase' \in {"start", "error"}
      /\ p # None /\ credit = 0 /\ Live /\ None \notin keys
  BY Constants, PipelineAssumption
     DEF ForeignFinished, IInv, TypeOK, LoopState, Live, WriteError, FileError
<1>2. /\ p \in Package /\ p \in Started /\ p \notin Past
      /\ Started' = Started /\ Past' = Past \cup {p}
  BY <1>1, InFlightDone
<1>3. Artefacts[p] = {} /\ p \notin Cacheable
  BY <1>1, <1>2, PipelineAssumption DEF IsGleam
<1>4. Out' = Out
  BY <1>1 DEF Out
<1>5. AnswersOnce' /\ SendsOnce' /\ PendingOnce' /\ OldKeysTrue'
  BY <1>1, <1>2, <1>4 DEF IInv, AnswersOnce, SendsOnce, PendingOnce, OldKeysTrue
<1>6. Balanced' /\ Settled' /\ KeyedOrPending'
  BY <1>1, <1>2, <1>3, <1>4 DEF IInv, Balanced, Settled, KeyedOrPending, Live
<1>7. LoopState' /\ QueuedUnkeyed' /\ ForeignSeesAllBefore'
  BY <1>1 DEF IInv, LoopState, Live, QueuedUnkeyed, ForeignSeesAllBefore
<1> QED
  BY <1>5, <1>6, <1>7 DEF Parts

\* Reading answers frees their files.
LEMMA TakeFrees ==
  ASSUME IInv, NEW S \in SUBSET answered, Service!Take(S)
  PROVE  /\ Service!Files(S) \subseteq Out
         /\ Out' = Out \ Service!Files(S)
         /\ AnswersOnce'
         /\ Cardinality(Service!Files(S)) \in Nat
         /\ Cardinality(Out) = Cardinality(Out \ Service!Files(S))
                               + Cardinality(Service!Files(S))
<1> DEFINE F == Service!Files(S)
<1>1. answered' = answered \ S /\ outstanding' = outstanding
  BY DEF Service!Take
<1>2. Service!Files(answered \ S) = Service!Files(answered) \ F
  BY DEF IInv, AnswersOnce, Service!Files
<1>3. F \subseteq Out /\ Out' = Out \ F
  BY <1>1, <1>2 DEF IInv, AnswersOnce, Out, Service!Files
<1>4. AnswersOnce'
  BY <1>1, <1>2 DEF IInv, AnswersOnce
<1>5. TypeOK /\ IsFiniteSet(Out) /\ IsFiniteSet(F) /\ Cardinality(F) \in Nat
  BY <1>3, OutFinite, FS_Subset, FS_CardinalityType DEF IInv
<1>6. F \subseteq Source /\ (Out \ F) \subseteq Source
  BY <1>3, <1>5, OutFinite
<1>7. IsFiniteSet(Out \ F) /\ Cardinality(Out \ F) \in Nat
  BY <1>6, ArtefactsFinite
<1>8. Cardinality((Out \ F) \cup F)
       = Cardinality(Out \ F) + Cardinality(F) - Cardinality((Out \ F) \cap F)
  BY <1>5, <1>7, FS_Union
<1>9. (Out \ F) \cup F = Out /\ (Out \ F) \cap F = {}
  BY <1>3
<1>10. Cardinality(Out) = Cardinality(Out \ F) + Cardinality(F)
  <2>1. Cardinality((Out \ F) \cap F) = 0
    BY <1>9, FS_EmptySet
  <2>2. Cardinality((Out \ F) \cup F) = Cardinality(Out)
    BY <1>9
  <2> HIDE DEF F
  <2> QED
    BY <1>5, <1>7, <1>8, <2>1, <2>2
<1> QED
  BY <1>3, <1>4, <1>5, <1>10

LEMMA ReceiveCompiledStep ==
  ASSUME OneModulePerFile, IInv, TypeOK', ReceiveCompiled
  PROVE  Parts'
<1>1. PICK S \in SUBSET answered :
        /\ Service!Failed(S) = {} /\ Service!Take(S)
        /\ credit' = Cardinality(Service!Compiled(S))
  BY DEF ReceiveCompiled
<1>2. /\ phase = "wait" /\ phase' = "drain"
      /\ UNCHANGED <<keys, apps, next, inFlight, proc, pending>>
      /\ answered' = answered \ S /\ UNCHANGED <<outstanding, beams>>
      /\ Live /\ credit = 0
  BY <1>1 DEF ReceiveCompiled, disk, Service!Take, IInv, LoopState, Live
<1> DEFINE F == Service!Files(S)
<1>3. \A l \in S : l \in Service!Line /\ l.ok
  BY <1>1 DEF IInv, TypeOK, Service!TypeOK, Service!Line, Service!Failed, Service!Files
<1>4. Service!Compiled(S) = F
  BY <1>3 DEF Service!Compiled, Service!Files, OneModulePerFile, Service!Line
<1>5. /\ Out' = Out \ F /\ AnswersOnce' /\ credit' = Cardinality(F)
      /\ Cardinality(F) \in Nat
      /\ Cardinality(Out) = Cardinality(Out \ F) + Cardinality(F)
  BY <1>1, <1>4, TakeFrees
<1>6. Started' = Started /\ Past' = Past
  BY <1>2 DEF Started, Past
<1>7. SendsOnce' /\ PendingOnce' /\ KeyedOrPending' /\ OldKeysTrue'
  BY <1>2, <1>5, <1>6
     DEF IInv, SendsOnce, PendingOnce, KeyedOrPending, OldKeysTrue, Live
<1>8. Balanced'
  <2>1. Cardinality(Out) + credit = Cardinality(Out') + credit'
    <3>1. Cardinality(Out) \in Nat
      BY OutFinite DEF IInv
    <3> QED
      BY <1>2, <1>5, <3>1
  <2> QED
    BY <1>2, <2>1 DEF IInv, Balanced
<1>9. Settled'
  <2>1. \A g : [file |-> g, ok |-> FALSE] \notin S
    BY <1>3
  <2> QED
    BY <1>2, <1>6, <2>1 DEF IInv, Settled
<1>10. LoopState' /\ QueuedUnkeyed' /\ ForeignSeesAllBefore'
  BY <1>2 DEF IInv, LoopState, Live, QueuedUnkeyed, ForeignSeesAllBefore,
              InPlace, ModulesOf
<1> QED
  BY <1>5, <1>7, <1>8, <1>9, <1>10 DEF Parts

LEMMA ReceiveFailedStep ==
  ASSUME IInv, TypeOK', ReceiveFailed
  PROVE  Parts'
<1>1. PICK S \in SUBSET answered : Service!Take(S)
  BY DEF ReceiveFailed
<1>2. /\ phase' = "error"
      /\ UNCHANGED <<keys, apps, next, inFlight, proc, pending, beams>>
  BY <1>1 DEF ReceiveFailed, disk, Service!Take
<1>3. Out' = Out \ Service!Files(S) /\ AnswersOnce'
  BY <1>1, TakeFrees
<1>4. Started' = Started /\ Past' = Past
  BY <1>2 DEF Started, Past
<1>5. SendsOnce' /\ PendingOnce' /\ OldKeysTrue'
  BY <1>2, <1>3, <1>4 DEF IInv, SendsOnce, PendingOnce, OldKeysTrue
<1> QED
  BY <1>2, <1>3, <1>5, GiveUp

\* The front package of the queue is paid: it leaves with its key.
LEMMA PopStep ==
  ASSUME IInv, TypeOK', DrainPop
  PROVE  Parts'
<1> DEFINE q == pending
           p == Head(pending).name
           n == Len(pending)
<1> USE DEF service
<1>1. /\ UNCHANGED <<outstanding, answered, beams, alive, apps, next, inFlight,
                     proc, phase>>
      /\ phase = "drain" /\ Live /\ Live' /\ q # <<>> /\ TypeOK
      /\ Head(q).left <= credit /\ credit' = credit - Head(q).left
      /\ pending' = Tail(q) /\ keys' = keys \cup ({p} \cap Cacheable)
  BY DEF DrainPop, Commit, Live, IInv
<1>2. Out' = Out /\ Started' = Started /\ Past' = Past
  BY <1>1 DEF Out, Started, Past
<1>3. /\ n \in Nat \ {0} /\ DOMAIN q = 1 .. n /\ DOMAIN pending' = 1 .. n - 1
      /\ \A i \in 1 .. n - 1 : pending'[i] = q[i + 1]
      /\ q[1].name = p /\ Head(q) \in PendingPackage
  BY <1>1, HeadTailProperties DEF TypeOK
<1>4. /\ \A i \in 1 .. n : q[i].name \in Past
      /\ \A i, j \in 1 .. n : q[i].name = q[j].name => i = j
  BY <1>3 DEF IInv, PendingOnce
<1>5. p \in Past
  BY <1>3, <1>4
<1>6. AnswersOnce' /\ SendsOnce' /\ LoopState'
  BY <1>1, <1>2 DEF IInv, AnswersOnce, SendsOnce, LoopState, Live
<1>7. PendingOnce'
  <2>1. \A i \in 1 .. n - 1 : i + 1 \in 1 .. n
    BY <1>3
  <2>2. \A i, j \in 1 .. n - 1 : i + 1 = j + 1 => i = j
    BY <1>3
  <2> QED
    BY <1>2, <1>3, <1>4, <2>1, <2>2 DEF PendingOnce
<1>8. Balanced'
  <2>1. Cardinality(Out) \in Nat /\ credit \in Nat /\ Head(q).left \in Nat
    BY <1>1, <1>3, OutFinite DEF TypeOK, PendingPackage
  <2>2. Owes(q, Cardinality(Out) + credit) /\ Cardinality(Out) + credit \in Nat
    BY <1>1, <2>1 DEF IInv, Balanced
  <2>3. PICK total \in Nat : total = Cardinality(Out) + credit /\ Owes(q, total)
    BY <2>2
  <2>4. Owes(Tail(q), total - Head(q).left)
    BY <1>1, <2>3, OwesPop DEF TypeOK
  <2>5. total - Head(q).left = Cardinality(Out') + credit'
    BY <1>1, <1>2, <2>1, <2>3
  <2> QED
    BY <1>1, <2>4, <2>5 DEF Balanced
<1>9. Settled'
  BY <1>1, <1>2 DEF IInv, Settled
<1>10. KeyedOrPending'
  <2> SUFFICES ASSUME NEW r \in Past \cap Cacheable, r \notin keys, r # p
               PROVE  \E i \in DOMAIN pending' : pending'[i].name = r
    BY <1>1, <1>2 DEF KeyedOrPending
  <2>1. PICK i \in 1 .. n : q[i].name = r
    BY <1>1, <1>3 DEF IInv, KeyedOrPending
  <2>2. i - 1 \in 1 .. n - 1 /\ (i - 1) + 1 = i
    BY <1>3, <2>1
  <2> QED
    BY <1>3, <2>1, <2>2
<1>11. OldKeysTrue'
  BY <1>1, <1>2, <1>5 DEF IInv, OldKeysTrue, Past
<1>12. QueuedUnkeyed'
  <2>1. inFlight # p
    BY <1>5 DEF Past
  <2>2. \A i \in 1 .. n - 1 : i + 1 \in 1 .. n /\ i + 1 # 1
    BY <1>3
  <2>3. \A i \in 1 .. n - 1 : q[i + 1].name # p /\ q[i + 1].name \notin keys
    BY <1>3, <1>4, <2>2 DEF IInv, QueuedUnkeyed
  <2> QED
    BY <1>1, <1>3, <2>1, <2>3 DEF IInv, QueuedUnkeyed
<1>13. ForeignSeesAllBefore'
  BY <1>1 DEF IInv, ForeignSeesAllBefore, InPlace, ModulesOf
<1> QED
  BY <1>6, <1>7, <1>8, <1>9, <1>10, <1>11, <1>12, <1>13 DEF Parts

\* The front package is paid in part.
LEMMA FrontStep ==
  ASSUME IInv, TypeOK', DrainFront
  PROVE  Parts'
<1> DEFINE q == pending
           n == Len(pending)
<1> USE DEF service, disk
<1>1. /\ UNCHANGED <<outstanding, answered, beams, alive, keys, apps, next,
                     inFlight, proc>>
      /\ phase = "drain" /\ phase' = "start" /\ Live /\ q # <<>> /\ TypeOK
      /\ Head(q).left > credit /\ credit' = 0
      /\ pending' = [q EXCEPT ![1] = [name |-> q[1].name,
                                      left |-> q[1].left - credit]]
  BY DEF DrainFront, Live, IInv
<1>2. Out' = Out /\ Started' = Started /\ Past' = Past
  BY <1>1 DEF Out, Started, Past
<1>3. /\ n \in Nat \ {0} /\ DOMAIN q = 1 .. n /\ DOMAIN pending' = 1 .. n
      /\ Len(pending') = n /\ Head(q) = q[1] /\ q[1] \in PendingPackage
      /\ pending'[1].left = q[1].left - credit
      /\ \A i \in 2 .. n : pending'[i] = q[i]
      /\ \A i \in 1 .. n : pending'[i].name = q[i].name
  BY <1>1 DEF TypeOK
<1>4. AnswersOnce' /\ SendsOnce' /\ OldKeysTrue'
  BY <1>1, <1>2 DEF IInv, AnswersOnce, SendsOnce, OldKeysTrue
<1>5. PendingOnce' /\ KeyedOrPending' /\ QueuedUnkeyed'
  BY <1>1, <1>2, <1>3
     DEF IInv, PendingOnce, KeyedOrPending, QueuedUnkeyed, Live
<1>6. Balanced'
  <2>1. Cardinality(Out) \in Nat /\ credit \in Nat
    BY <1>1, OutFinite DEF TypeOK
  <2>2. Owes(q, Cardinality(Out) + credit) /\ Cardinality(Out) + credit \in Nat
    BY <1>1, <2>1 DEF IInv, Balanced
  <2>3. pending' \in Seq(PendingPackage) /\ q \in Seq(PendingPackage)
    BY <1>1 DEF TypeOK
  <2>4. PICK total \in Nat : total = Cardinality(Out) + credit /\ Owes(q, total)
    BY <2>2
  <2>5. \A r \in Seq(PendingPackage) :
          /\ Len(r) = Len(q) /\ r[1].left = q[1].left - credit
          /\ \A i \in 2 .. Len(q) : r[i] = q[i]
          => Owes(r, total - credit)
    BY <1>1, <2>1, <2>3, <2>4, OwesFront
  <2>6. Owes(pending', total - credit)
    BY <1>3, <2>3, <2>5
  <2>7. total - credit = Cardinality(Out') + credit'
    BY <1>1, <1>2, <2>1, <2>4
  <2> QED
    BY <2>6, <2>7 DEF Balanced
<1>7. Settled'
  BY <1>1, <1>2 DEF IInv, Settled, Live
<1>8. LoopState'
  BY <1>1, <1>3 DEF IInv, LoopState, Live
<1>9. ForeignSeesAllBefore'
  BY <1>1 DEF IInv, ForeignSeesAllBefore, InPlace, ModulesOf
<1> QED
  BY <1>4, <1>5, <1>6, <1>7, <1>8, <1>9 DEF Parts

\* A drained chunk leaves no credit over: an empty queue owes nothing.
LEMMA DoneStep ==
  ASSUME IInv, TypeOK', DrainDone
  PROVE  Parts'
<1>1. /\ UNCHANGED <<service, disk, next, inFlight, proc, pending>>
      /\ phase = "drain" /\ phase' = "start" /\ credit' = 0 /\ Live
  BY DEF DrainDone, Live
<1>2. credit = 0
  BY <1>1, NothingUnderWay DEF DrainDone
<1> QED
  BY <1>1, <1>2, LoopOnly DEF LoopState, Live, IInv
-----------------------------------------------------------------------------

LEMMA InvInit == ASSUME OneModulePerFile, Init PROVE IInv
<1>1. TypeOK
  BY TypeInit
<1>2. Started = {} /\ Past = {} /\ Out = {}
  BY DEF Init, Started, Past, Out, Service!Files
<1>3. keys \subseteq Package
  BY Constants DEF Init
<1>4. AnswersOnce /\ SendsOnce /\ PendingOnce /\ Settled /\ KeyedOrPending
  BY <1>2 DEF Init, AnswersOnce, SendsOnce, PendingOnce, Settled,
              KeyedOrPending, Service!Files
<1>5. Balanced
  BY <1>2, OwesEmpty, FS_EmptySet DEF Init, Balanced
<1>6. OldKeysTrue
  BY <1>3, ModulesAreFiles DEF Init, OldKeysTrue
<1>7. LoopState /\ QueuedUnkeyed /\ ForeignSeesAllBefore
  BY <1>3, PipelineAssumption
     DEF Init, LoopState, Live, QueuedUnkeyed, ForeignSeesAllBefore
<1> QED
  BY <1>1, <1>4, <1>5, <1>6, <1>7 DEF IInv

LEMMA InvStep ==
  ASSUME OneModulePerFile, ~ListingMayFail, IInv, [Next]_vars
  PROVE  IInv'
<1>1. TypeOK'
  BY TypeStep DEF IInv
<1>2. CASE Next
  BY <1>1, <1>2, HitStep, MissStep, MissFailsStep, ForeignStep, QuietSteps, GleamStep,
     ForeignDoneStep, ReceiveCompiledStep, ReceiveFailedStep, PopStep,
     FrontStep, DoneStep, BeamStep
     DEF Next, Start, Receive, Drain, IInv, Parts
<1>3. CASE UNCHANGED vars
  BY <1>1, <1>3, LoopOnly DEF vars, service, disk, Live, LoopState, IInv, Parts
<1> QED
  BY <1>2, <1>3

\* In a project of .erl files, whose artefact directories can be read, the
\* pipeline's books are always balanced.
THEOREM PipelineInvariant ==
  ASSUME OneModulePerFile, ~ListingMayFail
  PROVE  Spec => []IInv
<1>1. Init => IInv
  BY InvInit
<1>2. IInv /\ [Next]_vars => IInv'
  BY InvStep
<1> QED
  BY <1>1, <1>2, PTL DEF Spec
-----------------------------------------------------------------------------
(* The properties, for every project of .erl files.                        *)

\* compile (project_compiler.gleam) returns Ok only when every package is in
\* place and no answer is left over for the entrypoint compile to receive.
THEOREM OkComplete ==
  ASSUME OneModulePerFile, ~ListingMayFail
  PROVE  Spec => []OkMeansComplete
<1>1. ASSUME IInv PROVE OkMeansComplete
  <2> SUFFICES ASSUME phase = "ok"
               PROVE  /\ \A p \in Package : InPlace(p)
                      /\ outstanding = {} /\ answered = {}
    BY DEF OkMeansComplete
  <2>1. Live /\ next > Len(Deps) /\ inFlight = None /\ pending = <<>>
    BY <1>1 DEF IInv, LoopState, Live
  <2>2. outstanding = {} /\ answered = {}
    BY <1>1, <2>1, NothingUnderWay
  <2>3. Past = Package
    BY <1>1, <2>1, StartedPackages, PipelineAssumption DEF IInv, Past
  <2>4. \A p \in Package : p \in apps /\ Artefacts[p] \subseteq beams
    BY <1>1, <2>1, <2>2, <2>3 DEF IInv, Settled
  <2> QED
    BY <2>2, <2>4, ModulesAreFiles DEF InPlace
<1> QED
  BY <1>1, PipelineInvariant, PTL

\* maybe_start_compile starts a Rebar3 or Mix package only when all packages
\* before it are in place.
THEOREM ForeignWaits ==
  ASSUME OneModulePerFile, ~ListingMayFail
  PROVE  Spec => []ForeignSeesAllBefore
<1>1. IInv => ForeignSeesAllBefore
  BY DEF IInv
<1> QED
  BY <1>1, PipelineInvariant, PTL

\* A build that succeeds has committed the key of every cacheable package.
THEOREM OkCached ==
  ASSUME OneModulePerFile, ~ListingMayFail
  PROVE  Spec => []OkMeansCached
<1>1. ASSUME IInv PROVE OkMeansCached
  <2> SUFFICES ASSUME phase = "ok", NEW p \in Cacheable PROVE p \in keys
    BY DEF OkMeansCached
  <2>1. Live /\ next > Len(Deps) /\ inFlight = None /\ pending = <<>>
    BY <1>1 DEF IInv, LoopState, Live
  <2>2. p \in Past
    BY <1>1, <2>1, StartedPackages, Constants, PipelineAssumption
       DEF IInv, Past
  <2> QED
    BY <1>1, <2>1, <2>2 DEF IInv, KeyedOrPending
<1> QED
  BY <1>1, PipelineInvariant, PTL

\* A loop that gives up waits for a process that is still at work.
THEOREM NoTimeout ==
  ASSUME OneModulePerFile, ~ListingMayFail
  PROVE  Spec => NoVainWait
<1>1. ASSUME IInv, Timeout, NobodyBusy PROVE FALSE
  <2>1. /\ phase = "wait" /\ Live /\ inFlight = None
        /\ outstanding = {} /\ answered = {}
    BY <1>1 DEF Timeout, NothingToReceive, NobodyBusy, Live
  <2>2. pending # <<>> /\ credit = 0 /\ Out = {} /\ TypeOK
    BY <1>1, <2>1 DEF IInv, LoopState, Out, Service!Files
  <2>3. Cardinality(Out) = 0
    BY <2>2, FS_EmptySet
  <2>4. Owes(pending, 0)
    BY <1>1, <2>1, <2>2, <2>3 DEF IInv, Balanced
  <2> QED
    BY <2>2, <2>4, OwesNothing DEF TypeOK
<1>2. ASSUME IInv, [Next]_vars, phase # "timeout", phase' = "timeout"
      PROVE  ~NobodyBusy
  <2> USE <1>2 DEF loop
  <2>1. CASE Start
    BY <2>1 DEF Start, StartHit, StartMiss, StartMissFails, StartForeign,
                Finish, StartNothing, WriteError, FileError
  <2>2. CASE Receive
    BY <1>1, <2>2 DEF Receive, GleamFinished, ForeignFinished, CompileFailed,
                Chatter, ReceiveCompiled, ReceiveFailed, ReceiveExited,
                WriteError, FileError
  <2>3. CASE Drain
    BY <2>3 DEF Drain, DrainPop, DrainFails, DrainFront, DrainDone, FileError
  <2>4. CASE ProcessExit \/ BeamWork \/ BeamCrash
    BY <2>4 DEF ProcessExit, BeamWork, BeamCrash
  <2>5. CASE UNCHANGED vars
    BY <2>5 DEF vars
  <2> QED
    BY <2>1, <2>2, <2>3, <2>4, <2>5 DEF Next
<1>3. IInv /\ [Next]_vars =>
        [phase # "timeout" /\ phase' = "timeout" => ~NobodyBusy]_vars
  BY <1>2
<1> QED
  BY <1>3, PipelineInvariant, PTL DEF Spec, NoVainWait
-----------------------------------------------------------------------------
(* Several builds: in a project of .erl files where a package that needs   *)
(* the BEAM compiler is never followed by another before the queue has     *)
(* drained, a stored key always stands for a complete package, however     *)
(* many builds were killed, failed or finished before.                     *)

\* Between two packages with files there is one that waits for the queue.
Solo ==
  \A i, j \in DOMAIN Deps :
    i < j /\ Artefacts[Deps[i]] # {} /\ Artefacts[Deps[j]] # {}
      => \E k \in i + 1 .. j - 1 : ~IsGleam(Deps[k])

\* Not only the keys found at the start: those of this build are true too.
KeysTrue == \A p \in keys : p \in apps /\ Artefacts[p] \subseteq beams

\* What is in the queue has files, and nothing that waits for it has started.
Waited ==
  \A j \in DOMAIN pending : \E i \in 1 .. next - 1 :
    /\ Deps[i] = pending[j].name /\ Artefacts[Deps[i]] # {}
    /\ \A k \in i + 1 .. next - 1 : IsGleam(Deps[k])

Alone == Len(pending) <= 1

\* No package with a key has a file that is still out.
OutUnkeyed == \A p \in keys : Artefacts[p] \cap Out = {}

RInv == IInv /\ KeysTrue /\ Waited /\ Alone /\ OutUnkeyed

-----------------------------------------------------------------------------

\* Steps that commit no key and lose nothing of what is on disk.
LEMMA Growing ==
  ASSUME KeysTrue, keys' \subseteq keys, apps \subseteq apps', beams \subseteq beams'
  PROVE  KeysTrue'
BY DEF KeysTrue

\* Steps that leave queue and position alone.
LEMMA SameQueue ==
  ASSUME Waited, Alone, UNCHANGED <<pending, next>>
  PROVE  Waited' /\ Alone'
BY DEF Waited, Alone

\* What is in the queue is alone there.
LEMMA OneOwed ==
  ASSUME TypeOK, Alone, pending # <<>>
  PROVE  Len(pending) = 1 /\ DOMAIN pending = {1}
<1>1. pending \in Seq(PendingPackage)
  BY DEF TypeOK
<1>2. Len(pending) \in Nat \ {0}
  <2>1. \A q \in Seq(PendingPackage) : q # <<>> => Len(q) \in Nat \ {0}
    BY EmptySeq, Zenon
  <2> QED BY <1>1, <2>1
<1>3. Len(pending) = 1
  <2>1. \A n \in Nat \ {0} : n <= 1 => n = 1
    OBVIOUS
  <2> QED BY <1>2, <2>1, Zenon DEF Alone
<1>4. DOMAIN pending = 1 .. Len(pending)
  BY <1>1
<1> QED BY <1>3, <1>4

\* A Gleam package is taken from remaining: what is in the queue still waits.
LEMMA GleamStarts ==
  ASSUME IInv, Waited, Alone, pending' = pending, next' = next + 1,
         next <= Len(Deps), IsGleam(Deps[next])
  PROVE  Waited' /\ Alone'
<1>1. next \in Nat \ {0}
  BY Constants DEF IInv, TypeOK
<1>2. ASSUME NEW j \in DOMAIN pending
      PROVE  \E i \in 1 .. next : /\ Deps[i] = pending[j].name /\ Artefacts[Deps[i]] # {}
                                  /\ \A k \in i + 1 .. next : IsGleam(Deps[k])
  <2>1. PICK i \in 1 .. next - 1 :
               /\ Deps[i] = pending[j].name /\ Artefacts[Deps[i]] # {}
               /\ \A k \in i + 1 .. next - 1 : IsGleam(Deps[k])
    BY <1>2 DEF Waited
  <2>2. i \in 1 .. next /\ \A k \in i + 1 .. next : IsGleam(Deps[k])
    BY <1>1, <2>1
  <2> QED BY <2>1, <2>2
<1>3. next' - 1 = next
  BY <1>1
<1>4. Waited'
  BY <1>2, <1>3 DEF Waited
<1> QED BY <1>4 DEF Alone

\* reset_directory: only a package without a key loses anything.
LEMMA ResetKeeps ==
  ASSUME OneModulePerFile, RInv, CanStart, ~Hit(head),
         keys' \subseteq keys, apps \ {head} \subseteq apps',
         beams \ ModulesOf(head) \subseteq beams'
  PROVE  KeysTrue'
<1>1. head \in Package /\ keys \subseteq Cacheable /\ Cacheable \subseteq Package
  BY StartedNext, Constants DEF RInv, IInv, TypeOK, CanStart, head
<1>2. head \notin keys
  BY <1>1 DEF RInv, KeysTrue, Hit
<1>3. ASSUME NEW p \in keys' PROVE p \in apps' /\ Artefacts[p] \subseteq beams'
  <2>1. p \in Package /\ p # head /\ p \in apps /\ Artefacts[p] \subseteq beams
    BY <1>1, <1>2, <1>3 DEF RInv, KeysTrue
  <2>2. Artefacts[p] \cap Artefacts[head] = {}
    BY <1>1, <2>1, PipelineAssumption
  <2>3. ModulesOf(head) = Artefacts[head]
    BY <1>1, ModulesAreFiles
  <2> QED BY <2>1, <2>2, <2>3
<1> QED BY <1>3 DEF KeysTrue

\* A package that is paid for in full is complete: alone in the queue, it is
\* the one all answers were of.
LEMMA PopKeeps ==
  ASSUME RInv, DrainPop
  PROVE  KeysTrue' /\ Waited' /\ Alone' /\ OutUnkeyed'
<1> DEFINE p == Head(pending).name
<1>1. /\ UNCHANGED <<outstanding, answered, beams, alive, apps, next, inFlight>>
      /\ Live /\ pending # <<>> /\ Head(pending).left <= credit
      /\ keys' \subseteq keys \cup {p} /\ pending' = Tail(pending)
  BY DEF DrainPop, Commit, service, Live
<1>2. pending \in Seq(PendingPackage) /\ credit \in Nat /\ TypeOK
  BY DEF RInv, IInv, TypeOK
<1>3. /\ Len(pending) = 1 /\ Head(pending) = pending[1] /\ pending[1] \in PendingPackage
      /\ Tail(pending) = <<>>
  <2>1. Len(pending) = 1
    BY <1>1, <1>2, OneOwed DEF RInv
  <2>2. Head(pending) = pending[1] /\ pending[1] \in PendingPackage
    BY <1>2, <2>1
  <2>3. Tail(pending) \in Seq(PendingPackage) /\ Len(Tail(pending)) = 0
    BY <1>1, <1>2, <2>1, HeadTailProperties
  <2> QED BY <2>1, <2>2, <2>3, EmptySeq
<1>4. Out = {}
  <2>1. Cardinality(Out) \in Nat /\ IsFiniteSet(Out)
    BY <1>2, OutFinite
  <2>2. Owes(pending, Cardinality(Out) + credit)
    BY <1>1 DEF RInv, IInv, Balanced
  <2>3. PICK total \in Nat : total = Cardinality(Out) + credit /\ Owes(pending, total)
    BY <1>2, <2>1, <2>2
  <2>4. Owes(<<>>, total - pending[1].left)
    BY <1>1, <1>2, <1>3, <2>3, OwesPop
  <2>5. pending[1].left \in Nat /\ total - pending[1].left \in Nat
    BY <1>1, <1>2, <1>3, <2>1, <2>3 DEF PendingPackage
  <2>6. total - pending[1].left = 0
    <3>1. <<>> \in Seq(PendingPackage)
      OBVIOUS
    <3> QED BY <2>4, <2>5, <3>1, OwesNothing
  <2>7. Cardinality(Out) = 0
    BY <1>1, <1>2, <1>3, <2>1, <2>3, <2>5, <2>6
  <2> QED BY <2>1, <2>7, FS_EmptySet
<1>5. outstanding = {} /\ answered = {}
  BY <1>4 DEF Out, Service!Files
<1>6. 1 \in DOMAIN pending /\ p \in Past
  BY <1>2, <1>3 DEF RInv, IInv, PendingOnce
<1>7. p \in apps /\ Artefacts[p] \subseteq beams
  BY <1>1, <1>5, <1>6 DEF RInv, IInv, Settled
<1>8. KeysTrue'
  BY <1>1, <1>7 DEF RInv, KeysTrue
<1>9. Out' = {}
  BY <1>1, <1>4 DEF Out, Service!Files
<1>10. OutUnkeyed'
  BY <1>9 DEF OutUnkeyed
<1>11. Waited' /\ Alone'
  BY <1>1, <1>3 DEF Waited, Alone
<1> QED BY <1>8, <1>10, <1>11

\* Steps that commit no key and send nothing.
LEMMA SameKeys ==
  ASSUME OutUnkeyed, keys' \subseteq keys, Out' \subseteq Out
  PROVE  OutUnkeyed'
BY DEF OutUnkeyed

\* The files a finished package sends are its own, and it has no key; one
\* whose key is committed at once has none to send.
LEMMA GleamUnkeyed ==
  ASSUME ~ListingMayFail, RInv, GleamFinished
  PROVE  OutUnkeyed'
<1>1. inFlight \in Package /\ inFlight \notin keys /\ keys \subseteq Package
  BY Constants, PipelineAssumption DEF GleamFinished, RInv, IInv, TypeOK, QueuedUnkeyed
<1>2. CASE UNCHANGED <<keys, outstanding, answered>>
  BY <1>2, SameKeys DEF RInv, Out, Service!Files
<1>3. CASE ~UNCHANGED <<keys, outstanding, answered>>
  <2>1. /\ Service!Send(Artefacts[inFlight]) /\ Enqueue(Artefacts[inFlight])
    BY <1>3 DEF GleamFinished, Listings, service
  <2>2. Out' = Out \cup Artefacts[inFlight]
    BY <2>1 DEF Service!Send, Out, Service!Files
  <2>3. keys' = keys \/ (Artefacts[inFlight] = {} /\ keys' \subseteq keys \cup {inFlight})
    BY <2>1 DEF Enqueue, Commit
  <2>4. \A p \in keys : Artefacts[p] \cap Artefacts[inFlight] = {}
    BY <1>1, PipelineAssumption
  <2>5. CASE keys' = keys
    BY <2>2, <2>4, <2>5 DEF RInv, OutUnkeyed
  <2>6. CASE Artefacts[inFlight] = {} /\ keys' \subseteq keys \cup {inFlight}
    BY <2>2, <2>6 DEF RInv, OutUnkeyed
  <2> QED BY <2>3, <2>5, <2>6
<1> QED BY <1>2, <1>3

\* A package that is finished: one with files finds the queue empty.
LEMMA GleamKeeps ==
  ASSUME Solo, ~ListingMayFail, RInv, GleamFinished
  PROVE  KeysTrue' /\ Waited' /\ Alone'
<1>1. /\ inFlight \in Package /\ inFlight # None
      /\ next > 1 /\ inFlight = Deps[next - 1] /\ pending \in Seq(PendingPackage)
      /\ UNCHANGED <<next, beams>> /\ apps \subseteq apps' /\ IsGleam(inFlight)
      /\ next \in Nat
  BY Constants, PipelineAssumption
     DEF GleamFinished, RInv, IInv, TypeOK, LoopState, Service!Send, service
<1>2. CASE UNCHANGED <<keys, pending>>
  BY <1>1, <1>2, Growing, SameQueue DEF RInv
<1>3. CASE ~UNCHANGED <<keys, pending>>
  <2>1. apps' = apps \cup {inFlight} /\ Enqueue(Artefacts[inFlight])
    BY <1>3 DEF GleamFinished, Listings
  <2>2. CASE Artefacts[inFlight] = {}
    <3>1. keys' \subseteq keys \cup {inFlight} /\ UNCHANGED pending
      BY <2>1, <2>2 DEF Enqueue, Commit
    <3> QED BY <1>1, <2>1, <2>2, <3>1, SameQueue DEF RInv, KeysTrue
  <2>3. CASE Artefacts[inFlight] # {}
    <3>1. /\ UNCHANGED keys
          /\ pending' = Append(pending, [name |-> inFlight, left |-> Cardinality(Artefacts[inFlight])])
      BY <2>1, <2>3 DEF Enqueue
    <3>2. pending = <<>>
      <4> SUFFICES ASSUME pending # <<>> PROVE FALSE
        OBVIOUS
      <4>1. 1 \in DOMAIN pending
        BY <1>1
      <4>2. PICK i \in 1 .. next - 1 :
                   /\ Deps[i] = pending[1].name /\ Artefacts[Deps[i]] # {}
                   /\ \A k \in i + 1 .. next - 1 : IsGleam(Deps[k])
        BY <4>1 DEF RInv, Waited
      <4>3. i # next - 1
        BY <1>1, <4>1, <4>2 DEF RInv, IInv, PendingOnce, Past
      <4>4. i \in DOMAIN Deps /\ next - 1 \in DOMAIN Deps /\ i < next - 1
        BY <1>1, <4>2, <4>3, Constants, PipelineAssumption DEF RInv, IInv, TypeOK
      <4>5. \E k \in i + 1 .. (next - 1) - 1 : ~IsGleam(Deps[k])
        BY <1>1, <2>3, <4>2, <4>4 DEF Solo
      <4> QED BY <1>1, <4>2, <4>5
    <3>3. /\ DOMAIN pending' = {1} /\ pending'[1].name = inFlight /\ Len(pending') = 1
      BY <3>1, <3>2
    <3>4. next - 1 \in 1 .. next' - 1 /\ \A k \in (next - 1) + 1 .. next' - 1 : IsGleam(Deps[k])
      BY <1>1
    <3>5. Waited'
      BY <1>1, <2>3, <3>3, <3>4 DEF Waited
    <3> QED BY <1>1, <3>1, <3>3, <3>5, Growing DEF Alone, RInv
  <2> QED BY <2>2, <2>3
<1> QED BY <1>2, <1>3

-----------------------------------------------------------------------------

\* Only the commits above and the files a finished package sends could break
\* it.
LEMMA OutStep ==
  ASSUME ~ListingMayFail, RInv, [Next]_vars
  PROVE  OutUnkeyed'
<1>1. CASE GleamFinished
  BY <1>1, GleamUnkeyed
<1>2. CASE DrainPop
  BY <1>2, PopKeeps
<1>3. CASE BeamWork
  <2>1. PICK f \in Source : Service!Compile(f) \/ Service!Fail(f)
    BY <1>3 DEF BeamWork, Service!Work
  <2>2. UNCHANGED keys /\ f \in outstanding /\ outstanding' = outstanding \ {f}
    BY <1>3, <2>1 DEF BeamWork, disk, Service!Compile, Service!Fail
  <2>3. PICK r \in BOOLEAN : answered' = answered \cup {[file |-> f, ok |-> r]}
    BY <2>1 DEF Service!Compile, Service!Fail
  <2> DEFINE l == [file |-> f, ok |-> r]
  <2>4. {a.file : a \in answered'} = {a.file : a \in answered} \cup {f}
    <3>1. l.file = f
      OBVIOUS
    <3>2. answered' = answered \cup {l}
      BY <2>3
    <3> HIDE DEF l
    <3> QED BY <3>1, <3>2
  <2>5. Out' = Out
    BY <2>2, <2>4 DEF Out, Service!Files
  <2> QED BY <2>2, <2>5, SameKeys DEF RInv
<1>4. CASE ReceiveCompiled \/ ReceiveFailed
  <2>1. PICK S \in SUBSET answered : Service!Take(S) /\ UNCHANGED keys
    BY <1>4 DEF ReceiveCompiled, ReceiveFailed, disk
  <2>2. Out' \subseteq Out
    BY <2>1 DEF Service!Take, Out, Service!Files
  <2> QED BY <2>1, <2>2, SameKeys DEF RInv
<1>5. CASE \/ StartHit \/ StartMiss \/ StartMissFails \/ StartForeign \/ Finish
           \/ StartNothing \/ ForeignFinished \/ CompileFailed \/ Chatter
           \/ ReceiveExited \/ Timeout \/ DrainFails \/ DrainFront \/ DrainDone
           \/ ProcessExit \/ BeamCrash \/ UNCHANGED vars
  <2>1. UNCHANGED <<outstanding, answered>> /\ keys' \subseteq keys
    BY <1>5
       DEF StartHit, StartMiss, StartMissFails, StartForeign, Finish, StartNothing,
           ForeignFinished, CompileFailed, Chatter, ReceiveExited, Timeout, DrainFails,
           DrainFront, DrainDone, ProcessExit, BeamCrash, Service!Crash, service, disk, vars
  <2> QED BY <2>1, SameKeys DEF RInv, Out, Service!Files
<1> QED
  BY <1>1, <1>2, <1>3, <1>4, <1>5 DEF Next, Start, Receive, Drain

\* One step of a build.
LEMMA BuildStep ==
  ASSUME OneModulePerFile, ~ListingMayFail, Solo, RInv, [Next]_vars
  PROVE  RInv'
<1>1. IInv'
  BY InvStep DEF RInv
<1> SUFFICES KeysTrue' /\ Waited' /\ Alone'
  BY <1>1, OutStep DEF RInv
<1>2. CASE StartHit
  <2>1. CASE next' = next + 1
    BY <1>2, <2>1, GleamStarts, Growing DEF StartHit, CanStart, RInv, disk, service, head
  <2>2. CASE UNCHANGED next
    BY <1>2, <2>2, SameQueue, Growing DEF StartHit, RInv, disk, service
  <2> QED BY <1>2, <2>1, <2>2 DEF StartHit
<1>3. CASE StartMiss
  <2>1. KeysTrue'
    BY <1>3, ResetKeeps DEF StartMiss
  <2> QED BY <1>3, <2>1, GleamStarts DEF StartMiss, CanStart, RInv, head
<1>4. CASE StartMissFails
  <2>1. /\ keys' \subseteq keys /\ apps \ {head} \subseteq apps'
        /\ beams \ ModulesOf(head) \subseteq beams'
    BY <1>4 DEF StartMissFails
  <2>2. KeysTrue'
    BY <1>4, <2>1, ResetKeeps DEF StartMissFails
  <2> QED BY <1>4, <2>2, SameQueue DEF StartMissFails, RInv
<1>5. CASE StartForeign
  <2>1. pending = <<>> /\ pending' = <<>> /\ KeysTrue'
    BY <1>5, Growing DEF StartForeign, disk, service, RInv
  <2> QED BY <2>1 DEF Waited, Alone
<1>6. CASE GleamFinished
  BY <1>6, GleamKeeps
<1>7. CASE DrainPop
  BY <1>7, PopKeeps
<1>8. CASE DrainFront
  <2>1. UNCHANGED <<keys, apps, beams, next>>
    BY <1>8 DEF DrainFront, service, disk
  <2>2. Len(pending) = 1 /\ DOMAIN pending = {1}
    BY <1>8, OneOwed DEF DrainFront, RInv, IInv
  <2>3. pending' = [pending EXCEPT ![1] = [name |-> pending[1].name,
                                           left |-> pending[1].left - credit]]
    BY <1>8 DEF DrainFront
  <2>4. pending \in Seq(PendingPackage)
    BY DEF RInv, IInv, TypeOK
  <2>5. /\ DOMAIN pending' = {1} /\ pending'[1].name = pending[1].name
        /\ Len(pending') = 1
    BY <2>2, <2>3, <2>4
  <2> QED BY <2>1, <2>2, <2>5, Growing DEF RInv, Waited, Alone
<1>9. CASE BeamWork
  <2>1. PICK f \in Source : Service!Compile(f) \/ Service!Fail(f)
    BY <1>9 DEF BeamWork, Service!Work
  <2>2. beams \subseteq beams' /\ UNCHANGED <<keys, apps, pending, next>>
    BY <1>9, <2>1 DEF BeamWork, disk, loop, Service!Compile, Service!Fail
  <2> QED BY <2>2, Growing, SameQueue DEF RInv
<1>10. CASE \/ Finish \/ StartNothing \/ ForeignFinished \/ CompileFailed \/ Chatter
            \/ ReceiveExited \/ Timeout \/ DrainFails \/ DrainDone \/ ProcessExit
            \/ UNCHANGED vars
  <2>1. UNCHANGED <<keys, pending, next, beams>> /\ apps \subseteq apps'
    BY <1>10
       DEF Finish, StartNothing, ForeignFinished, CompileFailed, Chatter, ReceiveExited, Timeout,
           DrainFails, DrainDone, ProcessExit, service, disk, loop, vars
  <2> QED BY <2>1, Growing, SameQueue DEF RInv
<1>11. CASE ReceiveCompiled \/ ReceiveFailed \/ BeamCrash
  <2>1. UNCHANGED <<keys, pending, next, beams>> /\ apps \subseteq apps'
    BY <1>11
       DEF ReceiveCompiled, ReceiveFailed, BeamCrash, Service!Take, Service!Crash, disk, loop
  <2> QED BY <2>1, Growing, SameQueue DEF RInv
<1>12. Next \/ UNCHANGED vars
  OBVIOUS
<1> QED
  BY <1>2, <1>3, <1>4, <1>5, <1>6, <1>7, <1>8, <1>9, <1>10, <1>11, <1>12
     DEF Next, Start, Receive, Drain

\* The next build starts with nothing under way; what the one before left in
\* the BEAM compiler can only add to the disk.
LEMMA NewRunStep ==
  ASSUME RInv, NewRun
  PROVE  RInv'
<1>1. /\ outstanding' = {} /\ answered' = {} /\ alive' = TRUE
      /\ next' = 1 /\ inFlight' = None /\ proc' = "none"
      /\ pending' = <<>> /\ credit' = 0 /\ phase' = "start"
      /\ UNCHANGED <<keys, apps>> /\ beams \subseteq beams'
  BY DEF NewRun, disk
<1>2. beams' \subseteq Module
  <2>1. PICK fs \in LeftOver : beams' = beams \cup UNION {Emits[f] : f \in fs \ Broken}
    BY DEF NewRun
  <2>2. fs \subseteq Source /\ beams \subseteq Module
    BY <2>1 DEF LeftOver, RInv, IInv, TypeOK, Service!TypeOK
  <2>3. \A f \in Source : Emits[f] \subseteq Module
    BY Constants
  <2> QED BY <2>1, <2>2, <2>3
<1>3. TypeOK'
  BY <1>1, <1>2, Constants DEF RInv, IInv, TypeOK, Service!TypeOK
<1>4. Started' = {} /\ Past' = {} /\ Out' = {}
  BY <1>1 DEF Started, Past, Out, Service!Files
<1>5. KeysTrue' /\ Waited' /\ Alone' /\ OutUnkeyed'
  BY <1>1, <1>4, Growing DEF RInv, Waited, Alone, OutUnkeyed
<1>6. AnswersOnce' /\ SendsOnce' /\ PendingOnce' /\ Settled' /\ KeyedOrPending'
  BY <1>1, <1>4 DEF AnswersOnce, SendsOnce, PendingOnce, Settled, KeyedOrPending, Service!Files
<1>7. Balanced'
  BY <1>1, <1>4, OwesEmpty, FS_EmptySet DEF Balanced
<1>8. OldKeysTrue'
  BY <1>5 DEF OldKeysTrue, KeysTrue
<1>9. LoopState' /\ QueuedUnkeyed' /\ ForeignSeesAllBefore'
  <2>1. None \notin keys
    BY Constants, PipelineAssumption DEF RInv, IInv, TypeOK
  <2> QED BY <1>1, <2>1 DEF LoopState, Live, QueuedUnkeyed, ForeignSeesAllBefore
<1> QED BY <1>3, <1>5, <1>6, <1>7, <1>8, <1>9 DEF RInv, IInv

\* The keys are true in every state of any number of builds.
THEOREM RunsInvariant ==
  ASSUME OneModulePerFile, ~ListingMayFail, Solo
  PROVE  RunsSpec => []RInv
<1>1. ASSUME RunsInit PROVE RInv
  <2>1. IInv /\ Started = {} /\ pending = <<>>
    BY <1>1, InvInit DEF RunsInit, Init, Started
  <2>2. Out = {}
    BY <1>1 DEF RunsInit, Init, Out, Service!Files
  <2>3. OutUnkeyed
    BY <2>2 DEF OutUnkeyed
  <2>4. KeysTrue /\ Waited /\ Alone
    BY <2>1 DEF IInv, OldKeysTrue, KeysTrue, Waited, Alone
  <2> QED BY <2>1, <2>3, <2>4 DEF RInv
<1>2. ASSUME RInv, [RunsNext]_<<vars, runs>> PROVE RInv'
  BY <1>2, BuildStep, NewRunStep DEF RunsNext
<1> QED BY <1>1, <1>2, PTL DEF RunsSpec

\* package_cache.commit is never called for a package that is compiled, that
\* waits in the queue or whose files are still out; a build killed at any
\* moment leaves it without a key.
THEOREM UnfinishedUnkeyed ==
  ASSUME OneModulePerFile, ~ListingMayFail, Solo
  PROVE  RunsSpec => []UnfinishedHasNoKey
<1>1. RInv => UnfinishedHasNoKey
  BY DEF RInv, IInv, QueuedUnkeyed, OutUnkeyed, UnfinishedHasNoKey
<1> QED BY <1>1, RunsInvariant, PTL

\* package_cache.check gives a hit only for a complete package, however many
\* builds were killed, restarted too early or ended by an error before.
THEOREM HitsAreTrue ==
  ASSUME OneModulePerFile, ~ListingMayFail, Solo
  PROVE  RunsSpec => []HitMeansComplete
<1>1. ASSUME RInv PROVE HitMeansComplete
  <2> SUFFICES ASSUME CanStart, Hit(head) PROVE InPlace(head)
    BY DEF HitMeansComplete
  <2>1. head \in Package
    BY <1>1, StartedNext DEF RInv, IInv, CanStart, head
  <2>2. head \in keys
    BY DEF Hit
  <2> QED BY <1>1, <2>1, <2>2, ModulesAreFiles DEF RInv, KeysTrue, InPlace
<1> QED BY <1>1, RunsInvariant, PTL
=============================================================================
