-------------------------- MODULE SpawnPipesProofs --------------------------
(***************************************************************************)
(* Proofs about SpawnPipes for any number of ports: while the program      *)
(* opens one port at a time, whatever fails, spawn_start keeps no pipe end *)
(* and one copy of stderr where the program cannot be prepared, and a      *)
(* port's output ends with its own child.                                  *)
(***************************************************************************)
EXTENDS SpawnPipes, TLAPS

End == {"ifd0", "ifd1", "ofd0", "ofd1", "stderr"}
Busy == {"ifd", "pipes", "prepare", "ready", "forked"}
Over == {"open", "failed", "unprepared", "closed"}

TypeOK ==
  /\ step \in [Port -> Busy \cup {"new"} \cup Over]
  /\ redir \in SUBSET Port
  /\ life \in [Port -> {"none", "running", "ended"}]
  /\ held \in [Port \cup {Emulator} -> SUBSET (Port \X End)]

\* spawn_start runs for one port at a time.
OneAtATime == \A p, r \in Port : step[p] \in Busy /\ step[r] \in Busy => p = r

\* The ends the emulator has, by how far the port has come.
EmulatorEnds ==
  \A p \in Port, e \in End : <<p, e>> \in held[Emulator] =>
    /\ step[p] \in Busy \/ (step[p] = "open" /\ e \in {"ifd0", "ofd1"}) \/ e = "stderr"
    /\ e = "stderr" => /\ step[p] \in {"prepare", "ready", "forked", "unprepared"}
                       /\ p \notin redir

\* The copy of stderr is there while, and after, the program is prepared.
StderrCopied ==
  \A p \in Port : step[p] \in {"prepare", "unprepared"} /\ p \notin redir =>
    <<p, "stderr">> \in held[Emulator]

\* No child has the writing end of another's output.
ChildEnd == \A p, r \in Port : <<p, "ifd1">> \in held[r] => r = p

IInv == TypeOK /\ OneAtATime /\ EmulatorEnds /\ StderrCopied /\ ChildEnd

-----------------------------------------------------------------------------
(* The first state.                                                        *)

\* Before any port is opened nobody has an end of any pipe.
LEMMA InitIInv == Init => IInv
<1> SUFFICES ASSUME Init PROVE IInv
  OBVIOUS
<1> USE DEF Init
<1>1. TypeOK
  BY DEF TypeOK, Busy, Over
<1>2. OneAtATime
  BY DEF OneAtATime, Busy
<1>3. EmulatorEnds
  BY DEF EmulatorEnds
<1>4. StderrCopied
  BY DEF StderrCopied
<1>5. ChildEnd
  BY DEF ChildEnd
<1> QED BY <1>1, <1>2, <1>3, <1>4, <1>5 DEF IInv

-----------------------------------------------------------------------------
(* Steps of spawn_start and stop: a port goes on and the emulator opens    *)
(* and closes ends of it.                                                  *)

\* Such a step gives the emulator only ends of the port it is for.
LEMMA GotoType ==
  ASSUME NEW p \in Port, NEW s \in Busy \cup Over,
         NEW o \in SUBSET ({p} \X End), NEW c, TypeOK, Goto(p, s, o, c), UNCHANGED life
  PROVE  /\ TypeOK'
         /\ \A r \in Port : step'[r] = IF r = p THEN s ELSE step[r]
         /\ held'[Emulator] = (held[Emulator] \cup o) \ c
         /\ \A r \in Port : held'[r] = held[r]
<1>1. step' = [step EXCEPT ![p] = s] /\ redir' = redir
  BY DEF Goto
<1>2. held' = [held EXCEPT ![Emulator] = (held[Emulator] \cup o) \ c]
  BY DEF Goto, TypeOK
<1>3. step' \in [Port -> Busy \cup {"new"} \cup Over]
  BY <1>1 DEF TypeOK
<1>4. o \in SUBSET (Port \X End)
  OBVIOUS
<1>5. held[Emulator] \in SUBSET (Port \X End)
  BY DEF TypeOK
<1>6. held' \in [Port \cup {Emulator} -> SUBSET (Port \X End)]
  BY <1>2, <1>4, <1>5 DEF TypeOK
<1>7. TypeOK'
  BY <1>1, <1>3, <1>6 DEF TypeOK
<1>8. \A r \in Port : step'[r] = IF r = p THEN s ELSE step[r]
  BY <1>1 DEF TypeOK
<1>9. held'[Emulator] = (held[Emulator] \cup o) \ c
  BY <1>2 DEF TypeOK
<1>10. \A r \in Port : held'[r] = held[r]
  BY <1>2, SpawnPipesAssumption DEF TypeOK
<1> QED BY <1>7, <1>8, <1>9, <1>10

\* It preserves the invariant when the port was under way, or nothing was, and
\* what the emulator keeps of the port fits where the port has come to.
LEMMA GotoIInv ==
  ASSUME NEW p \in Port, NEW s \in Busy \cup Over,
         NEW o \in SUBSET ({p} \X End), NEW c \in SUBSET ({p} \X End), IInv,
         Goto(p, s, o, c), UNCHANGED life,
         s \in Busy => step[p] \in Busy \/ \A r \in Port : step[r] \notin Busy,
         \A e \in End : <<p, e>> \in (held[Emulator] \cup o) \ c =>
           /\ s \in Busy \/ (s = "open" /\ e \in {"ifd0", "ofd1"}) \/ e = "stderr"
           /\ e = "stderr" => s \in {"prepare", "ready", "forked", "unprepared"} /\ p \notin redir,
         s \in {"prepare", "unprepared"} /\ p \notin redir =>
           <<p, "stderr">> \in (held[Emulator] \cup o) \ c
  PROVE  IInv'
<1>1. TypeOK
  BY DEF IInv
<1>2. /\ TypeOK'
      /\ \A r \in Port : step'[r] = IF r = p THEN s ELSE step[r]
      /\ held'[Emulator] = (held[Emulator] \cup o) \ c
      /\ \A r \in Port : held'[r] = held[r]
  BY <1>1, GotoType
<1>3. redir' = redir
  BY DEF Goto
<1>4. OneAtATime'
  BY <1>2 DEF IInv, OneAtATime
<1>5. ASSUME NEW r \in Port, NEW e \in End, <<r, e>> \in held'[Emulator]
      PROVE  /\ step'[r] \in Busy \/ (step'[r] = "open" /\ e \in {"ifd0", "ofd1"}) \/ e = "stderr"
             /\ e = "stderr" => /\ step'[r] \in {"prepare", "ready", "forked", "unprepared"}
                                /\ r \notin redir
  <2>1. CASE r = p
    BY <1>2, <1>5, <2>1
  <2>2. CASE r # p
    <3>1. <<r, e>> \in held[Emulator]
      BY <1>2, <1>5, <2>2
    <3> QED BY <1>2, <2>2, <3>1 DEF IInv, EmulatorEnds
  <2> QED BY <2>1, <2>2
<1>6. EmulatorEnds'
  BY <1>3, <1>5 DEF EmulatorEnds
<1>7. StderrCopied'
  <2>1. ASSUME NEW r \in Port, step'[r] \in {"prepare", "unprepared"}, r \notin redir
        PROVE  <<r, "stderr">> \in held'[Emulator]
    <3>1. CASE r = p
      BY <1>2, <2>1, <3>1
    <3>2. CASE r # p
      <4>1. <<r, "stderr">> \in held[Emulator]
        BY <1>2, <2>1, <3>2 DEF IInv, StderrCopied
      <4>2. <<r, "stderr">> \notin c
        BY <3>2
      <4> QED BY <1>2, <4>1, <4>2
    <3> QED BY <3>1, <3>2
  <2> QED BY <1>3, <2>1 DEF StderrCopied
<1>8. ChildEnd'
  BY <1>2 DEF IInv, ChildEnd
<1> QED BY <1>2, <1>4, <1>6, <1>7, <1>8 DEF IInv

\* The ends spawn_start opens, each a port's own.
LEMMA Opened ==
  ASSUME NEW p \in Port
  PROVE  /\ {} \in SUBSET ({p} \X End) /\ Ifd(p) \in SUBSET ({p} \X End)
         /\ Ofd(p) \in SUBSET ({p} \X End) /\ Err(p) \in SUBSET ({p} \X End)
         /\ Pipes(p) \in SUBSET ({p} \X End)
         /\ \A e \in End : /\ <<p, e>> \in Ifd(p) <=> e \in {"ifd0", "ifd1"}
                           /\ <<p, e>> \in Ofd(p) <=> e \in {"ofd0", "ofd1"}
                           /\ <<p, e>> \in Err(p) <=> e = "stderr"
                           /\ <<p, e>> \in Pipes(p) <=> e # "stderr"
BY DEF Ifd, Ofd, Err, Pipes, End

\* An action that is one or the other Goto preserves the invariant.
LEMMA StartIInv ==
  ASSUME Serial = TRUE, IInv, NEW p \in Port, SpawnStart(p) \/ Stop(p),
         ~PosixSpawn(p)
  PROVE  IInv'
<1> DEFINE Fits(s, o, c) ==
        /\ \A e \in End : <<p, e>> \in (held[Emulator] \cup o) \ c =>
             /\ s \in Busy \/ (s = "open" /\ e \in {"ifd0", "ofd1"}) \/ e = "stderr"
             /\ e = "stderr" => s \in {"prepare", "ready", "forked", "unprepared"} /\ p \notin redir
        /\ s \in {"prepare", "unprepared"} /\ p \notin redir =>
             <<p, "stderr">> \in (held[Emulator] \cup o) \ c
<1> HIDE DEF Fits
<1>1. /\ \A e \in End : <<p, e>> \in held[Emulator] =>
           /\ step[p] \in Busy \/ (step[p] = "open" /\ e \in {"ifd0", "ofd1"}) \/ e = "stderr"
           /\ e = "stderr" => /\ step[p] \in {"prepare", "ready", "forked", "unprepared"}
                              /\ p \notin redir
      /\ step[p] = "prepare" /\ p \notin redir => <<p, "stderr">> \in held[Emulator]
  BY DEF IInv, EmulatorEnds, StderrCopied
<1>2. ASSUME NEW s \in Busy \cup Over,
             NEW o \in {{}, Ifd(p), Ofd(p), Err(p)}, NEW c \in SUBSET ({p} \X End),
             Goto(p, s, o, c), UNCHANGED life, Fits(s, o, c),
             s \in Busy => step[p] \in Busy \/ \A r \in Port : step[r] \notin Busy
      PROVE  IInv'
  <2>1. o \in SUBSET ({p} \X End)
    BY Opened
  <2> QED BY <1>2, <2>1, GotoIInv DEF Fits
<1>3. CASE InPipe(p)
  <2>1. \A r \in Port : step[r] \notin Busy
    BY <1>3 DEF InPipe, UnderWay, Busy
  <2>2. step[p] = "new" /\ UNCHANGED life
    BY <1>3 DEF InPipe
  <2>3. CASE Goto(p, "ifd", Ifd(p), {})
    <3>1. Fits("ifd", Ifd(p), {})
      BY <1>1, <2>2, Opened DEF Busy, Fits
    <3> QED BY <1>2, <2>1, <2>2, <2>3, <3>1 DEF Busy
  <2>4. CASE Goto(p, "failed", {}, {})
    <3>1. Fits("failed", {}, {})
      BY <1>1, <2>2 DEF Busy, Fits
    <3> QED BY <1>2, <2>2, <2>4, <3>1 DEF Busy, Over
  <2> QED BY <1>3, <2>3, <2>4 DEF InPipe
<1>4. CASE OutPipe(p)
  <2>1. step[p] = "ifd" /\ UNCHANGED life
    BY <1>4 DEF OutPipe
  <2>2. CASE Goto(p, "pipes", Ofd(p), {})
    <3>1. Fits("pipes", Ofd(p), {})
      BY <1>1, <2>1, Opened DEF Busy, Fits
    <3> QED BY <1>2, <2>1, <2>2, <3>1 DEF Busy
  <2>3. CASE Goto(p, "failed", {}, Pipes(p))
    <3>1. Fits("failed", {}, Pipes(p))
      BY <1>1, <2>1, Opened DEF Fits
    <3> QED BY <1>2, <2>1, <2>3, <3>1, Opened DEF Busy, Over
  <2> QED BY <1>4, <2>2, <2>3 DEF OutPipe
<1>5. CASE Stderr(p)
  <2>1. step[p] = "pipes" /\ UNCHANGED life
    BY <1>5 DEF Stderr
  <2>2. CASE p \in redir /\ Goto(p, "prepare", {}, {})
    <3>1. Fits("prepare", {}, {})
      BY <1>1, <2>1, <2>2 DEF Busy, Fits
    <3> QED BY <1>2, <2>1, <2>2, <3>1 DEF Busy
  <2>3. CASE p \notin redir /\ Goto(p, "prepare", Err(p), {})
    <3>1. Fits("prepare", Err(p), {})
      BY <1>1, <2>1, <2>3, Opened DEF Busy, Fits, End
    <3> QED BY <1>2, <2>1, <2>3, <3>1 DEF Busy
  <2>4. CASE Goto(p, "failed", {}, Pipes(p))
    <3>1. Fits("failed", {}, Pipes(p))
      BY <1>1, <2>1, Opened DEF Fits
    <3> QED BY <1>2, <2>1, <2>4, <3>1, Opened DEF Busy, Over
  <2> QED BY <1>5, <2>2, <2>3, <2>4 DEF Stderr
<1>6. CASE Prepare(p)
  <2>1. step[p] = "prepare" /\ UNCHANGED life
    BY <1>6 DEF Prepare
  <2>2. CASE Goto(p, "ready", {}, {})
    <3>1. Fits("ready", {}, {})
      BY <1>1, <2>1 DEF Busy, Fits
    <3> QED BY <1>2, <2>1, <2>2, <3>1 DEF Busy
  <2>3. CASE Goto(p, "unprepared", {}, Pipes(p))
    <3>1. Fits("unprepared", {}, Pipes(p))
      BY <1>1, <2>1, Opened DEF Fits, End
    <3> QED BY <1>2, <2>1, <2>3, <3>1, Opened DEF Busy, Over
  <2> QED BY <1>6, <2>2, <2>3 DEF Prepare
<1>7. CASE SpawnFails(p)
  <2>1. Fits("failed", {}, Pipes(p) \cup Err(p))
    BY Opened DEF Fits
  <2>2. Pipes(p) \cup Err(p) \in SUBSET ({p} \X End)
    BY Opened
  <2> QED BY <1>2, <1>7, <2>1, <2>2 DEF SpawnFails, Busy, Over
<1>8. CASE CloseChildSide(p)
  <2> DEFINE c == {<<p, "ofd0">>, <<p, "ifd1">>} \cup Err(p)
  <2>1. Fits("open", {}, c)
    BY Opened DEF End, Fits
  <2>2. c \in SUBSET ({p} \X End)
    BY Opened DEF End
  <2> QED BY <1>2, <1>8, <2>1, <2>2 DEF CloseChildSide, Busy, Over
<1>9. CASE Stop(p)
  <2> DEFINE c == {<<p, "ifd0">>, <<p, "ofd1">>}
  <2>1. Fits("closed", {}, c)
    BY <1>1, <1>9 DEF Stop, Busy, Fits
  <2>2. c \in SUBSET ({p} \X End)
    BY DEF End
  <2> QED BY <1>2, <1>9, <2>1, <2>2 DEF Stop, Busy, Over
<1> QED BY <1>3, <1>4, <1>5, <1>6, <1>7, <1>8, <1>9 DEF SpawnStart

\* A child starts with ends of the emulator; the only output under way is its
\* own, so it has the writing end of no other.
LEMMA SpawnIInv ==
  ASSUME IInv, NEW p \in Port, PosixSpawn(p)
  PROVE  IInv'
<1> USE DEF PosixSpawn
<1>1. TypeOK /\ p # Emulator
  BY SpawnPipesAssumption DEF IInv
<1>2. step' \in [Port -> Busy \cup {"new"} \cup Over]
  BY <1>1 DEF TypeOK, Busy
<1>3. life' \in [Port -> {"none", "running", "ended"}]
  BY <1>1 DEF TypeOK
<1>4. Inherited(p) \in SUBSET (Port \X End)
  BY <1>1 DEF TypeOK, Inherited
<1>5. held' \in [Port \cup {Emulator} -> SUBSET (Port \X End)]
  BY <1>1, <1>4 DEF TypeOK
<1>6. TypeOK'
  BY <1>1, <1>2, <1>3, <1>5 DEF TypeOK
<1>7. \A r \in Port : step'[r] = IF r = p THEN "forked" ELSE step[r]
  BY <1>1 DEF TypeOK
<1>8. OneAtATime'
  BY <1>7 DEF IInv, OneAtATime, Busy
<1>9. held'[Emulator] = held[Emulator]
  BY <1>1 DEF TypeOK
<1>10. EmulatorEnds'
  BY <1>7, <1>9 DEF IInv, EmulatorEnds, Busy
<1>11. ASSUME NEW r \in Port, NEW x \in Port, <<r, "ifd1">> \in held'[x]
       PROVE  x = r
  <2>1. CASE x = p
    <3>1. <<r, "ifd1">> \in held[Emulator]
      BY <1>1, <1>11, <2>1 DEF TypeOK, Inherited
    <3>2. step[r] \in Busy
      BY <3>1 DEF IInv, EmulatorEnds, End
    <3> QED BY <2>1, <3>2 DEF IInv, OneAtATime, Busy
  <2>2. CASE x # p
    BY <1>1, <1>11, <2>2 DEF TypeOK, IInv, ChildEnd
  <2> QED BY <2>1, <2>2
<1>12. ChildEnd'
  BY <1>11 DEF ChildEnd
<1>13. StderrCopied'
  BY <1>7, <1>9 DEF IInv, StderrCopied
<1> QED BY <1>6, <1>8, <1>10, <1>12, <1>13 DEF IInv

\* A child that ends lets go of everything it has.
LEMMA EndIInv ==
  ASSUME IInv, NEW p \in Port, ChildEnds(p)
  PROVE  IInv'
<1> USE DEF ChildEnds
<1>1. TypeOK /\ p # Emulator
  BY SpawnPipesAssumption DEF IInv
<1>2. TypeOK'
  BY <1>1 DEF TypeOK
<1>3. \A x \in Port \cup {Emulator} : held'[x] \subseteq held[x]
  BY <1>1 DEF TypeOK
<1>4. OneAtATime'
  BY DEF IInv, OneAtATime
<1>5. EmulatorEnds'
  BY <1>3 DEF IInv, EmulatorEnds
<1>6. held'[Emulator] = held[Emulator]
  BY <1>1 DEF TypeOK
<1>7. StderrCopied'
  BY <1>6 DEF IInv, StderrCopied
<1>8. ChildEnd'
  BY <1>3 DEF IInv, ChildEnd
<1> QED BY <1>2, <1>4, <1>5, <1>7, <1>8 DEF IInv

\* The five parts hold in every state, for any number of ports.
THEOREM EndsInvariant ==
  ASSUME Serial = TRUE
  PROVE  Spec => []IInv
<1>1. IInv /\ [Next]_vars => IInv'
  <2> SUFFICES ASSUME IInv, [Next]_vars PROVE IInv'
    OBVIOUS
  <2>1. ASSUME NEW p \in Port, SpawnStart(p) \/ Stop(p) \/ ChildEnds(p)
        PROVE  IInv'
    BY <2>1, StartIInv, SpawnIInv, EndIInv
  <2>2. CASE UNCHANGED vars
    BY <2>2 DEF vars, IInv, TypeOK, OneAtATime, EmulatorEnds, StderrCopied, ChildEnd
  <2> QED BY <2>1, <2>2 DEF Next
<1> QED BY <1>1, InitIInv, PTL DEF Spec

\* Whatever fails in spawn_start, the emulator keeps no pipe end of a port that
\* is neither open nor being opened, and its copy of stderr exactly where the
\* program of a port without redirection could not be prepared.
THEOREM SpawnKeepsStderrOnly ==
  ASSUME Serial = TRUE
  PROVE  Spec => []OnlyStderrKept
<1>1. ASSUME IInv PROVE OnlyStderrKept
  <2>1. SUFFICES ASSUME NEW p \in Port, p \notin UnderWay, step[p] # "open"
                 PROVE  held[Emulator] \cap (Pipes(p) \cup Err(p)) =
                          IF step[p] = "unprepared" /\ p \notin redir THEN Err(p) ELSE {}
    BY DEF OnlyStderrKept
  <2>2. \A e \in End : <<p, e>> \in held[Emulator] =>
          e = "stderr" /\ step[p] = "unprepared" /\ p \notin redir
    BY <1>1, <2>1 DEF IInv, EmulatorEnds, UnderWay, Busy
  <2>3. step[p] = "unprepared" /\ p \notin redir => <<p, "stderr">> \in held[Emulator]
    BY <1>1 DEF IInv, StderrCopied
  <2> QED BY <2>2, <2>3 DEF Pipes, Ifd, Ofd, Err, End
<1> QED BY <1>1, EndsInvariant, PTL

\* The output of an open port is at its end when its own child has let go of
\* it, whatever other children there are.
THEOREM OutputEndsWithChild ==
  ASSUME Serial = TRUE
  PROVE  Spec => []OwnOutput
<1>1. ASSUME IInv PROVE OwnOutput
  <2>1. DOMAIN held = Port \cup {Emulator}
    BY <1>1 DEF IInv, TypeOK
  <2>2. ASSUME NEW p \in Port, step[p] = "open", NEW x \in DOMAIN held, <<p, "ifd1">> \in held[x]
        PROVE  x = p
    <3>1. x # Emulator
      BY <1>1, <2>2 DEF IInv, EmulatorEnds, Busy, End
    <3> QED BY <1>1, <2>1, <2>2, <3>1 DEF IInv, ChildEnd
  <2> QED BY <2>2 DEF OwnOutput
<1> QED BY <1>1, EndsInvariant, PTL
=============================================================================
