------------------------- MODULE BeamCompilerProofs -------------------------
(***************************************************************************)
(* Proofs about BeamCompiler for any files, workers and directories: the   *)
(* count agrees with the answers to come, a file is compiled with its      *)
(* directory on the code path, no file is lost, and every step is one      *)
(* CompileService allows.                                                  *)
(***************************************************************************)
EXTENDS BeamCompiler, FiniteSetTheorems, TLAPS

HasFile(m) == IsResult(m) \/ m.type = "compile"
IsPath(m) == m.type = "add_path"

ResultFiles(s) == {s[i].of : i \in {k \in DOMAIN s : IsResult(s[k])}}
Paths(s) == {s[i].of : i \in {k \in DOMAIN s : IsPath(s[k])}}

\* A file is in s at most once.
Once(s) == \A i, j \in DOMAIN s : HasFile(s[i]) /\ HasFile(s[j]) /\ s[i].of = s[j].of => i = j

\* The directory of a file in s is in K or before it in s.
Ordered(s, K) ==
  \A i \in DOMAIN s : s[i].type = "compile" =>
    Home[s[i].of] \in K \/ \E j \in DOMAIN s : j < i /\ IsPath(s[j]) /\ s[j].of = Home[s[i].of]

\* What follows the end of the input are results.
EofLast(s) == \A i, j \in DOMAIN s : s[i].type = "eof" /\ i < j => IsResult(s[j])

-----------------------------------------------------------------------------
(* Messages arrive at the end of a pipe or mailbox and leave at its front. *)

\* The elements of a longer and of a shorter sequence.
LEMMA AppendAt ==
  ASSUME NEW s \in Seq(Message), NEW m \in Message
  PROVE  /\ Append(s, m) \in Seq(Message)
         /\ DOMAIN s = 1 .. Len(s) /\ Len(s) \in Nat
         /\ DOMAIN Append(s, m) = 1 .. Len(s) + 1
         /\ \A i \in DOMAIN s : Append(s, m)[i] = s[i]
         /\ Append(s, m)[Len(s) + 1] = m
OBVIOUS

LEMMA TailAt ==
  ASSUME NEW s \in Seq(Message), s # <<>>
  PROVE  /\ Tail(s) \in Seq(Message) /\ Head(s) \in Message /\ Head(s) = s[1]
         /\ DOMAIN s = 1 .. Len(s) /\ Len(s) \in Nat /\ Len(s) > 0
         /\ DOMAIN Tail(s) = 1 .. Len(s) - 1
         /\ \A i \in DOMAIN Tail(s) : Tail(s)[i] = s[i + 1] /\ i + 1 \in DOMAIN s
         /\ \A i \in DOMAIN s \ {1} : i - 1 \in DOMAIN Tail(s) /\ Tail(s)[i - 1] = s[i]
OBVIOUS

\* What an arriving message adds.
LEMMA AppendFiles ==
  ASSUME NEW s \in Seq(Message), NEW m \in Message
  PROVE  /\ Files(Append(s, m)) = Files(s) \cup (IF HasFile(m) THEN {m.of} ELSE {})
         /\ ResultFiles(Append(s, m)) = ResultFiles(s) \cup (IF IsResult(m) THEN {m.of} ELSE {})
         /\ Paths(Append(s, m)) = Paths(s) \cup (IF IsPath(m) THEN {m.of} ELSE {})
<1> DEFINE t == Append(s, m)
<1>1. /\ DOMAIN s = 1 .. Len(s) /\ Len(s) \in Nat
      /\ DOMAIN t = 1 .. Len(s) + 1
      /\ \A i \in DOMAIN s : t[i] = s[i]
      /\ t[Len(s) + 1] = m
  BY AppendAt
<1>2. \A i \in DOMAIN t : i \in DOMAIN s \/ i = Len(s) + 1
  BY <1>1
<1>3. DOMAIN s \subseteq DOMAIN t /\ Len(s) + 1 \in DOMAIN t
  BY <1>1
<1> HIDE DEF t
<1>4. Files(t) = Files(s) \cup (IF HasFile(m) THEN {m.of} ELSE {})
  BY <1>1, <1>2, <1>3 DEF Files, HasFile
<1>5. ResultFiles(t) = ResultFiles(s) \cup (IF IsResult(m) THEN {m.of} ELSE {})
  BY <1>1, <1>2, <1>3 DEF ResultFiles
<1>6. Paths(t) = Paths(s) \cup (IF IsPath(m) THEN {m.of} ELSE {})
  BY <1>1, <1>2, <1>3 DEF Paths
<1> QED BY <1>4, <1>5, <1>6 DEF t

\* A message that arrives leaves the order as it is.
LEMMA AppendOrder ==
  ASSUME NEW s \in Seq(Message), NEW m \in Message, NEW K
  PROVE  /\ Once(s) /\ (HasFile(m) => m.of \notin Files(s)) => Once(Append(s, m))
         /\ Ordered(s, K) /\ (m.type = "compile" => Home[m.of] \in K \cup Paths(s))
              => Ordered(Append(s, m), K)
         /\ EofLast(s) /\ (IsResult(m) \/ \A i \in DOMAIN s : s[i].type # "eof")
              => EofLast(Append(s, m))
<1> DEFINE t == Append(s, m)
<1>1. /\ DOMAIN s = 1 .. Len(s) /\ Len(s) \in Nat
      /\ DOMAIN t = 1 .. Len(s) + 1
      /\ \A i \in DOMAIN s : t[i] = s[i]
      /\ t[Len(s) + 1] = m
  BY AppendAt
<1>2. \A i \in DOMAIN t : i \in DOMAIN s \/ i = Len(s) + 1
  BY <1>1
<1>3. DOMAIN s \subseteq DOMAIN t /\ Len(s) + 1 \in DOMAIN t /\ \A i \in DOMAIN s : i < Len(s) + 1
  BY <1>1
<1>7. \A i \in DOMAIN t : i \in Nat
  BY <1>1
<1> HIDE DEF t
<1>4. ASSUME Once(s), HasFile(m) => m.of \notin Files(s) PROVE Once(t)
  <2>1. \A i \in DOMAIN s : HasFile(m) /\ HasFile(s[i]) => s[i].of # m.of
    BY <1>4 DEF Files, HasFile
  <2> QED BY <1>1, <1>2, <1>4, <2>1 DEF Once
<1>5. ASSUME Ordered(s, K), m.type = "compile" => Home[m.of] \in K \cup Paths(s)
      PROVE  Ordered(t, K)
  <2>1. ASSUME NEW i \in DOMAIN t, t[i].type = "compile", Home[t[i].of] \notin K
        PROVE  \E j \in DOMAIN t : j < i /\ IsPath(t[j]) /\ t[j].of = Home[t[i].of]
    <3>1. CASE i \in DOMAIN s
      <4>1. PICK j \in DOMAIN s : j < i /\ IsPath(s[j]) /\ s[j].of = Home[s[i].of]
        BY <1>1, <1>5, <2>1, <3>1 DEF Ordered
      <4> QED BY <1>1, <1>3, <3>1, <4>1
    <3>2. CASE i = Len(s) + 1
      <4>1. Home[m.of] \in Paths(s)
        BY <1>1, <1>5, <2>1, <3>2
      <4>2. PICK j \in DOMAIN s : IsPath(s[j]) /\ s[j].of = Home[m.of]
        BY <4>1 DEF Paths
      <4> QED BY <1>1, <1>3, <3>2, <4>2
    <3> QED BY <1>2, <3>1, <3>2
  <2> QED BY <2>1 DEF Ordered
<1>6. ASSUME EofLast(s), IsResult(m) \/ \A i \in DOMAIN s : s[i].type # "eof"
      PROVE  EofLast(t)
  <2>1. ASSUME NEW i \in DOMAIN t, NEW j \in DOMAIN t, t[i].type = "eof", i < j
        PROVE  IsResult(t[j])
    <3>1. i \in DOMAIN s
      BY <1>1, <2>1
    <3>2. CASE j \in DOMAIN s
      BY <1>1, <1>6, <2>1, <3>1, <3>2 DEF EofLast
    <3>3. CASE j = Len(s) + 1
      BY <1>1, <1>6, <2>1, <3>1, <3>3
    <3> QED BY <1>2, <3>2, <3>3
  <2> QED BY <2>1 DEF EofLast
<1> QED BY <1>4, <1>5, <1>6 DEF t


\* What the message at the front takes away.
LEMMA TailFiles ==
  ASSUME NEW s \in Seq(Message), s # <<>>
  PROVE  /\ Files(s) = Files(Tail(s)) \cup (IF HasFile(Head(s)) THEN {Head(s).of} ELSE {})
         /\ ResultFiles(s) = ResultFiles(Tail(s)) \cup (IF IsResult(Head(s)) THEN {Head(s).of} ELSE {})
         /\ Paths(s) = Paths(Tail(s)) \cup (IF IsPath(Head(s)) THEN {Head(s).of} ELSE {})
         /\ Once(s) /\ HasFile(Head(s)) => Head(s).of \notin Files(Tail(s))
<1> DEFINE t == Tail(s)
<1>1. /\ Head(s) = s[1] /\ 1 \in DOMAIN s
      /\ DOMAIN t = 1 .. Len(s) - 1 /\ Len(s) \in Nat
      /\ \A i \in DOMAIN t : t[i] = s[i + 1] /\ i + 1 \in DOMAIN s
      /\ \A i \in DOMAIN s \ {1} : i - 1 \in DOMAIN t /\ t[i - 1] = s[i]
  BY TailAt
<1>2. \A i \in DOMAIN t : i + 1 # 1
  BY <1>1
<1> HIDE DEF t
<1>3. Files(s) = Files(t) \cup (IF HasFile(s[1]) THEN {s[1].of} ELSE {})
  BY <1>1 DEF Files, HasFile
<1>4. ResultFiles(s) = ResultFiles(t) \cup (IF IsResult(s[1]) THEN {s[1].of} ELSE {})
  BY <1>1 DEF ResultFiles
<1>5. Paths(s) = Paths(t) \cup (IF IsPath(s[1]) THEN {s[1].of} ELSE {})
  BY <1>1 DEF Paths
<1>6. ASSUME Once(s), HasFile(s[1]) PROVE s[1].of \notin Files(t)
  BY <1>1, <1>2, <1>6 DEF Once, Files, HasFile
<1> QED BY <1>1, <1>3, <1>4, <1>5, <1>6 DEF t

\* Taking it away leaves the order as it is.
LEMMA TailOrder ==
  ASSUME NEW s \in Seq(Message), s # <<>>, NEW K
  PROVE  /\ Once(s) => Once(Tail(s))
         /\ Ordered(s, K) => Ordered(Tail(s), K \cup (IF IsPath(Head(s)) THEN {Head(s).of} ELSE {}))
         /\ EofLast(s) => EofLast(Tail(s))
         /\ EofLast(s) /\ Head(s).type = "eof" => \A i \in DOMAIN Tail(s) : IsResult(Tail(s)[i])
<1> DEFINE t == Tail(s)
<1>1. /\ Head(s) = s[1] /\ 1 \in DOMAIN s /\ DOMAIN s = 1 .. Len(s)
      /\ DOMAIN t = 1 .. Len(s) - 1 /\ Len(s) \in Nat
      /\ \A i \in DOMAIN t : t[i] = s[i + 1] /\ i + 1 \in DOMAIN s
      /\ \A i \in DOMAIN s \ {1} : i - 1 \in DOMAIN t /\ t[i - 1] = s[i]
  BY TailAt
<1>2. \A i \in DOMAIN t : i \in Nat /\ i > 0
  BY <1>1
<1>3. \A i \in DOMAIN s : i \in Nat /\ i > 0
  BY <1>1
<1> HIDE DEF t
<1>4. ASSUME Once(s) PROVE Once(t)
  <2>1. ASSUME NEW i \in DOMAIN t, NEW j \in DOMAIN t, HasFile(t[i]), HasFile(t[j]), t[i].of = t[j].of
        PROVE  i = j
    <3>1. i + 1 = j + 1
      BY <1>1, <1>4, <2>1 DEF Once
    <3> QED BY <1>2, <3>1
  <2> QED BY <2>1 DEF Once
<1>5. ASSUME Ordered(s, K)
      PROVE  Ordered(t, K \cup (IF IsPath(s[1]) THEN {s[1].of} ELSE {}))
  <2> DEFINE L == K \cup (IF IsPath(s[1]) THEN {s[1].of} ELSE {})
  <2>1. ASSUME NEW i \in DOMAIN t, t[i].type = "compile", Home[t[i].of] \notin L
        PROVE  \E j \in DOMAIN t : j < i /\ IsPath(t[j]) /\ t[j].of = Home[t[i].of]
    <3>1. i + 1 \in DOMAIN s /\ t[i] = s[i + 1]
      BY <1>1
    <3>2. PICK j \in DOMAIN s : j < i + 1 /\ IsPath(s[j]) /\ s[j].of = Home[t[i].of]
      BY <1>5, <2>1, <3>1 DEF Ordered
    <3>3. j # 1
      BY <2>1, <3>2
    <3>4. j - 1 \in DOMAIN t /\ t[j - 1] = s[j]
      BY <1>1, <3>3
    <3>5. j - 1 < i
      BY <1>2, <1>3, <3>2
    <3> QED BY <3>2, <3>4, <3>5
  <2> QED BY <2>1 DEF Ordered
<1>6. ASSUME EofLast(s) PROVE EofLast(t)
  <2>1. ASSUME NEW i \in DOMAIN t, NEW j \in DOMAIN t, t[i].type = "eof", i < j
        PROVE  IsResult(t[j])
    <3>1. i + 1 < j + 1
      BY <1>2, <2>1
    <3> QED BY <1>1, <1>6, <2>1, <3>1 DEF EofLast
  <2> QED BY <2>1 DEF EofLast
<1>7. ASSUME EofLast(s), s[1].type = "eof" PROVE \A i \in DOMAIN t : IsResult(t[i])
  <2>1. ASSUME NEW i \in DOMAIN t PROVE IsResult(t[i])
    <3>1. 1 < i + 1
      BY <1>2
    <3> QED BY <1>1, <1>7, <3>1 DEF EofLast
  <2> QED BY <2>1
<1> QED BY <1>1, <1>4, <1>5, <1>6, <1>7 DEF t


-----------------------------------------------------------------------------
(* Types, without the count.                                               *)

Types ==
  /\ stdin \in Seq(Command) /\ mail \in Seq(Message)
  /\ writer \in {"open", "closed", "eof"}
  /\ dispatcher \in {"loop", "assign", "drain", "done", "dead"}
  /\ job \in Source \cup {None}
  /\ work \in [Worker -> Source \cup {None}]
  /\ paths \in SUBSET Path /\ asked \in SUBSET Path
  /\ beams \in SUBSET Module
  /\ answered \in SUBSET [file : Source, ok : BOOLEAN]
  /\ listening \in BOOLEAN /\ owed \in SUBSET Source

\* A message has a file, a directory, or is the end of the input.
LEMMA MessageType ==
  ASSUME NEW m \in Message
  PROVE  /\ HasFile(m) => m.of \in Source
         /\ IsPath(m) => m.of \in Path
         /\ ~(HasFile(m) /\ IsPath(m))
         /\ m \in Command <=> (m.type = "compile" \/ IsPath(m))
         /\ m.type = "compile" => ~IsResult(m)
         /\ m.type = "eof" => ~HasFile(m) /\ ~IsPath(m)
         /\ HasFile(m) \/ IsPath(m) \/ m.type = "eof"
BY DEF Message, Command, Line, AddPath, Result, Eof, HasFile, IsResult, IsPath

\* The messages the processes make.
LEMMA MadeMessages ==
  /\ \A f \in Source : Line(f) \in Command /\ Line(f).type = "compile" /\ Line(f).of = f
  /\ \A p \in Path : AddPath(p) \in Command /\ IsPath(AddPath(p)) /\ AddPath(p).of = p
  /\ \A f \in Source, ok \in BOOLEAN :
       /\ Result(f, ok) \in Message /\ IsResult(Result(f, ok)) /\ Result(f, ok).of = f
       /\ Result(f, ok).type # "compile"
  /\ Eof \in Message /\ Eof.type = "eof"
<1>1. \A f \in Source : Line(f) \in Command /\ Line(f).type = "compile" /\ Line(f).of = f
  BY DEF Command, Line
<1>2. \A p \in Path : AddPath(p) \in Command /\ IsPath(AddPath(p)) /\ AddPath(p).of = p
  BY DEF Command, AddPath, IsPath
<1>3. ASSUME NEW f \in Source, NEW ok \in BOOLEAN
      PROVE  /\ Result(f, ok) \in Message /\ IsResult(Result(f, ok)) /\ Result(f, ok).of = f
             /\ Result(f, ok).type # "compile"
  <2>1. Result(f, ok) \in Message
    BY DEF Message
  <2>2. Result(f, ok).of = f /\ Result(f, ok).type = IF ok THEN "compiled" ELSE "failed"
    BY DEF Result
  <2> QED BY <2>1, <2>2 DEF IsResult
<1>4. Eof \in Message /\ Eof.type = "eof"
  BY DEF Message, Eof
<1> QED BY <1>1, <1>2, <1>3, <1>4

\* Commands are messages.
LEMMA Commands ==
  ASSUME NEW s \in Seq(Command)
  PROVE  s \in Seq(Message)
BY DEF Message

\* What the dispatcher takes from its mailbox.
LEMMA Received ==
  ASSUME Types, NEW type, Receives(type)
  PROVE  /\ mail # <<>> /\ mail' = Tail(mail) /\ mail' \in Seq(Message)
         /\ Head(mail) \in Message /\ Head(mail).type = type
BY DEF Types, Receives

\* Every step keeps the types.
LEMMA TypesStep ==
  ASSUME Types, [Next]_vars
  PROVE  Types'
<1> USE DEF client
<1>1. ASSUME NEW p \in Path, SendPath(p) PROVE Types'
  BY <1>1, MadeMessages DEF SendPath, Types
<1>2. ASSUME NEW f \in Source, SendFile(f) PROVE Types'
  BY <1>2, MadeMessages DEF SendFile, Types
<1>3. CASE ReadAnswers
  BY <1>3 DEF ReadAnswers, Types
<1>4. CASE Stop \/ Desert
  BY <1>4 DEF Stop, Desert, Types
<1>5. CASE ReadLine
  <2>1. Head(stdin) \in Message /\ Tail(stdin) \in Seq(Command)
    BY <1>5 DEF ReadLine, Types, Message
  <2> QED BY <1>5, <2>1 DEF ReadLine, Types
<1>6. CASE ReadEof
  BY <1>6, MadeMessages DEF ReadEof, Types
<1>7. CASE DispatchPath
  <2>1. mail' \in Seq(Message) /\ Head(mail).of \in Path
    BY <1>7, Received, MessageType DEF DispatchPath, IsPath
  <2> QED BY <1>7, <2>1 DEF DispatchPath, Types
<1>8. CASE DispatchCompile
  <2>1. mail' \in Seq(Message) /\ Head(mail).of \in Source
    BY <1>8, Received, MessageType DEF DispatchCompile, HasFile
  <2> QED BY <1>8, <2>1 DEF DispatchCompile, Types
<1>9. CASE DispatchResult \/ DrainResult
  <2>1. Receives("compiled") \/ Receives("failed")
    BY <1>9 DEF DispatchResult, DrainResult
  <2>2. mail' \in Seq(Message) /\ Head(mail).of \in Source
    BY <2>1, Received, MessageType DEF HasFile, IsResult
  <2>3. ASSUME PutLine(Head(mail))
        PROVE  answered' \in SUBSET [file : Source, ok : BOOLEAN] /\ owed' \in SUBSET Source
    <3> DEFINE ok == Head(mail).type = "compiled"
    <3>1. ok \in BOOLEAN
      OBVIOUS
    <3>2. answered' = answered \cup {[file |-> Head(mail).of, ok |-> ok]} /\ owed' \subseteq owed
      BY <2>3 DEF PutLine
    <3> HIDE DEF ok
    <3> QED BY <2>2, <3>1, <3>2 DEF Types
  <2> QED BY <1>9, <2>2, <2>3 DEF DispatchResult, DrainResult, Types
<1>10. CASE DispatchEof
  <2>1. mail' \in Seq(Message)
    BY <1>10, Received DEF DispatchEof
  <2> QED BY <1>10, <2>1 DEF DispatchEof, Types
<1>11. CASE DrainEnd \/ Crash
  BY <1>11 DEF DrainEnd, Crash, Types
<1>12. ASSUME NEW w \in Worker, Assign(w) PROVE Types'
  BY <1>12 DEF Assign, Types
<1>13. ASSUME NEW w \in Worker, WorkerCompiles(w) PROVE Types'
  <2>1. work[w] \in Source
    BY <1>13 DEF WorkerCompiles, Types
  <2>2. \A ok \in BOOLEAN : Append(mail, Result(work[w], ok)) \in Seq(Message)
    BY <2>1, MadeMessages DEF Types
  <2>3. mail' \in Seq(Message)
    BY <1>13, <2>2 DEF WorkerCompiles
  <2>4. beams' \in SUBSET Module
    BY <1>13, <2>1, CompilerAssumption DEF WorkerCompiles, Types
  <2> QED BY <1>13, <2>3, <2>4 DEF WorkerCompiles, Types
<1>14. CASE UNCHANGED vars
  BY <1>14 DEF vars, Types
<1> QED BY <1>1, <1>2, <1>3, <1>4, <1>5, <1>6, <1>7, <1>8, <1>9, <1>10, <1>11, <1>12, <1>13, <1>14
     DEF Next, Client, Reader, Dispatcher


-----------------------------------------------------------------------------
(* The code path: a directory stays ahead of the files that need it.       *)

PathOrder ==
  /\ asked \subseteq paths \cup Paths(mail) \cup Paths(stdin)
  /\ Ordered(stdin, paths \cup Paths(mail))
  /\ Ordered(mail, paths)
  /\ job # None => Home[job] \in paths
  /\ PathBeforeWork

\* A larger set of known directories will do.
LEMMA OrderedMore ==
  ASSUME NEW s, NEW K, NEW L, K \subseteq L, Ordered(s, K)
  PROVE  Ordered(s, L)
BY DEF Ordered

\* Every step keeps the order.
LEMMA PathStep ==
  ASSUME Types, PathOrder, [Next]_vars
  PROVE  PathOrder'
<1> USE DEF client
<1>1. stdin \in Seq(Message) /\ mail \in Seq(Message)
  BY Commands DEF Types
<1>2. CASE UNCHANGED <<stdin, mail, paths, asked, job, work>>
  BY <1>2 DEF PathOrder, PathBeforeWork, Busy
<1>3. ASSUME NEW p \in Path, SendPath(p) PROVE PathOrder'
  <2>1. /\ stdin' = Append(stdin, AddPath(p)) /\ asked' = asked \cup {p}
        /\ UNCHANGED <<mail, paths, job, work>>
    BY <1>3 DEF SendPath
  <2>2. AddPath(p) \in Message /\ IsPath(AddPath(p)) /\ AddPath(p).of = p /\ AddPath(p).type # "compile"
    BY MadeMessages DEF Message, AddPath
  <2>3. Paths(stdin') = Paths(stdin) \cup {p}
    BY <1>1, <2>1, <2>2, AppendFiles
  <2>4. Ordered(stdin', paths \cup Paths(mail))
    BY <1>1, <2>1, <2>2, AppendOrder DEF PathOrder
  <2> QED BY <2>1, <2>3, <2>4 DEF PathOrder, PathBeforeWork, Busy
<1>4. ASSUME NEW f \in Source, SendFile(f) PROVE PathOrder'
  <2>1. /\ stdin' = Append(stdin, Line(f)) /\ Home[f] \in asked
        /\ UNCHANGED <<mail, paths, job, work, asked>>
    BY <1>4 DEF SendFile
  <2>2. Line(f) \in Message /\ Line(f).type = "compile" /\ Line(f).of = f /\ ~IsPath(Line(f))
    BY MadeMessages DEF Message, Line, IsPath
  <2>3. Paths(stdin') = Paths(stdin)
    BY <1>1, <2>1, <2>2, AppendFiles
  <2>4. Ordered(stdin', paths \cup Paths(mail))
    BY <1>1, <2>1, <2>2, AppendOrder DEF PathOrder
  <2> QED BY <2>1, <2>3, <2>4 DEF PathOrder, PathBeforeWork, Busy
<1>5. CASE ReadLine
  <2> DEFINE m == Head(stdin)
  <2>1. /\ stdin # <<>> /\ mail' = Append(mail, m) /\ stdin' = Tail(stdin)
        /\ UNCHANGED <<paths, job, work, asked>>
    BY <1>5 DEF ReadLine
  <2>2. m \in Message /\ m = stdin[1] /\ 1 \in DOMAIN stdin /\ \A i \in DOMAIN stdin : ~(i < 1)
    BY <1>1, <2>1, TailAt
  <2> HIDE DEF m
  <2>3. /\ Paths(mail') = Paths(mail) \cup (IF IsPath(m) THEN {m.of} ELSE {})
        /\ Paths(stdin) = Paths(stdin') \cup (IF IsPath(m) THEN {m.of} ELSE {})
    BY <1>1, <2>1, <2>2, AppendFiles, TailFiles DEF m
  <2>4. Ordered(stdin', (paths \cup Paths(mail)) \cup (IF IsPath(m) THEN {m.of} ELSE {}))
    BY <1>1, <2>1, TailOrder DEF PathOrder, m
  <2>5. Ordered(stdin', paths \cup Paths(mail'))
    <3>1. (paths \cup Paths(mail)) \cup (IF IsPath(m) THEN {m.of} ELSE {}) = paths \cup Paths(mail')
      BY <2>3
    <3> QED BY <2>4, <3>1
  <2>6. m.type = "compile" => Home[m.of] \in paths \cup Paths(mail)
    BY <2>2 DEF PathOrder, Ordered
  <2>7. Ordered(mail', paths)
    BY <1>1, <2>1, <2>2, <2>6, AppendOrder DEF PathOrder
  <2> QED BY <2>1, <2>3, <2>5, <2>7 DEF PathOrder, PathBeforeWork, Busy
<1>6. ASSUME NEW m \in Message, mail' = Append(mail, m), m.type # "compile", ~IsPath(m),
             UNCHANGED <<stdin, paths, asked, job>>,
             \A w \in Worker : work'[w] \in {work[w], None}
      PROVE  PathOrder'
  <2>1. Paths(mail') = Paths(mail)
    BY <1>1, <1>6, AppendFiles
  <2>2. Ordered(mail', paths)
    BY <1>1, <1>6, AppendOrder DEF PathOrder
  <2> QED BY <1>6, <2>1, <2>2 DEF PathOrder, PathBeforeWork, Busy
<1>7. CASE ReadEof
  <2>1. mail' = Append(mail, Eof) /\ Eof \in Message /\ Eof.type # "compile" /\ ~IsPath(Eof)
    BY <1>7, MadeMessages DEF ReadEof, Eof, IsPath
  <2> QED BY <1>6, <1>7, <2>1 DEF ReadEof
<1>8. ASSUME NEW w \in Worker, WorkerCompiles(w) PROVE PathOrder'
  <2>1. work[w] \in Source /\ work' = [work EXCEPT ![w] = None]
    BY <1>8 DEF WorkerCompiles, Types
  <2>2. \A ok \in BOOLEAN : /\ Result(work[w], ok) \in Message
                            /\ Result(work[w], ok).type # "compile" /\ ~IsPath(Result(work[w], ok))
    BY <2>1, MadeMessages DEF IsResult, IsPath
  <2>3. \E ok \in BOOLEAN : mail' = Append(mail, Result(work[w], ok))
    BY <1>8 DEF WorkerCompiles
  <2>4. \A v \in Worker : work'[v] \in {work[v], None}
    BY <2>1 DEF Types
  <2> QED BY <1>6, <1>8, <2>2, <2>3, <2>4 DEF WorkerCompiles
<1>9. ASSUME mail # <<>>, mail' = Tail(mail), UNCHANGED <<stdin, asked, work>>,
             paths' = paths \cup (IF IsPath(Head(mail)) THEN {Head(mail).of} ELSE {}),
             job' # None => Home[job'] \in paths
      PROVE  PathOrder'
  <2>1. Paths(mail) \cup paths = Paths(mail') \cup paths'
    BY <1>1, <1>9, TailFiles
  <2>2. Ordered(mail', paths')
    BY <1>1, <1>9, TailOrder DEF PathOrder
  <2>3. Ordered(stdin', paths' \cup Paths(mail'))
    <3>1. paths \cup Paths(mail) = paths' \cup Paths(mail')
      BY <2>1
    <3> QED BY <1>9, <3>1 DEF PathOrder
  <2> QED BY <1>9, <2>1, <2>2, <2>3 DEF PathOrder, PathBeforeWork, Busy
<1>10. CASE DispatchPath
  <2>1. mail # <<>> /\ mail' = Tail(mail) /\ Head(mail).type = "add_path"
    BY <1>10, Received DEF DispatchPath
  <2> QED BY <1>9, <1>10, <2>1 DEF DispatchPath, IsPath, PathOrder
<1>11. CASE DispatchCompile
  <2>1. /\ mail # <<>> /\ mail' = Tail(mail) /\ Head(mail).type = "compile"
        /\ Head(mail) = mail[1] /\ 1 \in DOMAIN mail /\ \A i \in DOMAIN mail : ~(i < 1)
    BY <1>1, <1>11, Received, TailAt DEF DispatchCompile
  <2>2. Home[Head(mail).of] \in paths
    BY <2>1 DEF PathOrder, Ordered
  <2> QED BY <1>9, <1>11, <2>1, <2>2 DEF DispatchCompile, IsPath
<1>12. CASE DispatchResult \/ DispatchEof \/ DrainResult
  <2>1. mail # <<>> /\ mail' = Tail(mail) /\ ~IsPath(Head(mail))
    BY <1>12, Received DEF DispatchResult, DispatchEof, DrainResult, IsPath
  <2>2. UNCHANGED <<stdin, asked, work, paths, job>>
    BY <1>12 DEF DispatchResult, DispatchEof, DrainResult
  <2> QED BY <1>9, <2>1, <2>2 DEF PathOrder
<1>13. ASSUME NEW w \in Worker, Assign(w) PROVE PathOrder'
  <2>1. /\ work' = [work EXCEPT ![w] = job] /\ job' = None
        /\ UNCHANGED <<stdin, mail, paths, asked>>
    BY <1>13 DEF Assign
  <2>2. PathBeforeWork'
    BY <2>1 DEF PathOrder, PathBeforeWork, Busy, Types
  <2> QED BY <2>1, <2>2 DEF PathOrder
<1>14. CASE UNCHANGED vars \/ ReadAnswers \/ Stop \/ Desert \/ DrainEnd \/ Crash
  BY <1>2, <1>14 DEF vars, ReadAnswers, Stop, Desert, DrainEnd, Crash
<1> QED BY <1>3, <1>4, <1>5, <1>7, <1>8, <1>10, <1>11, <1>12, <1>13, <1>14
     DEF Next, Client, Reader, Dispatcher

\* The first state.
LEMMA InitPath == Init => Types /\ PathOrder
<1> SUFFICES ASSUME Init PROVE Types /\ PathOrder
  OBVIOUS
<1>1. Types
  BY DEF Init, Types
<1>2. stdin = <<>> /\ mail = <<>> /\ DOMAIN stdin = {} /\ DOMAIN mail = {}
  BY DEF Init
<1>3. Ordered(stdin, paths \cup Paths(mail)) /\ Ordered(mail, paths)
  BY <1>2 DEF Ordered
<1>4. PathBeforeWork
  BY DEF Init, PathBeforeWork, Busy
<1> QED BY <1>1, <1>3, <1>4 DEF PathOrder, Init

\* Files are compiled with their directory on the code path, for any number of
\* workers and however commands and results interleave.
THEOREM PathsAreAdded == Spec => []PathBeforeWork
<1>1. Types /\ PathOrder /\ [Next]_vars => (Types /\ PathOrder)'
  BY TypesStep, PathStep
<1>2. Types /\ PathOrder => PathBeforeWork
  BY DEF PathOrder
<1> QED BY <1>1, <1>2, InitPath, PTL DEF Spec


-----------------------------------------------------------------------------
(* Files and answers: every file is in one place, and the count is that of *)
(* the answers to come.                                                    *)

WorkFiles == {work[w] : w \in Busy}
Answering == ResultFiles(mail) \cup WorkFiles

OnePlace ==
  /\ Once(stdin) /\ Once(mail) /\ Files(stdin) \cap Files(mail) = {}
  /\ WorkFiles \cap (Files(stdin) \cup Files(mail)) = {}
  /\ \A v, w \in Busy : work[v] = work[w] => v = w
  /\ job # None => job \notin Files(stdin) \cup Files(mail) \cup WorkFiles

Counted == IsFiniteSet(Answering) /\ count \in Nat /\ (Up => count = Cardinality(Answering))

\* Nothing but results comes after the end of the input.
Ending ==
  /\ writer = "eof" => stdin = <<>>
  /\ \A i \in DOMAIN mail : mail[i].type = "eof" => writer = "eof"
  /\ EofLast(mail)
  /\ dispatcher = "drain" => writer = "eof" /\ \A i \in DOMAIN mail : IsResult(mail[i])
  /\ Up => (dispatcher = "assign" <=> job # None)

Owing ==
  /\ listening \/ writer # "open"
  /\ listening /\ Up => owed = UnderWay
  /\ UnderWay \subseteq owed
  /\ dispatcher = "done" => writer # "open" /\ (listening => owed = {})

IInv == Types /\ OnePlace /\ Counted /\ Ending /\ Owing

\* Results are files; the places of UnderWay.
LEMMA Places ==
  /\ ResultFiles(mail) \subseteq Files(mail)
  /\ UnderWay = Files(stdin) \cup Files(mail) \cup WorkFiles \cup ({job} \ {None})
BY DEF ResultFiles, Files, UnderWay, WorkFiles

\* A worker takes a file.
LEMMA WorkTaken ==
  ASSUME Types, NEW w \in Worker, work[w] = None, NEW f \in Source, work' = [work EXCEPT ![w] = f],
         f \notin WorkFiles, \A u, v \in Busy : work[u] = work[v] => u = v
  PROVE  WorkFiles' = WorkFiles \cup {f} /\ \A u, v \in Busy' : work'[u] = work'[v] => u = v
<1>1. f # None
  BY CompilerAssumption
<1>2. work'[w] = f /\ \A v \in Worker \ {w} : work'[v] = work[v]
  BY DEF Types
<1>3. Busy' = Busy \cup {w} /\ w \notin Busy
  BY <1>1, <1>2 DEF Busy
<1>4. \A v \in Busy : work'[v] = work[v] /\ work[v] # f
  BY <1>2, <1>3 DEF Busy, WorkFiles
<1>5. WorkFiles' = WorkFiles \cup {f}
  BY <1>2, <1>3, <1>4 DEF WorkFiles
<1>6. ASSUME NEW u \in Busy', NEW v \in Busy', work'[u] = work'[v]
      PROVE  u = v
  BY <1>2, <1>3, <1>4, <1>6
<1> QED BY <1>5, <1>6

\* A worker is done with its file.
LEMMA WorkDone ==
  ASSUME Types, NEW w \in Busy, work' = [work EXCEPT ![w] = None],
         \A u, v \in Busy : work[u] = work[v] => u = v
  PROVE  /\ WorkFiles = WorkFiles' \cup {work[w]} /\ work[w] \notin WorkFiles'
         /\ \A u, v \in Busy' : work'[u] = work'[v] => u = v
<1>1. w \in Worker
  BY DEF Busy
<1>2. work'[w] = None /\ \A v \in Worker \ {w} : work'[v] = work[v]
  BY <1>1 DEF Types
<1>3. Busy' = Busy \ {w}
  BY <1>1, <1>2 DEF Busy
<1>4. \A v \in Busy' : work'[v] = work[v] /\ v \in Busy /\ v # w
  BY <1>1, <1>2, <1>3 DEF Busy
<1>5. WorkFiles = WorkFiles' \cup {work[w]}
  BY <1>3, <1>4 DEF WorkFiles
<1>6. work[w] \notin WorkFiles'
  BY <1>3, <1>4 DEF WorkFiles
<1> QED BY <1>4, <1>5, <1>6

-----------------------------------------------------------------------------
(* Every step keeps them.                                                  *)

\* gleepack sends a directory, or a file nothing else of which is under way.
LEMMA SendStep ==
  ASSUME IInv, Types', NEW m \in Command, stdin' = Append(stdin, m), writer = "open",
         UNCHANGED <<writer, mail, dispatcher, job, count, work, listening>>,
         owed' = owed \cup (IF HasFile(m) THEN {m.of} ELSE {}),
         HasFile(m) => m.of \notin owed
  PROVE  IInv'
<1>1. /\ Types /\ OnePlace /\ Counted /\ Ending /\ Owing /\ m \in Message
      /\ stdin \in Seq(Message) /\ mail \in Seq(Message)
  BY Commands DEF IInv, Types, Message
<1>2. listening /\ dispatcher # "done" /\ UnderWay \subseteq owed
  BY <1>1 DEF Owing, Types, Up
<1>3. Files(stdin') = Files(stdin) \cup (IF HasFile(m) THEN {m.of} ELSE {})
  BY <1>1, AppendFiles
<1>4. HasFile(m) => m.of \notin UnderWay
  BY <1>2
<1>5. WorkFiles' = WorkFiles /\ Answering' = Answering /\ (Up' <=> Up) /\ Busy' = Busy
  BY DEF WorkFiles, Answering, Busy, Up
<1>6. Once(stdin')
  BY <1>1, <1>4, AppendOrder, Places DEF OnePlace
<1>7. OnePlace'
  BY <1>1, <1>3, <1>4, <1>5, <1>6, Places DEF OnePlace
<1>8. Counted'
  BY <1>1, <1>5 DEF Counted
<1>9. Ending'
  BY <1>1, <1>5 DEF Ending
<1>10. UnderWay' = UnderWay \cup (IF HasFile(m) THEN {m.of} ELSE {})
  BY <1>3, <1>5, Places DEF UnderWay, WorkFiles
<1>11. Owing'
  BY <1>1, <1>2, <1>5, <1>10 DEF Owing
<1> QED BY <1>7, <1>8, <1>9, <1>11 DEF IInv

\* gleepack's other steps, and those that end the program, move no file.
LEMMA StillStep ==
  ASSUME IInv, Types', UNCHANGED <<stdin, mail, job, count, work, owed>>,
         \/ UNCHANGED <<writer, dispatcher, listening>>
         \/ UNCHANGED dispatcher /\ writer # "eof" /\ writer' = "closed" /\ listening' \in {listening, FALSE}
         \/ UNCHANGED <<dispatcher, writer>> /\ writer # "open" /\ listening' = FALSE
         \/ dispatcher' = "dead" /\ Up /\ UNCHANGED <<writer, listening>>
         \/ dispatcher' = "done" /\ dispatcher = "drain" /\ count = 0 /\ UNCHANGED <<writer, listening>>
  PROVE  IInv'
<1>1. Types /\ OnePlace /\ Counted /\ Ending /\ Owing
  BY DEF IInv
<1>2. WorkFiles' = WorkFiles /\ Answering' = Answering /\ Busy' = Busy /\ UnderWay' = UnderWay
  BY DEF WorkFiles, Answering, Busy, UnderWay
<1>3. OnePlace'
  BY <1>1, <1>2 DEF OnePlace
<1>4. Counted'
  BY <1>1, <1>2 DEF Counted, Up
<1>5. Ending'
  BY <1>1 DEF Ending, Up
<1>6. ASSUME dispatcher = "drain", count = 0 PROVE UnderWay = {}
  <2>1. Answering = {}
    BY <1>1, <1>6, FS_EmptySet DEF Counted, Up
  <2>2. Files(mail) = ResultFiles(mail)
    BY <1>1, <1>6 DEF Ending, Files, ResultFiles
  <2>3. stdin = <<>> /\ job = None
    BY <1>1, <1>6 DEF Ending, Up
  <2>4. Files(stdin) = {}
    BY <2>3 DEF Files
  <2> QED BY <2>1, <2>2, <2>3, <2>4, Places DEF Answering
<1>8. (listening \/ writer # "open")'
  BY <1>1 DEF Owing, Types
<1>9. listening' => listening
  BY <1>1 DEF Types
<1>10. (listening /\ Up => owed = UnderWay)'
  BY <1>1, <1>2, <1>9 DEF Owing, Up
<1>11. (UnderWay \subseteq owed)'
  BY <1>1, <1>2 DEF Owing
<1>12. (dispatcher = "done" => writer # "open" /\ (listening => owed = {}))'
  BY <1>1, <1>6, <1>9 DEF Owing, Up, Ending
<1>7. Owing'
  BY <1>8, <1>10, <1>11, <1>12 DEF Owing
<1> QED BY <1>3, <1>4, <1>5, <1>7 DEF IInv


\* The reader moves a command from the pipe to the mailbox.
LEMMA ReadLineStep ==
  ASSUME IInv, Types', ReadLine
  PROVE  IInv'
<1> DEFINE m == Head(stdin)
<1>1. /\ Types /\ OnePlace /\ Counted /\ Ending /\ Owing /\ Up
      /\ stdin \in Seq(Message) /\ mail \in Seq(Message) /\ stdin # <<>>
      /\ stdin' = Tail(stdin) /\ mail' = Append(mail, m)
      /\ UNCHANGED <<writer, listening, asked, dispatcher, job, count, work, paths, beams, answered, owed>>
  BY Commands DEF IInv, Types, ReadLine, client
<1>2. m \in Command /\ m \in Message
  BY <1>1, TailAt DEF Types
<1>3. ~IsResult(m) /\ m.type # "eof"
  BY <1>2, MessageType DEF Command, Line, AddPath, IsResult
<1> HIDE DEF m
<1>4. /\ Files(stdin) = Files(stdin') \cup (IF HasFile(m) THEN {m.of} ELSE {})
      /\ HasFile(m) => m.of \notin Files(stdin')
      /\ Files(mail') = Files(mail) \cup (IF HasFile(m) THEN {m.of} ELSE {})
      /\ ResultFiles(mail') = ResultFiles(mail)
  <2>1. m = Head(stdin)
    BY DEF m
  <2>2. /\ Files(stdin) = Files(stdin') \cup (IF HasFile(m) THEN {m.of} ELSE {})
        /\ Once(stdin) /\ HasFile(m) => m.of \notin Files(stdin')
    BY <1>1, <2>1, TailFiles
  <2>3. /\ Files(mail') = Files(mail) \cup (IF HasFile(m) THEN {m.of} ELSE {})
        /\ ResultFiles(mail') = ResultFiles(mail) \cup (IF IsResult(m) THEN {m.of} ELSE {})
    BY <1>1, <1>2, AppendFiles
  <2> QED BY <1>1, <1>3, <2>2, <2>3 DEF OnePlace
<1>5. WorkFiles' = WorkFiles /\ (Up' <=> Up) /\ Busy' = Busy
  BY <1>1 DEF WorkFiles, Busy, Up
<1>6. Once(stdin') /\ Once(mail')
  BY <1>1, <1>2, <1>4, TailOrder, AppendOrder DEF m, OnePlace
<1>7. OnePlace'
  BY <1>1, <1>4, <1>5, <1>6 DEF OnePlace
<1>8. Answering' = Answering
  BY <1>4, <1>5 DEF Answering
<1>9. Counted'
  BY <1>1, <1>5, <1>8 DEF Counted
<1>10. \A i \in DOMAIN mail : mail[i].type # "eof"
  BY <1>1 DEF Ending
<1>11. EofLast(mail')
  BY <1>1, <1>2, <1>10, AppendOrder DEF Ending
<1>12. \A i \in DOMAIN mail' : mail'[i].type # "eof"
  BY <1>1, <1>2, <1>3, <1>10, AppendAt
<1>13. Ending'
  BY <1>1, <1>5, <1>11, <1>12 DEF Ending
<1>14. UnderWay' = UnderWay
  BY <1>1, <1>4, <1>5, Places DEF UnderWay, WorkFiles
<1>15. Owing'
  BY <1>1, <1>5, <1>14 DEF Owing
<1> QED BY <1>1, <1>7, <1>9, <1>13, <1>15 DEF IInv

\* The end of the input joins the mailbox once the pipe is empty.
LEMMA ReadEofStep ==
  ASSUME IInv, Types', ReadEof
  PROVE  IInv'
<1>1. /\ Types /\ OnePlace /\ Counted /\ Ending /\ Owing /\ Up
      /\ mail \in Seq(Message) /\ stdin = <<>> /\ writer = "closed" /\ writer' = "eof"
      /\ mail' = Append(mail, Eof)
      /\ UNCHANGED <<stdin, dispatcher, job, count, work, listening, owed>>
  BY DEF IInv, Types, ReadEof
<1>2. Eof \in Message /\ Eof.type = "eof" /\ ~HasFile(Eof) /\ ~IsResult(Eof)
  BY MadeMessages, MessageType DEF HasFile
<1>3. Files(mail') = Files(mail) /\ ResultFiles(mail') = ResultFiles(mail)
  BY <1>1, <1>2, AppendFiles
<1>4. WorkFiles' = WorkFiles /\ (Up' <=> Up) /\ Busy' = Busy
  BY <1>1 DEF WorkFiles, Busy, Up
<1>5. Once(mail')
  BY <1>1, <1>2, AppendOrder DEF OnePlace
<1>6. OnePlace'
  BY <1>1, <1>3, <1>4, <1>5 DEF OnePlace
<1>7. Answering' = Answering
  BY <1>3, <1>4 DEF Answering
<1>8. Counted'
  BY <1>1, <1>4, <1>7 DEF Counted
<1>9. EofLast(mail')
  BY <1>1, <1>2, AppendOrder DEF Ending
<1>10. Ending'
  BY <1>1, <1>4, <1>9 DEF Ending
<1>11. UnderWay' = UnderWay
  BY <1>1, <1>3, <1>4, Places DEF UnderWay, WorkFiles
<1>12. Owing'
  BY <1>1, <1>4, <1>11 DEF Owing
<1> QED BY <1>1, <1>6, <1>8, <1>10, <1>12 DEF IInv

\* What is true of a mailbox is true of its rest.
LEMMA RestOfMail ==
  ASSUME Types, Ending, OnePlace, mail # <<>>, mail' = Tail(mail)
  PROVE  /\ Once(mail') /\ EofLast(mail')
         /\ \A i \in DOMAIN mail' : mail'[i].type = "eof" => writer = "eof"
         /\ (\A i \in DOMAIN mail : IsResult(mail[i])) => \A i \in DOMAIN mail' : IsResult(mail'[i])
<1>1. mail \in Seq(Message)
  BY DEF Types
<1>2. Once(mail') /\ EofLast(mail')
  BY <1>1, TailOrder DEF Ending, OnePlace
<1>3. \A i \in DOMAIN mail' : mail'[i] = mail[i + 1] /\ i + 1 \in DOMAIN mail
  BY <1>1, TailAt
<1> QED BY <1>2, <1>3 DEF Ending

\* The dispatcher takes a directory or the end of the input.
LEMMA TakeStep ==
  ASSUME IInv, Types', mail # <<>>, mail' = Tail(mail), ~HasFile(Head(mail)), dispatcher = "loop",
         UNCHANGED <<stdin, writer, listening, job, count, work, owed>>,
         dispatcher' = "loop" \/ (dispatcher' = "drain" /\ Head(mail).type = "eof")
  PROVE  IInv'
<1>1. Types /\ OnePlace /\ Counted /\ Ending /\ Owing /\ mail \in Seq(Message)
  BY DEF IInv, Types
<1>2. Files(mail') = Files(mail) /\ ResultFiles(mail') = ResultFiles(mail)
  <2>1. /\ Files(mail) = Files(Tail(mail)) \cup (IF HasFile(Head(mail)) THEN {Head(mail).of} ELSE {})
        /\ ResultFiles(mail) = ResultFiles(Tail(mail)) \cup
             (IF IsResult(Head(mail)) THEN {Head(mail).of} ELSE {})
    BY <1>1, TailFiles
  <2>2. ~IsResult(Head(mail))
    BY DEF HasFile
  <2>3. Files(Tail(mail)) = Files(mail')
    OBVIOUS
  <2>4. ResultFiles(Tail(mail)) = ResultFiles(mail')
    OBVIOUS
  <2> QED BY <2>1, <2>2, <2>3, <2>4
<1>3. WorkFiles' = WorkFiles /\ Up' /\ Up /\ Busy' = Busy
  BY DEF WorkFiles, Busy, Up
<1>4. OnePlace'
  BY <1>1, <1>2, <1>3, RestOfMail DEF OnePlace
<1>5. Answering' = Answering
  BY <1>2, <1>3 DEF Answering
<1>6. Counted'
  BY <1>1, <1>3, <1>5 DEF Counted
<1>7. Head(mail).type = "eof" => writer = "eof" /\ \A i \in DOMAIN mail' : IsResult(mail'[i])
  <2>1. Head(mail) = mail[1] /\ 1 \in DOMAIN mail
    BY <1>1, TailAt
  <2>2. EofLast(mail) /\ \A i \in DOMAIN mail : mail[i].type = "eof" => writer = "eof"
    BY <1>1 DEF Ending
  <2>3. Head(mail).type = "eof" => \A i \in DOMAIN Tail(mail) : IsResult(Tail(mail)[i])
    BY <1>1, <2>2, TailOrder
  <2> QED BY <2>1, <2>2, <2>3
<1>8. Ending'
  BY <1>1, <1>3, <1>7, RestOfMail DEF Ending
<1>9. UnderWay' = UnderWay
  BY <1>2, <1>3, Places DEF UnderWay, WorkFiles
<1>10. Owing'
  BY <1>1, <1>3, <1>9 DEF Owing
<1> QED BY <1>4, <1>6, <1>8, <1>10 DEF IInv

\* It takes a file to assign.
LEMMA DispatchStep ==
  ASSUME IInv, Types', DispatchCompile
  PROVE  IInv'
<1> DEFINE f == Head(mail).of
<1>1. /\ Types /\ OnePlace /\ Counted /\ Ending /\ Owing /\ mail \in Seq(Message)
      /\ mail # <<>> /\ mail' = Tail(mail) /\ Head(mail) \in Message /\ Head(mail).type = "compile"
      /\ dispatcher = "loop" /\ dispatcher' = "assign" /\ job' = f
      /\ UNCHANGED <<stdin, writer, listening, asked, count, work, paths, beams, answered, owed>>
  BY Received DEF IInv, Types, DispatchCompile, client
<1>2. HasFile(Head(mail)) /\ ~IsResult(Head(mail)) /\ f \in Source /\ f # None
  BY <1>1, MessageType, CompilerAssumption DEF HasFile
<1> HIDE DEF f
<1>3. /\ Files(mail) = Files(mail') \cup {f} /\ f \notin Files(mail')
      /\ ResultFiles(mail') = ResultFiles(mail)
  <2>1. f = Head(mail).of
    BY DEF f
  <2>2. /\ Files(mail) = Files(Tail(mail)) \cup (IF HasFile(Head(mail)) THEN {f} ELSE {})
        /\ ResultFiles(mail) = ResultFiles(Tail(mail)) \cup (IF IsResult(Head(mail)) THEN {f} ELSE {})
        /\ Once(mail) /\ HasFile(Head(mail)) => f \notin Files(Tail(mail))
    BY <1>1, <2>1, TailFiles
  <2>3. Files(Tail(mail)) = Files(mail') /\ ResultFiles(Tail(mail)) = ResultFiles(mail')
    BY <1>1
  <2> QED BY <1>1, <1>2, <2>2, <2>3 DEF OnePlace
<1>4. WorkFiles' = WorkFiles /\ Up' /\ Up /\ Busy' = Busy /\ job = None
  BY <1>1 DEF WorkFiles, Busy, Up, Ending
<1>5. OnePlace'
  BY <1>1, <1>2, <1>3, <1>4, RestOfMail DEF OnePlace
<1>6. Answering' = Answering
  BY <1>3, <1>4 DEF Answering
<1>7. Counted'
  BY <1>1, <1>4, <1>6 DEF Counted
<1>8. Ending'
  BY <1>1, <1>2, <1>4, RestOfMail DEF Ending
<1>9. UnderWay' = Files(stdin) \cup Files(mail') \cup WorkFiles \cup ({f} \ {None})
  BY <1>1, <1>4 DEF UnderWay, WorkFiles
<1>10. UnderWay' = UnderWay
  BY <1>2, <1>3, <1>4, <1>9, Places
<1>11. Owing'
  BY <1>1, <1>4, <1>10 DEF Owing
<1> QED BY <1>1, <1>5, <1>7, <1>8, <1>11 DEF IInv

\* An idle worker takes the file: one more answer to come.
LEMMA AssignStep ==
  ASSUME IInv, Types', NEW w \in Worker, Assign(w)
  PROVE  IInv'
<1>1. /\ Types /\ OnePlace /\ Counted /\ Ending /\ Owing
      /\ dispatcher = "assign" /\ dispatcher' = "loop" /\ job' = None
      /\ work[w] = None /\ work' = [work EXCEPT ![w] = job] /\ count' = count + 1
      /\ UNCHANGED <<stdin, mail, writer, listening, owed>>
  BY DEF IInv, Assign, client
<1>2. job # None /\ job \in Source /\ Up /\ Up'
  BY <1>1 DEF Ending, Types, Up
<1>3. /\ job \notin Files(stdin) /\ job \notin Files(mail) /\ job \notin WorkFiles
      /\ \A u, v \in Busy : work[u] = work[v] => u = v
  BY <1>1, <1>2 DEF OnePlace
<1>4. WorkFiles' = WorkFiles \cup {job} /\ \A u, v \in Busy' : work'[u] = work'[v] => u = v
  BY <1>1, <1>2, <1>3, WorkTaken
<1>5. OnePlace'
  BY <1>1, <1>3, <1>4 DEF OnePlace
<1>6. Answering' = Answering \cup {job} /\ job \notin Answering
  BY <1>1, <1>3, <1>4, Places DEF Answering
<1>7. Counted'
  <2>1. /\ IsFiniteSet(Answering \cup {job})
        /\ Cardinality(Answering \cup {job}) = Cardinality(Answering) + 1
    BY <1>1, <1>6, FS_AddElement DEF Counted
  <2> QED BY <1>1, <1>2, <1>6, <2>1 DEF Counted
<1>8. Ending'
  BY <1>1, <1>2 DEF Ending
<1>9. UnderWay' = Files(stdin) \cup Files(mail) \cup WorkFiles' \cup ({job'} \ {None})
  BY <1>1 DEF UnderWay, WorkFiles
<1>10. UnderWay' = UnderWay
  BY <1>1, <1>2, <1>4, <1>9, Places
<1>11. Owing'
  BY <1>1, <1>2, <1>10 DEF Owing
<1> QED BY <1>5, <1>7, <1>8, <1>11 DEF IInv

\* A worker's file becomes a result in the mailbox.
LEMMA WorkerStep ==
  ASSUME IInv, Types', NEW w \in Worker, WorkerCompiles(w)
  PROVE  IInv'
<1> DEFINE f == work[w]
<1>1. /\ Types /\ OnePlace /\ Counted /\ Ending /\ Owing /\ mail \in Seq(Message)
      /\ Up /\ f # None /\ work' = [work EXCEPT ![w] = None]
      /\ UNCHANGED <<stdin, dispatcher, job, count, writer, listening, owed>>
  BY DEF IInv, Types, WorkerCompiles, client
<1>2. f \in Source /\ w \in Busy
  BY <1>1 DEF Types, Busy
<1>3. PICK m \in Message : mail' = Append(mail, m) /\ IsResult(m) /\ m.of = f
  <2>1. \E ok \in BOOLEAN : mail' = Append(mail, Result(f, ok))
    BY DEF WorkerCompiles
  <2> QED BY <1>2, <2>1, MadeMessages
<1>4. /\ WorkFiles = WorkFiles' \cup {f} /\ f \notin WorkFiles'
      /\ \A u, v \in Busy' : work'[u] = work'[v] => u = v
  BY <1>1, <1>2, WorkDone DEF OnePlace
<1> HIDE DEF f
<1>5. HasFile(m) /\ m.type # "eof"
  BY <1>3 DEF HasFile, IsResult
<1>6. Files(mail') = Files(mail) \cup {f} /\ ResultFiles(mail') = ResultFiles(mail) \cup {f}
  BY <1>1, <1>3, <1>5, AppendFiles
<1>7. f \notin Files(stdin) /\ f \notin Files(mail) /\ (job # None => job # f)
  BY <1>1, <1>4 DEF OnePlace
<1>8. Once(mail') /\ EofLast(mail')
  BY <1>1, <1>3, <1>5, <1>7, AppendOrder DEF OnePlace, Ending
<1>9. OnePlace'
  BY <1>1, <1>4, <1>6, <1>7, <1>8 DEF OnePlace
<1>10. Answering' = Answering /\ (Up' <=> Up)
  BY <1>1, <1>4, <1>6 DEF Answering, Up
<1>11. Counted'
  BY <1>1, <1>10 DEF Counted
<1>12. \A i \in DOMAIN mail' : (i \in DOMAIN mail /\ mail'[i] = mail[i]) \/ mail'[i] = m
  BY <1>1, <1>3, AppendAt
<1>13. \A i \in DOMAIN mail' : mail'[i].type = "eof" => writer = "eof"
  BY <1>1, <1>5, <1>12 DEF Ending
<1>14. dispatcher = "drain" => writer = "eof" /\ \A i \in DOMAIN mail' : IsResult(mail'[i])
  BY <1>1, <1>3, <1>12 DEF Ending
<1>15. Ending'
  BY <1>1, <1>8, <1>10, <1>13, <1>14 DEF Ending
<1>16. UnderWay' = Files(stdin) \cup Files(mail') \cup WorkFiles' \cup ({job} \ {None})
  BY <1>1 DEF UnderWay, WorkFiles
<1>17. UnderWay' = UnderWay
  BY <1>4, <1>6, <1>16, Places
<1>18. Owing'
  BY <1>1, <1>10, <1>17 DEF Owing
<1> QED BY <1>9, <1>11, <1>15, <1>18 DEF IInv

\* An answer is printed, or given up because nobody reads it.
LEMMA AnswerStep ==
  ASSUME IInv, Types', mail # <<>>, mail' = Tail(mail), IsResult(Head(mail)),
         dispatcher \in {"loop", "drain"}, count' = count - 1,
         owed' = IF listening THEN owed \ {Head(mail).of} ELSE owed,
         UNCHANGED <<stdin, dispatcher, writer, listening, job, work>>
  PROVE  IInv'
<1> DEFINE f == Head(mail).of
<1>1. Types /\ OnePlace /\ Counted /\ Ending /\ Owing /\ mail \in Seq(Message)
  BY DEF IInv, Types
<1>2. Up /\ Up' /\ HasFile(Head(mail)) /\ WorkFiles' = WorkFiles /\ Busy' = Busy
  BY DEF Up, HasFile, WorkFiles, Busy
<1> HIDE DEF f
<1>3. /\ Files(mail) = Files(mail') \cup {f} /\ f \notin Files(mail')
      /\ ResultFiles(mail) = ResultFiles(mail') \cup {f}
  <2>1. f = Head(mail).of
    BY DEF f
  <2>2. /\ Files(mail) = Files(Tail(mail)) \cup (IF HasFile(Head(mail)) THEN {f} ELSE {})
        /\ ResultFiles(mail) = ResultFiles(Tail(mail)) \cup (IF IsResult(Head(mail)) THEN {f} ELSE {})
        /\ Once(mail) /\ HasFile(Head(mail)) => f \notin Files(Tail(mail))
    BY <1>1, <2>1, TailFiles
  <2>3. Files(Tail(mail)) = Files(mail') /\ ResultFiles(Tail(mail)) = ResultFiles(mail')
    OBVIOUS
  <2> QED BY <1>1, <1>2, <2>2, <2>3 DEF OnePlace
<1>4. ResultFiles(mail') \subseteq Files(mail')
  BY DEF ResultFiles, Files
<1>5. f \notin Files(stdin) /\ f \notin WorkFiles /\ (job # None => job # f)
  BY <1>1, <1>3 DEF OnePlace
<1>6. OnePlace'
  BY <1>1, <1>2, <1>3, RestOfMail DEF OnePlace
<1>7. Answering' = Answering \ {f} /\ f \in Answering
  BY <1>2, <1>3, <1>4, <1>5 DEF Answering
<1>8. Counted'
  <2>1. IsFiniteSet(Answering \ {f}) /\ Cardinality(Answering \ {f}) = Cardinality(Answering) - 1
    BY <1>1, <1>7, FS_RemoveElement DEF Counted
  <2>2. Cardinality(Answering \ {f}) \in Nat
    BY <2>1, FS_CardinalityType
  <2> QED BY <1>1, <1>2, <1>7, <2>1, <2>2 DEF Counted
<1>9. Ending'
  BY <1>1, <1>2, RestOfMail DEF Ending
<1>10. UnderWay' = Files(stdin) \cup Files(mail') \cup WorkFiles \cup ({job} \ {None})
  BY <1>2 DEF UnderWay, WorkFiles
<1>11. UnderWay' = UnderWay \ {f}
  BY <1>3, <1>5, <1>10, Places
<1>12. listening => owed' = owed \ {f}
  BY DEF f
<1>13. Owing'
  BY <1>1, <1>2, <1>11, <1>12 DEF Owing, Up
<1> QED BY <1>6, <1>8, <1>9, <1>13 DEF IInv

\* The dispatcher ends at an answer it cannot print.
LEMMA BrokenPipeStep ==
  ASSUME IInv, Types', mail # <<>>, mail' = Tail(mail), IsResult(Head(mail)), ~listening,
         dispatcher = "loop", dispatcher' = "done",
         UNCHANGED <<stdin, writer, listening, job, work, count, owed>>
  PROVE  IInv'
<1>1. Types /\ OnePlace /\ Counted /\ Ending /\ Owing /\ mail \in Seq(Message)
  BY DEF IInv, Types
<1>2. ~Up' /\ WorkFiles' = WorkFiles /\ Busy' = Busy
  BY DEF Up, WorkFiles, Busy
<1>3. Files(mail') \subseteq Files(mail) /\ ResultFiles(mail') \subseteq ResultFiles(mail)
  <2>1. /\ Files(Tail(mail)) \subseteq Files(mail)
        /\ ResultFiles(Tail(mail)) \subseteq ResultFiles(mail)
    BY <1>1, TailFiles
  <2> QED BY <2>1
<1>4. OnePlace'
  BY <1>1, <1>2, <1>3, RestOfMail DEF OnePlace
<1>5. Answering' \subseteq Answering
  BY <1>2, <1>3 DEF Answering
<1>6. Counted'
  BY <1>1, <1>2, <1>5, FS_Subset DEF Counted
<1>7. Ending'
  BY <1>1, <1>2, RestOfMail DEF Ending
<1>9. UnderWay' \subseteq UnderWay
  <2>1. UnderWay' = Files(stdin) \cup Files(mail') \cup WorkFiles' \cup ({job} \ {None})
    BY DEF UnderWay, WorkFiles
  <2> QED BY <1>2, <1>3, <2>1, Places
<1>8. Owing'
  BY <1>1, <1>2, <1>9 DEF Owing
<1> QED BY <1>4, <1>6, <1>7, <1>8 DEF IInv

-----------------------------------------------------------------------------
(* The theorems.                                                           *)

LEMMA IInvStep ==
  ASSUME IInv, [Next]_vars
  PROVE  IInv'
<1>1. Types /\ Types' /\ Owing
  BY TypesStep DEF IInv
<1>2. ASSUME NEW p \in Path, SendPath(p) PROVE IInv'
  <2> DEFINE m == AddPath(p)
  <2>1. m \in Command /\ ~HasFile(m)
    BY MadeMessages, MessageType DEF AddPath, HasFile, IsResult
  <2>2. /\ stdin' = Append(stdin, m) /\ writer = "open"
        /\ UNCHANGED <<writer, mail, dispatcher, job, count, work, listening, owed>>
    BY <1>2 DEF SendPath
  <2> HIDE DEF m
  <2> QED BY <1>1, <2>1, <2>2, SendStep
<1>3. ASSUME NEW f \in Source, SendFile(f) PROVE IInv'
  <2> DEFINE m == Line(f)
  <2>1. m \in Command /\ HasFile(m) /\ m.of = f
    BY MadeMessages DEF HasFile
  <2>2. /\ stdin' = Append(stdin, m) /\ writer = "open" /\ f \notin owed
        /\ owed' = owed \cup {f}
        /\ UNCHANGED <<writer, mail, dispatcher, job, count, work, listening>>
    BY <1>3 DEF SendFile
  <2> HIDE DEF m
  <2> QED BY <1>1, <2>1, <2>2, SendStep
<1>4. CASE UNCHANGED vars \/ ReadAnswers
  BY <1>1, <1>4, StillStep DEF vars, ReadAnswers
<1>5. CASE Stop
  BY <1>1, <1>5, StillStep DEF Stop, Types
<1>6. CASE Desert
  <2>1. /\ UNCHANGED <<stdin, mail, job, count, work, owed, dispatcher>> /\ listening' = FALSE
        /\ \/ writer = "open" /\ writer' = "closed"
           \/ writer # "open" /\ UNCHANGED writer
    BY <1>6 DEF Desert
  <2> QED BY <1>1, <2>1, StillStep
<1>7. CASE Crash \/ DrainEnd
  BY <1>1, <1>7, StillStep DEF Crash, DrainEnd, client
<1>8. CASE Reader
  BY <1>1, <1>8, ReadLineStep, ReadEofStep DEF Reader
<1>9. CASE DispatchPath \/ DispatchEof
  <2>1. /\ mail # <<>> /\ mail' = Tail(mail) /\ ~HasFile(Head(mail)) /\ dispatcher = "loop"
        /\ dispatcher' = "loop" \/ (dispatcher' = "drain" /\ Head(mail).type = "eof")
        /\ UNCHANGED <<stdin, writer, listening, job, count, work, owed>>
    BY <1>9 DEF DispatchPath, DispatchEof, client, Receives, HasFile, IsResult
  <2> QED BY <1>1, <2>1, TakeStep
<1>10. CASE DispatchCompile
  BY <1>1, <1>10, DispatchStep
<1>11. CASE (DispatchResult /\ listening) \/ DrainResult
  <2>1. /\ mail # <<>> /\ mail' = Tail(mail) /\ IsResult(Head(mail))
        /\ dispatcher \in {"loop", "drain"} /\ count' = count - 1
        /\ owed' = IF listening THEN owed \ {Head(mail).of} ELSE owed
        /\ UNCHANGED <<stdin, dispatcher, writer, listening, job, work>>
    BY <1>11 DEF DispatchResult, DrainResult, PutLine, client, Receives, IsResult
  <2> QED BY <1>1, <2>1, AnswerStep
<1>12. CASE DispatchResult /\ ~listening
  <2>1. /\ mail # <<>> /\ mail' = Tail(mail) /\ IsResult(Head(mail))
        /\ dispatcher = "loop" /\ dispatcher' = "done"
        /\ UNCHANGED <<stdin, writer, listening, job, work, count, owed>>
    BY <1>12 DEF DispatchResult, client, Receives, IsResult
  <2> QED BY <1>1, <1>12, <2>1, BrokenPipeStep
<1>13. ASSUME NEW w \in Worker, Assign(w) PROVE IInv'
  BY <1>1, <1>13, AssignStep
<1>14. ASSUME NEW w \in Worker, WorkerCompiles(w) PROVE IInv'
  BY <1>1, <1>14, WorkerStep
<1> QED BY <1>2, <1>3, <1>4, <1>5, <1>6, <1>7, <1>8, <1>9, <1>10, <1>11, <1>12, <1>13, <1>14
     DEF Next, Client, Dispatcher

LEMMA InitIInv == Init => IInv
<1> SUFFICES ASSUME Init PROVE IInv
  OBVIOUS
<1>1. Types
  BY InitPath
<1>2. /\ stdin = <<>> /\ mail = <<>> /\ DOMAIN stdin = {} /\ DOMAIN mail = {}
      /\ job = None /\ count = 0 /\ dispatcher = "loop" /\ writer = "open" /\ listening /\ owed = {}
  BY DEF Init
<1>3. Files(stdin) = {} /\ Files(mail) = {} /\ ResultFiles(mail) = {} /\ Busy = {}
  BY <1>2 DEF Files, ResultFiles, Busy, Init
<1>4. WorkFiles = {} /\ Answering = {} /\ UnderWay = {}
  BY <1>2, <1>3 DEF WorkFiles, Answering, UnderWay
<1>5. OnePlace
  BY <1>2, <1>3, <1>4 DEF OnePlace, Once
<1>6. Counted
  BY <1>2, <1>4, FS_EmptySet DEF Counted
<1>7. Ending
  BY <1>2 DEF Ending, EofLast
<1>8. Owing
  BY <1>2, <1>4 DEF Owing
<1> QED BY <1>1, <1>5, <1>6, <1>7, <1>8 DEF IInv

\* The inductive invariant: each file is in one place of the program, count is
\* the number of answers to come, and gleepack is owed what is under way.
THEOREM ServiceInvariant == Spec => []IInv
BY IInvStep, InitIInv, PTL DEF Spec

\* The variables keep their types; count is never below zero.
THEOREM CompilerTypes == Spec => []TypeOK
<1>1. IInv => TypeOK
  BY DEF IInv, Types, Counted, TypeOK
<1> QED BY <1>1, ServiceInvariant, PTL

\* As many files with workers as workers busy, as many result files as results.
LEMMA Counting ==
  ASSUME Types, OnePlace
  PROVE  /\ IsFiniteSet(WorkFiles) /\ Cardinality(WorkFiles) = Cardinality(Busy)
         /\ IsFiniteSet(ResultFiles(mail)) /\ Cardinality(ResultFiles(mail)) = Cardinality(Results)
         /\ Cardinality(Busy) \in Nat /\ Cardinality(Results) \in Nat
<1>1. IsFiniteSet(Busy)
  BY CompilerAssumption, FS_Subset DEF Busy
<1>2. IsFiniteSet(Results)
  <2>1. mail \in Seq(Message)
    BY DEF Types
  <2>2. IsFiniteSet(1 .. Len(mail)) /\ Results \subseteq 1 .. Len(mail)
    BY <2>1, FS_Interval DEF Results
  <2> QED BY <2>2, FS_Subset
<1>3. ExistsBijection(Busy, WorkFiles)
  <2> DEFINE g == [w \in Busy |-> work[w]]
  <2>1. g \in Bijection(Busy, WorkFiles)
    BY DEF OnePlace, WorkFiles, Bijection, Injection, Surjection, IsInjective
  <2> QED BY <2>1 DEF ExistsBijection
<1>4. ExistsBijection(Results, ResultFiles(mail))
  <2> DEFINE g == [i \in Results |-> mail[i].of]
  <2>1. g \in Bijection(Results, ResultFiles(mail))
    BY DEF OnePlace, Once, HasFile, Results, ResultFiles, Bijection, Injection, Surjection, IsInjective
  <2> QED BY <2>1 DEF ExistsBijection
<1> QED BY <1>1, <1>2, <1>3, <1>4, FS_Bijection, FS_CardinalityType

\* Pending is the number of files with a worker plus the results not yet
\* printed, for any number of workers.
THEOREM PendingAgrees == Spec => []CountAgrees
<1>1. ASSUME IInv PROVE CountAgrees
  <2>1. Types /\ OnePlace /\ Counted
    BY <1>1 DEF IInv
  <2>2. WorkFiles \cap ResultFiles(mail) = {}
    BY <2>1, Places DEF OnePlace
  <2>3. Cardinality(Answering) =
          Cardinality(ResultFiles(mail)) + Cardinality(WorkFiles) - Cardinality(ResultFiles(mail) \cap WorkFiles)
    BY <2>1, Counting, FS_Union DEF Answering
  <2>4. Cardinality(ResultFiles(mail) \cap WorkFiles) = 0
    BY <2>2, FS_EmptySet
  <2> QED BY <2>1, <2>3, <2>4, Counting DEF CountAgrees, Counted
<1> QED BY <1>1, ServiceInvariant, PTL

\* gleepack is owed exactly the files under way, and a program that ended by
\* itself owes none.
THEOREM NoFileIsLost == Spec => []NothingLost
<1>1. IInv => NothingLost
  BY DEF IInv, Types, Owing, NothingLost, Up
<1> QED BY <1>1, ServiceInvariant, PTL

-----------------------------------------------------------------------------
(* Every step is one of CompileService or none of its business.            *)

\* A result tells the truth about the modules on disk.
Written ==
  \A i \in DOMAIN mail :
    /\ mail[i].type = "compiled" => Emits[mail[i].of] \subseteq beams
    /\ mail[i].type = "failed" => mail[i].of \in Broken

LEMMA WrittenStep ==
  ASSUME Types, Types', Written, [Next]_vars
  PROVE  Written'
<1>1. mail \in Seq(Message) /\ stdin \in Seq(Message)
  BY Commands DEF Types
<1>2. ASSUME mail' = mail, beams \subseteq beams'
      PROVE  Written'
  BY <1>2 DEF Written
<1>3. ASSUME mail # <<>>, mail' = Tail(mail), beams' = beams
      PROVE  Written'
  BY <1>1, <1>3, TailAt DEF Written
<1>4. ASSUME NEW m \in Message, mail' = Append(mail, m), beams \subseteq beams',
             m.type = "compiled" => Emits[m.of] \subseteq beams',
             m.type = "failed" => m.of \in Broken
      PROVE  Written'
  <2>1. \A i \in DOMAIN mail' : (i \in DOMAIN mail /\ mail'[i] = mail[i]) \/ mail'[i] = m
    BY <1>1, <1>4, AppendAt
  <2> QED BY <1>4, <2>1 DEF Written
<1>5. CASE ReadLine
  <2>1. /\ stdin # <<>> /\ mail' = Append(mail, Head(stdin)) /\ beams' = beams
    BY <1>5 DEF ReadLine
  <2>2. Head(stdin) \in Command
    BY <2>1 DEF Types
  <2>3. Head(stdin) \in Message /\ Head(stdin).type \notin {"compiled", "failed"}
    BY <2>2 DEF Message, Command, Line, AddPath
  <2> QED BY <1>4, <2>1, <2>3
<1>6. CASE ReadEof
  <2>1. mail' = Append(mail, Eof) /\ beams' = beams /\ Eof \in Message
        /\ Eof.type \notin {"compiled", "failed"}
    BY <1>6, MadeMessages DEF ReadEof
  <2> QED BY <1>4, <2>1
<1>7. ASSUME NEW w \in Worker, WorkerCompiles(w)
      PROVE  Written'
  <2>1. work[w] \in Source
    BY <1>7 DEF WorkerCompiles, Types
  <2>2. PICK ok \in BOOLEAN : /\ mail' = Append(mail, Result(work[w], ok)) /\ beams \subseteq beams'
                              /\ ok => Emits[work[w]] \subseteq beams'
                              /\ ~ok => work[w] \in Broken
    BY <1>7 DEF WorkerCompiles
  <2>3. /\ Result(work[w], ok) \in Message /\ Result(work[w], ok).of = work[w]
        /\ Result(work[w], ok).type = "compiled" => ok
        /\ Result(work[w], ok).type = "failed" => ~ok
    BY <2>1, MadeMessages DEF Result
  <2> HIDE DEF Result
  <2> QED BY <1>4, <2>2, <2>3
<1>8. CASE DispatchPath \/ DispatchCompile \/ DispatchResult \/ DispatchEof \/ DrainResult
  <2>1. mail # <<>> /\ mail' = Tail(mail) /\ beams' = beams
    BY <1>8 DEF DispatchPath, DispatchCompile, DispatchResult, DispatchEof, DrainResult, Receives
  <2> QED BY <1>3, <2>1
<1>9. CASE \/ UNCHANGED vars \/ Client \/ DrainEnd \/ Crash
           \/ \E w \in Worker : Assign(w)
  <2>1. mail' = mail /\ beams' = beams
    BY <1>9 DEF vars, Client, SendPath, SendFile, ReadAnswers, Stop, Desert, DrainEnd, Crash, Assign
  <2> QED BY <1>2, <2>1
<1> QED BY <1>5, <1>6, <1>7, <1>8, <1>9 DEF Next, Reader, Dispatcher

\* What of beams CompileService sees, and whether the service is up.
Seen == beams \ UNION {Emits[f] : f \in owed}
Alive == dispatcher # "dead" /\ listening

\* Hiding what is owed: only the file answered comes into sight.
LEMMA AnswerSeen ==
  ASSUME owed \in SUBSET Source, NEW f \in owed, owed' = owed \ {f}, beams' = beams
  PROVE  Seen' = Seen \cup (beams \cap Emits[f])
<1>1. \A g \in owed' : Emits[g] \cap Emits[f] = {}
  BY CompilerAssumption
<1> QED BY <1>1 DEF Seen

\* Printing an answer is compiling the file, or failing to.
LEMMA AnswerImplements ==
  ASSUME IInv, Written, mail # <<>>, Head(mail).type \in {"compiled", "failed"},
         PutLine(Head(mail)), listening, Up, UNCHANGED <<beams, dispatcher, listening>>
  PROVE  Service!Next
<1>1. Types /\ Owing /\ mail \in Seq(Message) /\ owed \in SUBSET Source
  BY DEF IInv, Types
<1>2. Head(mail) = mail[1] /\ 1 \in DOMAIN mail
  BY <1>1, TailAt
<1>3. Head(mail).of \in owed
  <2>1. Head(mail).of \in Files(mail)
    BY <1>2 DEF Files, IsResult
  <2> QED BY <1>1, <2>1, Places DEF Owing
<1>4. PICK f \in owed : f = Head(mail).of
  BY <1>3
<1>5. /\ Head(mail).type = "compiled" => Emits[f] \subseteq beams
      /\ Head(mail).type = "failed" => f \in Broken
      /\ f \in Source /\ owed' = owed \ {f}
      /\ answered' = answered \cup {[file |-> f, ok |-> Head(mail).type = "compiled"]}
  BY <1>1, <1>2, <1>4 DEF Written, PutLine
<1>6. Seen' = Seen \cup (beams \cap Emits[f])
  BY <1>1, <1>5, AnswerSeen
<1>7. Alive /\ Alive'
  BY DEF Alive, Up
<1>8. CASE Head(mail).type = "compiled"
  <2>1. Seen' = Seen \cup Emits[f] /\ answered' = answered \cup {[file |-> f, ok |-> TRUE]}
    BY <1>5, <1>6, <1>8
  <2>2. Service!Compile(f)
    BY <1>5, <1>7, <2>1 DEF Service!Compile, Seen, Alive
  <2>4. Service!Work
    BY <1>5, <2>2 DEF Service!Work
  <2> QED BY <2>4 DEF Service!Next
<1>9. CASE Head(mail).type = "failed"
  <2>1. f \in Broken /\ answered' = answered \cup {[file |-> f, ok |-> FALSE]}
    BY <1>5, <1>9
  <2>2. \E ms \in SUBSET Emits[f] : Seen' = Seen \cup ms
    BY <1>6
  <2>3. Service!Fail(f)
    BY <1>5, <1>7, <2>1, <2>2 DEF Service!Fail, Seen, Alive
  <2>4. Service!Work
    BY <1>5, <2>3 DEF Service!Work
  <2> QED BY <2>4 DEF Service!Next
<1> QED BY <1>8, <1>9

LEMMA StepImplements ==
  ASSUME IInv, Written, [Next]_vars
  PROVE  [Service!Next]_Service!vars
<1>1. Types /\ Owing
  BY DEF IInv
<1>2. ASSUME UNCHANGED <<owed, answered, Seen, Alive>>
      PROVE  UNCHANGED Service!vars
  BY <1>2 DEF Service!vars, Seen, Alive
<1>3. ASSUME UNCHANGED <<owed, answered, beams, listening>>, dispatcher = "dead" <=> dispatcher' = "dead"
      PROVE  UNCHANGED Service!vars
  BY <1>2, <1>3 DEF Seen, Alive
<1>4. ASSUME NEW p \in Path, SendPath(p) PROVE UNCHANGED Service!vars
  BY <1>3, <1>4 DEF SendPath
<1>5. ASSUME NEW f \in Source, SendFile(f) PROVE Service!Next
  <2>1. /\ owed' = owed \cup {f} /\ Emits[f] \cap beams = {} /\ f \notin owed \cup {l.file : l \in answered}
        /\ UNCHANGED <<answered, beams, dispatcher, listening>>
    BY <1>5 DEF SendFile
  <2>2. Seen' = Seen /\ Alive' = Alive
    BY <2>1 DEF Seen, Alive
  <2>3. Service!Send({f})
    BY <2>1, <2>2 DEF Service!Send, Seen, Alive
  <2>4. f \in Source \ (owed \cup Service!Files(answered))
    BY <2>1 DEF Service!Files
  <2> QED BY <2>3, <2>4 DEF Service!Next
<1>6. CASE ReadAnswers
  <2>1. PICK S \in SUBSET answered : answered' = answered \ S
    BY <1>6 DEF ReadAnswers
  <2>2. UNCHANGED <<owed, beams, dispatcher, listening>>
    BY <1>6 DEF ReadAnswers
  <2>3. Service!Take(S)
    BY <2>1, <2>2 DEF Service!Take
  <2> QED BY <2>3 DEF Service!Next
<1>7. CASE UNCHANGED vars \/ Stop \/ Reader
  <2>1. UNCHANGED <<owed, answered, beams, listening, dispatcher>>
    BY <1>7 DEF vars, Stop, Reader, ReadLine, ReadEof, client
  <2> QED BY <1>3, <2>1
<1>8. CASE Desert \/ Crash
  <2>1. /\ MayCrash /\ ~Alive' /\ UNCHANGED <<owed, answered, beams>>
    BY <1>8 DEF Desert, Crash, Alive
  <2>2. Seen' = Seen
    BY <2>1 DEF Seen
  <2>3. CASE Alive
    <3>1. Service!Crash
      BY <2>1, <2>2, <2>3 DEF Service!Crash, Seen, Alive
    <3> QED BY <3>1 DEF Service!Next
  <2>4. CASE ~Alive
    <3>1. Alive' = Alive
      BY <2>1, <2>4 DEF Alive
    <3> QED BY <1>2, <2>1, <2>2, <3>1
  <2> QED BY <2>3, <2>4
<1>9. CASE DispatchPath \/ DispatchCompile \/ DispatchEof \/ DrainEnd \/ \E w \in Worker : Assign(w)
  <2>1. UNCHANGED <<owed, answered, beams, listening>> /\ (dispatcher = "dead" <=> dispatcher' = "dead")
    BY <1>9 DEF DispatchPath, DispatchCompile, DispatchEof, DrainEnd, Assign, client
  <2> QED BY <1>3, <2>1
<1>10. CASE DispatchResult \/ DrainResult
  <2>1. /\ mail # <<>> /\ Head(mail).type \in {"compiled", "failed"}
        /\ dispatcher \in {"loop", "drain"} /\ UNCHANGED <<beams, listening>>
        /\ IF listening THEN PutLine(Head(mail)) /\ UNCHANGED dispatcher
                        ELSE UNCHANGED <<owed, answered>> /\ dispatcher' \in {"loop", "drain", "done"}
    BY <1>10 DEF DispatchResult, DrainResult, Receives, client
  <2>2. CASE listening
    BY <2>1, <2>2, AnswerImplements DEF Up
  <2>3. CASE ~listening
    BY <1>3, <2>1, <2>3
  <2> QED BY <2>2, <2>3
<1>11. ASSUME NEW w \in Worker, WorkerCompiles(w) PROVE UNCHANGED Service!vars
  <2>1. work[w] \in owed
    BY <1>1, <1>11 DEF Owing, UnderWay, Busy, WorkerCompiles
  <2>2. UNCHANGED <<owed, answered, dispatcher, listening>>
    BY <1>11 DEF WorkerCompiles, client
  <2>3. PICK ms \in SUBSET Emits[work[w]] : beams' = beams \cup ms
    BY <1>11 DEF WorkerCompiles
  <2>4. Seen' = Seen
    BY <2>1, <2>2, <2>3 DEF Seen
  <2> QED BY <1>2, <2>2, <2>4 DEF Alive
<1> QED BY <1>4, <1>5, <1>6, <1>7, <1>8, <1>9, <1>10, <1>11 DEF Next, Client, Dispatcher

\* Every step of the program is one CompileService allows or none: a file is
\* answered once, only if it was sent, and truthfully about its modules.
THEOREM CompilerImplements == Spec => Service!Init /\ [][Service!Next]_Service!vars
<1>1. Init => IInv /\ Written
  BY InitIInv DEF Init, Written
<1>2. IInv /\ Written /\ [Next]_vars => (IInv /\ Written)'
  BY IInvStep, WrittenStep DEF IInv
<1>3. Init => Service!Init
  BY DEF Init, Service!Init
<1>4. IInv /\ Written /\ [Next]_vars => [Service!Next]_Service!vars
  BY StepImplements
<1> QED BY <1>1, <1>2, <1>3, <1>4, PTL DEF Spec
=============================================================================
