---------------------------- MODULE ForkerProofs ----------------------------
(***************************************************************************)
(* The spawn and forker drivers, proved for any number of ports and pids   *)
(* whose children outlive their spawn_start: the pid table is exact, and a *)
(* port reports nothing but the status of its own child, after its output. *)
(***************************************************************************)
EXTENDS Forker, SequenceTheorems, TLAPS

LEMMA TypeInit == Init => TypeOK
<1>1. 0 \in 0 .. MaxChunks /\ 0 \in 0 .. 2 /\ <<>> \in Seq(Status)
  BY ForkerAssumption
<1> SUFFICES ASSUME Init PROVE TypeOK
  OBVIOUS
<1>2. /\ unread \in [Port -> 0 .. MaxChunks] /\ alive \in [Port -> 0 .. 2]
      /\ control \in [Port -> Seq(Status)]
  BY <1>1 DEF Init
<1>3. /\ pid \in [Port -> Pid \cup {None}]
      /\ ended \in [Port -> Status \cup {None}]
      /\ status \in [Port -> Status \cup {None}]
      /\ told \in [Port -> Status \cup {None}]
      /\ mapping \in [Pid -> Port \cup {None}]
  BY DEF Init
<1> QED
  BY <1>2, <1>3 DEF Init, TypeOK

LEMMA SpawnType == ASSUME TypeOK, NEW p \in Port, Spawn(p) PROVE TypeOK'
<1>1. /\ wants' \in SUBSET Port
      /\ port' \in [Port -> {"new", "spawned", "open", "eof", "closed"}]
  BY DEF Spawn, TypeOK
<1>2. /\ pid' \in [Port -> Pid \cup {None}]
      /\ life' \in [Port -> {"none", "running", "zombie", "reaped"}]
  BY DEF Spawn, TypeOK
<1> QED
  BY <1>1, <1>2 DEF Spawn, TypeOK, pipes, driver, signal

LEMMA RegisterType == ASSUME TypeOK, NEW p \in Port, Register(p) PROVE TypeOK'
<1>1. /\ port' \in [Port -> {"new", "spawned", "open", "eof", "closed"}]
      /\ selected' \in SUBSET Port
  BY DEF Register, TypeOK
<1>2. alive' \in [Port -> 0 .. 2]
  <2>1. (IF p \in wants THEN 1 ELSE 0) \in 0 .. 2
    OBVIOUS
  <2> QED
    BY <2>1 DEF Register, TypeOK
<1>3. mapping' \in [Pid -> Port \cup {None}]
  BY DEF Register, TypeOK
<1> QED
  BY <1>1, <1>2, <1>3 DEF Register, TypeOK, child, pipes, signal

\* What every callback that ends a port leaves behind.
LEMMA FreeType ==
  ASSUME TypeOK, NEW p \in Port, Free(p)
  PROVE  /\ unread' \in [Port -> 0 .. MaxChunks] /\ hungUp' \in SUBSET Port
         /\ selected' \in SUBSET Port
         /\ alive' \in [Port -> 0 .. 2]
         /\ status' \in [Port -> Status \cup {None}]
         /\ control' \in [Port -> Seq(Status)]
<1>1. 0 \in 0 .. MaxChunks /\ 0 \in 0 .. 2 /\ <<>> \in Seq(Status)
  BY ForkerAssumption
<1> QED
  BY <1>1 DEF Free, TypeOK

LEMMA PipeType ==
  ASSUME TypeOK, NEW p \in Port, Write(p) \/ HangUp(p) \/ ReadData(p)
  PROVE  TypeOK'
<1>1. unread' \in [Port -> 0 .. MaxChunks] /\ hungUp' \in SUBSET Port
  <2>1. unread[p] \in 0 .. MaxChunks /\ MaxChunks \in Nat
    BY ForkerAssumption DEF TypeOK
  <2>2. CASE Write(p)
    BY <2>1, <2>2 DEF Write, TypeOK
  <2>3. CASE HangUp(p)
    BY <2>3 DEF HangUp, TypeOK
  <2>4. CASE ReadData(p)
    BY <2>1, <2>4 DEF ReadData, TypeOK
  <2> QED
    BY <2>2, <2>3, <2>4
<1> QED
  BY <1>1 DEF Write, HangUp, ReadData, TypeOK, child, driver, signal

LEMMA ReadEofType == ASSUME TypeOK, NEW p \in Port, ReadEof(p) PROVE TypeOK'
<1>1. CASE alive[p] = 1
  BY <1>1 DEF ReadEof, TypeOK, child, pipes, signal
<1>2. CASE alive[p] # 1
  <2>1. /\ port' \in [Port -> {"new", "spawned", "open", "eof", "closed"}]
        /\ told' \in [Port -> Status \cup {None}]
    BY <1>2 DEF ReadEof, TypeOK
  <2> QED
    BY <1>2, <2>1, FreeType DEF ReadEof, TypeOK, child, signal
<1> QED
  BY <1>1, <1>2

LEMMA SpawnControlType ==
  ASSUME TypeOK, NEW p \in Port, SpawnControl(p) PROVE TypeOK'
<1>1. Head(control[p]) \in Status /\ Tail(control[p]) \in Seq(Status)
  BY DEF SpawnControl, TypeOK
<1>2. /\ status' \in [Port -> Status \cup {None}]
      /\ control' \in [Port -> Seq(Status)]
      /\ alive' \in [Port -> 0 .. 2] /\ selected' \in SUBSET Port
  BY <1>1 DEF SpawnControl, TypeOK
<1> QED
  BY <1>2 DEF SpawnControl, TypeOK, child, pipes, signal

LEMMA StopType == ASSUME TypeOK, NEW p \in Port, Stop(p) PROVE TypeOK'
<1>1. port' \in [Port -> {"new", "spawned", "open", "eof", "closed"}]
  BY DEF Stop, TypeOK
<1> QED
  BY <1>1, FreeType DEF Stop, TypeOK, child, signal

\* Where a status has its value: from the child's end on.
Statuses ==
  /\ \A p \in Port : life[p] \in {"zombie", "reaped"} <=> ended[p] # None
  /\ reaper \in Port => life[reaper] = "reaped"

LEMMA TypeStep == TypeOK /\ Statuses /\ [Next]_vars => TypeOK'
<1> SUFFICES ASSUME TypeOK, Statuses, [Next]_vars PROVE TypeOK'
  OBVIOUS
<1>1. ASSUME NEW p \in Port, SpawnStart(p) PROVE TypeOK'
  <2>1. CASE SpawnFails(p)
    BY <2>1 DEF SpawnFails, TypeOK, child, pipes, driver, signal
  <2> QED
    BY <1>1, <2>1, SpawnType, RegisterType DEF SpawnStart
<1>2. ASSUME NEW p \in Port, Kernel(p) PROVE TypeOK'
  <2>1. ASSUME NEW s \in Status, Exit(p, s) PROVE TypeOK'
    BY <2>1 DEF Exit, TypeOK, pipes, driver
  <2> QED
    BY <1>2, <2>1, PipeType DEF Kernel
<1>3. ASSUME NEW p \in Port, Callback(p) PROVE TypeOK'
  BY <1>3, PipeType, ReadEofType, SpawnControlType DEF Callback
<1>4. ASSUME NEW p \in Port, WaitPid(p) PROVE TypeOK'
  BY <1>4 DEF WaitPid, TypeOK, pipes, driver, signal
<1>5. CASE Handler \/ Drain \/ ReapedAll
  BY <1>5 DEF Handler, Drain, ReapedAll, TypeOK, child, pipes, driver, signal
<1>6. CASE Route
  <2>1. ended[reaper] \in Status /\ reaper \in Port
    BY <1>6 DEF Route, Statuses, TypeOK
  <2>2. control' \in [Port -> Seq(Status)]
    <3> DEFINE q == mapping[pid[reaper]]
    <3>1. CASE q = None \/ Gone(q)
      BY <1>6, <3>1 DEF Route, TypeOK
    <3>2. CASE ~(q = None \/ Gone(q))
      <4>1. control' = [control EXCEPT ![q] = Append(@, ended[reaper])]
        BY <1>6, <3>2 DEF Route
      <4>2. q \in Port => Append(control[q], ended[reaper]) \in Seq(Status)
        BY <2>1, AppendProperties DEF TypeOK
      <4> QED
        BY <4>1, <4>2 DEF TypeOK
    <3> QED
      BY <3>1, <3>2
  <2>3. mapping' \in [Pid -> Port \cup {None}]
    BY <1>6 DEF Route, TypeOK
  <2> QED
    BY <1>6, <2>2, <2>3 DEF Route, TypeOK, child, pipes, driver, signal
<1>7. CASE UNCHANGED vars
  BY <1>7 DEF vars, TypeOK, child, pipes, driver, signal
<1> QED
  BY <1>1, <1>2, <1>3, <1>4, <1>5, <1>6, <1>7, StopType DEF Next, ReadyInput
-----------------------------------------------------------------------------
(* The invariant.                                                          *)

Children == \A p \in Port :
  /\ life[p] # "none" => pid[p] \in Pid
  /\ port[p] = "new" => life[p] = "none"
  /\ port[p] = "spawned" => life[p] = "running"

\* No two children the table has yet to serve have the same pid.
PidsApart == \A p, q \in Port :
  Unrouted(p) /\ Unrouted(q) /\ pid[p] = pid[q] => p = q

EntriesRegistered ==
  \A i \in Pid : mapping[i] # None => Registered(mapping[i])

\* Between the table and the driver data a status is in one place at most,
\* and it is the child's own.
Carried == \A p \in Port :
  /\ alive[p] # 0 => p \in wants /\ port[p] = "open"
  /\ port[p] = "open" /\ p \in wants => alive[p] # 0
  /\ alive[p] = 2 => /\ life[p] = "reaped" /\ reaper # p
                     /\ status[p] = ended[p] /\ control[p] = <<>>
  /\ control[p] # <<>> => /\ life[p] = "reaped" /\ reaper # p
                          /\ control[p] = <<ended[p]>> /\ alive[p] = 1

Table == Statuses /\ Children /\ PidsApart /\ TableExact /\ EntriesRegistered

\* No output before there is a child.
Untouched == \A p \in Port : port[p] = "new" => unread[p] = 0 /\ p \notin hungUp

IInv == TypeOK /\ Table /\ Carried /\ Untouched

\* Steps that neither spawn, end nor route a child leave the table's part of
\* the invariant alone.
LEMMA TableKept ==
  ASSUME TypeOK, Table, UNCHANGED <<wants, pid, life, ended, mapping>>,
         \A p \in Port :
           \/ port'[p] = port[p]
           \/ port[p] # "spawned" /\ port'[p] \notin {"new", "spawned"},
         reaper' = reaper \/ (reaper' \notin Port /\ reaper \notin Port)
  PROVE  Table'
<1>1. ASSUME NEW p \in Port
      PROVE  reaper' = p <=> reaper = p
  OBVIOUS
<1>2. Statuses'
  BY <1>1 DEF Table, Statuses
<1>3. Children'
  BY DEF Table, Children
<1>4. PidsApart'
  BY <1>1 DEF Table, PidsApart, Unrouted
<1>5. TableExact'
  <2>1. ASSUME NEW p \in Port, Registered(p)', Unrouted(p)'
        PROVE  mapping'[pid'[p]] = p
    <3>1. port[p] # "new"
      BY <1>1, <2>1 DEF Table, Statuses, Children, Unrouted
    <3> QED
      BY <1>1, <2>1, <3>1 DEF Table, TableExact, Registered, Unrouted
  <2>2. ASSUME NEW i \in Pid, mapping'[i] # None
        PROVE  pid'[mapping'[i]] = i
               /\ (life'[mapping'[i]] \in {"running", "zombie"}
                   \/ reaper' = mapping'[i])
    <3>1. mapping[i] \in Port
      BY <2>2 DEF TypeOK
    <3> QED
      BY <1>1, <2>2, <3>1 DEF Table, TableExact, Unrouted
  <2> QED
    BY <2>1, <2>2 DEF TableExact, Unrouted
<1>6. EntriesRegistered'
  BY DEF Table, EntriesRegistered, Registered, TypeOK
<1> QED
  BY <1>2, <1>3, <1>4, <1>5, <1>6 DEF Table

LEMMA SpawnTable ==
  ASSUME TypeOK, Table, ~EarlyReuse, NEW p \in Port, Spawn(p) PROVE Table'
<1>1. PICK i \in Pid : Unused(i) /\ Removed(i) /\ pid' = [pid EXCEPT ![p] = i]
  BY DEF Spawn
<1>2. /\ port' = [port EXCEPT ![p] = "spawned"] /\ port[p] = "new"
      /\ life' = [life EXCEPT ![p] = "running"]
      /\ ended' = ended /\ mapping' = mapping /\ reaper' = reaper
      /\ wants' \in {wants, wants \cup {p}}
  BY DEF Spawn
<1>3. pid'[p] = i /\ life'[p] = "running" /\ port'[p] = "spawned"
  BY <1>1, <1>2 DEF TypeOK
<1>4. ASSUME NEW q \in Port, q # p
      PROVE  /\ pid'[q] = pid[q] /\ life'[q] = life[q] /\ port'[q] = port[q]
             /\ q \in wants' <=> q \in wants
  BY <1>1, <1>2, <1>4 DEF TypeOK
<1>5. life[p] = "none" /\ reaper # p /\ ended[p] = None
  BY <1>2 DEF Table, Children, Statuses
<1>6. Statuses'
  <2>1. ASSUME NEW q \in Port
        PROVE  life'[q] \in {"zombie", "reaped"} <=> ended'[q] # None
    BY <1>2, <1>3, <1>4, <1>5 DEF Table, Statuses
  <2>2. ASSUME reaper' \in Port PROVE life'[reaper'] = "reaped"
    BY <1>2, <1>4, <1>5, <2>2 DEF Table, Statuses
  <2> QED
    BY <2>1, <2>2 DEF Statuses
<1>7. Children'
  <2>1. ASSUME NEW q \in Port
        PROVE  /\ life'[q] # "none" => pid'[q] \in Pid
               /\ port'[q] = "new" => life'[q] = "none"
               /\ port'[q] = "spawned" => life'[q] = "running"
    BY <1>3, <1>4 DEF Table, Children
  <2> QED
    BY <2>1 DEF Children
<1>8. ASSUME NEW q \in Port, Unrouted(q) PROVE pid[q] # i
  BY <1>1, <1>8 DEF Unrouted, Unused, Removed
<1>9. PidsApart'
  <2>1. ASSUME NEW q \in Port, q # p,
               life'[q] \in {"running", "zombie"} \/ reaper' = q
        PROVE  Unrouted(q)
    BY <1>2, <1>4, <2>1 DEF Unrouted
  <2>2. ASSUME NEW q \in Port, NEW r \in Port,
               life'[q] \in {"running", "zombie"} \/ reaper' = q,
               life'[r] \in {"running", "zombie"} \/ reaper' = r,
               pid'[q] = pid'[r]
        PROVE  q = r
    <3>1. CASE q # p /\ r # p
      BY <1>4, <2>1, <2>2, <3>1 DEF Table, PidsApart
    <3>2. CASE q = p \/ r = p
      BY <1>3, <1>4, <1>8, <2>1, <2>2, <3>2
    <3> QED
      BY <3>1, <3>2
  <2> QED
    BY <2>2 DEF PidsApart, Unrouted
<1>10. ASSUME NEW j \in Pid, mapping[j] # None
       PROVE  mapping[j] \in Port \ {p}
  BY <1>2, <1>10 DEF TypeOK, Table, EntriesRegistered, Registered
<1>11. TableExact'
  <2>1. ASSUME NEW q \in Port, q \in wants', port'[q] \notin {"new", "spawned"},
               life'[q] \in {"running", "zombie"} \/ reaper' = q
        PROVE  mapping'[pid'[q]] = q
    <3>1. q # p
      BY <1>3, <2>1
    <3> QED
      BY <1>2, <1>4, <2>1, <3>1 DEF Table, TableExact, Registered, Unrouted
  <2>2. ASSUME NEW j \in Pid, mapping'[j] # None
        PROVE  /\ pid'[mapping'[j]] = j
               /\ \/ life'[mapping'[j]] \in {"running", "zombie"}
                  \/ reaper' = mapping'[j]
    BY <1>2, <1>4, <1>10, <2>2 DEF Table, TableExact, Unrouted
  <2> QED
    BY <2>1, <2>2 DEF TableExact, Registered, Unrouted
<1>12. EntriesRegistered'
  BY <1>2, <1>4, <1>10 DEF Table, EntriesRegistered, Registered
<1> QED
  BY <1>6, <1>7, <1>9, <1>11, <1>12 DEF Table

LEMMA RegisterTable ==
  ASSUME TypeOK, Table, NEW p \in Port, Register(p) PROVE Table'
<1>1. /\ port' = [port EXCEPT ![p] = "open"] /\ port[p] = "spawned"
      /\ wants' = wants /\ pid' = pid /\ life' = life
      /\ ended' = ended /\ reaper' = reaper
  BY DEF Register, child
<1>2. life[p] = "running" /\ pid[p] \in Pid
  BY <1>1 DEF Table, Children
<1>3. mapping[pid[p]] = None
  <2> SUFFICES ASSUME mapping[pid[p]] # None PROVE FALSE
    OBVIOUS
  <2>1. mapping[pid[p]] \in Port
    BY <1>2 DEF TypeOK
  <2>2. mapping[pid[p]] = p
    BY <1>2, <2>1 DEF Table, TableExact, PidsApart, Unrouted
  <2> QED
    BY <1>1, <1>2, <2>2 DEF Table, EntriesRegistered, Registered
<1>4. ASSUME NEW i \in Pid
      PROVE  mapping'[i] = IF i = pid[p] /\ p \in wants THEN p ELSE mapping[i]
  BY <1>2, <1>3 DEF TypeOK, Register
<1>5. ASSUME NEW q \in Port
      PROVE  port'[q] = IF q = p THEN "open" ELSE port[q]
  BY <1>1 DEF TypeOK
<1>6. Statuses'
  BY <1>1 DEF Table, Statuses
<1>7. Children'
  BY <1>1, <1>5 DEF Table, Children
<1>8. PidsApart'
  BY <1>1 DEF Table, PidsApart, Unrouted
<1>9. ASSUME NEW q \in Port, q \in wants, port'[q] \notin {"new", "spawned"},
             life[q] \in {"running", "zombie"} \/ reaper = q
      PROVE  mapping'[pid[q]] = q
  <2>1. pid[q] \in Pid
    BY <1>9 DEF Table, Statuses, Children
  <2>2. CASE q = p
    BY <1>4, <1>9, <2>1, <2>2
  <2>3. CASE q # p
    <3>1. mapping[pid[q]] = q
      BY <1>5, <1>9, <2>3 DEF Table, TableExact, Registered, Unrouted
    <3>2. pid[q] # pid[p]
      BY <1>2, <1>9, <2>3 DEF Table, PidsApart, Unrouted
    <3> QED
      BY <1>4, <2>1, <3>1, <3>2
  <2> QED
    BY <2>2, <2>3
<1>10. ASSUME NEW i \in Pid, mapping'[i] # None
       PROVE  /\ pid[mapping'[i]] = i
              /\ \/ life[mapping'[i]] \in {"running", "zombie"}
                 \/ reaper = mapping'[i]
              /\ mapping'[i] \in wants
              /\ port'[mapping'[i]] \notin {"new", "spawned"}
  <2>1. CASE i = pid[p] /\ p \in wants
    BY <1>2, <1>4, <1>5, <2>1
  <2>2. CASE ~(i = pid[p] /\ p \in wants)
    <3>1. mapping'[i] = mapping[i] /\ mapping[i] \in Port
      BY <1>4, <1>10, <2>2 DEF TypeOK
    <3>2. Registered(mapping[i]) /\ pid[mapping[i]] = i /\ Unrouted(mapping[i])
      BY <1>10, <3>1 DEF Table, TableExact, EntriesRegistered
    <3> QED
      BY <1>5, <3>1, <3>2 DEF Registered, Unrouted
  <2> QED
    BY <2>1, <2>2
<1>11. TableExact'
  BY <1>1, <1>9, <1>10 DEF TableExact, Registered, Unrouted
<1>12. EntriesRegistered'
  BY <1>1, <1>10 DEF EntriesRegistered, Registered
<1> QED
  BY <1>6, <1>7, <1>8, <1>11, <1>12 DEF Table

LEMMA ExitTable ==
  ASSUME TypeOK, Table, ~EarlyExit, NEW p \in Port, NEW s \in Status, Exit(p, s)
  PROVE  Table'
<1>1. /\ life' = [life EXCEPT ![p] = "zombie"] /\ life[p] = "running"
      /\ ended' = [ended EXCEPT ![p] = s]
      /\ port' = port /\ wants' = wants /\ pid' = pid /\ mapping' = mapping
      /\ reaper' = reaper
  BY DEF Exit
<1>2. /\ life'[p] = "zombie" /\ ended'[p] # None
      /\ port[p] \notin {"new", "spawned"}
  BY <1>1, ForkerAssumption DEF Exit, TypeOK, Table, Children
<1>3. ASSUME NEW q \in Port, q # p
      PROVE  life'[q] = life[q] /\ ended'[q] = ended[q]
  BY <1>1, <1>3 DEF TypeOK
<1>4. reaper # p
  BY <1>1 DEF Table, Statuses
<1>5. Statuses'
  BY <1>1, <1>2, <1>3, <1>4 DEF Table, Statuses
<1>6. Children'
  BY <1>1, <1>2, <1>3 DEF Table, Children
<1>7. ASSUME NEW q \in Port
      PROVE  life'[q] \in {"running", "zombie"} <=> life[q] \in {"running", "zombie"}
  BY <1>1, <1>2, <1>3
<1>8. PidsApart'
  BY <1>1, <1>7 DEF Table, PidsApart, Unrouted
<1>9. TableExact'
  BY <1>1, <1>7 DEF Table, TypeOK, TableExact, Registered, Unrouted
<1>10. EntriesRegistered'
  BY <1>1 DEF Table, EntriesRegistered, Registered
<1> QED
  BY <1>5, <1>6, <1>8, <1>9, <1>10 DEF Table

LEMMA WaitPidTable ==
  ASSUME TypeOK, Table, NEW p \in Port, WaitPid(p) PROVE Table'
<1>1. /\ life' = [life EXCEPT ![p] = "reaped"] /\ life[p] = "zombie"
      /\ reaper \notin Port /\ reaper' = p
      /\ ended' = ended
      /\ port' = port /\ wants' = wants /\ pid' = pid /\ mapping' = mapping
  BY ForkerAssumption DEF WaitPid
<1>2. life'[p] = "reaped"
  BY <1>1 DEF TypeOK
<1>3. ASSUME NEW q \in Port, q # p PROVE life'[q] = life[q]
  BY <1>1, <1>3 DEF TypeOK
<1>4. Statuses'
  BY <1>1, <1>2, <1>3 DEF Table, Statuses
<1>5. Children'
  BY <1>1, <1>2, <1>3 DEF Table, Children
<1>6. ASSUME NEW q \in Port
      PROVE  life'[q] \in {"running", "zombie"} \/ reaper' = q
               <=> life[q] \in {"running", "zombie"} \/ reaper = q
  BY <1>1, <1>2, <1>3
<1>7. PidsApart'
  BY <1>1, <1>6 DEF Table, PidsApart, Unrouted
<1>8. TableExact'
  BY <1>1, <1>6 DEF Table, TypeOK, TableExact, Registered, Unrouted
<1>9. EntriesRegistered'
  BY <1>1 DEF Table, EntriesRegistered, Registered
<1> QED
  BY <1>4, <1>5, <1>7, <1>8, <1>9 DEF Table

LEMMA RouteTable == ASSUME TypeOK, Table, Route PROVE Table'
<1>1. /\ reaper \in Port /\ reaper' \notin Port
      /\ mapping' = [mapping EXCEPT ![pid[reaper]] = None]
      /\ life' = life /\ ended' = ended
      /\ port' = port /\ wants' = wants /\ pid' = pid
  BY ForkerAssumption DEF Route, child
<1>2. life[reaper] = "reaped" /\ pid[reaper] \in Pid
  BY <1>1 DEF Table, Statuses, Children
<1>3. ASSUME NEW q \in Port
      PROVE  life'[q] \in {"running", "zombie"} \/ reaper' = q
               <=> q # reaper /\ (life[q] \in {"running", "zombie"} \/ reaper = q)
  BY <1>1, <1>2
<1>4. ASSUME NEW i \in Pid
      PROVE  mapping'[i] = IF i = pid[reaper] THEN None ELSE mapping[i]
  BY <1>1 DEF TypeOK
<1>5. Statuses'
  BY <1>1 DEF Table, Statuses
<1>6. Children'
  BY <1>1 DEF Table, Children
<1>7. PidsApart'
  BY <1>1, <1>3 DEF Table, PidsApart, Unrouted
<1>8. ASSUME NEW q \in Port, q \in wants, port[q] \notin {"new", "spawned"},
             q # reaper, life[q] \in {"running", "zombie"}
      PROVE  mapping'[pid[q]] = q
  <2>1. pid[q] # pid[reaper] /\ pid[q] \in Pid
    BY <1>1, <1>8 DEF Table, PidsApart, Unrouted, Children
  <2>2. mapping[pid[q]] = q
    BY <1>8 DEF Table, TableExact, Registered, Unrouted
  <2> QED
    BY <1>4, <2>1, <2>2
<1>9. ASSUME NEW i \in Pid, mapping'[i] # None
      PROVE  /\ mapping'[i] = mapping[i] /\ mapping[i] \in Port \ {reaper}
             /\ pid[mapping[i]] = i /\ life[mapping[i]] \in {"running", "zombie"}
             /\ Registered(mapping[i])
  BY <1>4, <1>9 DEF Table, TypeOK, TableExact, EntriesRegistered, Unrouted
<1>10. TableExact'
  BY <1>1, <1>3, <1>8, <1>9 DEF TableExact, Registered, Unrouted
<1>11. EntriesRegistered'
  BY <1>1, <1>9 DEF EntriesRegistered, Registered
<1> QED
  BY <1>5, <1>6, <1>7, <1>10, <1>11 DEF Table

\* No step of a child that outlives its spawn_start, under a pid that is not
\* given away before its entry is gone, disturbs the table.
LEMMA TableStep ==
  ASSUME TypeOK, Table, ~EarlyExit, ~EarlyReuse, [Next]_vars PROVE Table'
<1>1. ASSUME NEW p \in Port, SpawnStart(p) PROVE Table'
  <2>1. CASE SpawnFails(p)
    BY <2>1, TableKept DEF SpawnFails, TypeOK, child
  <2> QED
    BY <1>1, <2>1, SpawnTable, RegisterTable DEF SpawnStart
<1>2. ASSUME NEW p \in Port, Kernel(p) PROVE Table'
  <2>1. CASE Write(p) \/ HangUp(p)
    BY <2>1, TableKept DEF Write, HangUp, child
  <2> QED
    BY <1>2, <2>1, ExitTable DEF Kernel
<1>3. ASSUME NEW p \in Port, Callback(p) \/ Stop(p) PROVE Table'
  <2>1. /\ wants' = wants /\ child' = child /\ mapping' = mapping
        /\ reaper' = reaper
    BY <1>3 DEF Callback, Stop, ReadData, ReadEof, SpawnControl
  <2>2. /\ port[p] = "open"
        /\ \/ port' = port
           \/ port' = [port EXCEPT ![p] = "eof"]
           \/ port' = [port EXCEPT ![p] = "closed"]
    BY <1>3 DEF Callback, Stop, ReadData, ReadEof, AtEof, SpawnControl
  <2> QED
    BY <2>1, <2>2, TableKept DEF TypeOK, child
<1>4. CASE Handler \/ Drain \/ ReapedAll
  BY <1>4, ForkerAssumption, TableKept DEF Handler, Drain, ReapedAll, child
<1>5. CASE UNCHANGED vars
  BY <1>5, TableKept DEF vars, child
<1> QED
  BY <1>1, <1>2, <1>3, <1>4, <1>5, WaitPidTable, RouteTable DEF Next, ReadyInput
-----------------------------------------------------------------------------
LEMMA Quiet ==
  ASSUME Carried, NEW p \in Port, port[p] # "open"
  PROVE  alive[p] = 0 /\ control[p] = <<>>
BY DEF Carried

\* The callbacks' part of the invariant, where nothing of it changes.
LEMMA CarriedKept ==
  ASSUME TypeOK, Carried,
         UNCHANGED <<wants, life, ended, port, alive, status, control>>,
         reaper' = reaper \/ reaper' \notin Port
  PROVE  Carried'
BY DEF Carried

\* What the driver data of p says is lost with it.
LEMMA CarriedFree ==
  ASSUME TypeOK, Carried, NEW p \in Port, Free(p), port[p] = "open",
         port' \in {[port EXCEPT ![p] = "eof"], [port EXCEPT ![p] = "closed"]},
         UNCHANGED <<wants, child, reaper>>
  PROVE  Carried'
<1>1. /\ alive'[p] = 0 /\ control'[p] = <<>> /\ port'[p] # "open"
  BY DEF TypeOK, Free
<1>2. ASSUME NEW q \in Port, q # p
      PROVE  /\ alive'[q] = alive[q] /\ control'[q] = control[q]
             /\ status'[q] = status[q] /\ port'[q] = port[q]
  BY <1>2 DEF TypeOK, Free
<1> QED
  BY <1>1, <1>2 DEF Carried, child

LEMMA CarriedSpawn ==
  ASSUME TypeOK, Table, Carried, NEW p \in Port, SpawnStart(p)
  PROVE  Carried'
<1>1. /\ port[p] \in {"new", "spawned"}
      /\ UNCHANGED <<ended, status, control, reaper>>
  BY DEF SpawnStart, Spawn, SpawnFails, Register, child, driver
<1>2. alive[p] = 0 /\ control[p] = <<>>
  BY <1>1, Quiet
<1>3. ASSUME NEW q \in Port, q # p
      PROVE  /\ alive'[q] = alive[q] /\ life'[q] = life[q]
             /\ port'[q] = port[q]
             /\ q \in wants' <=> q \in wants
  BY <1>3 DEF TypeOK, SpawnStart, Spawn, SpawnFails, Register, child, driver
<1>4. /\ alive'[p] # 0 => p \in wants' /\ port'[p] = "open"
      /\ port'[p] = "open" /\ p \in wants' => alive'[p] # 0
      /\ alive'[p] # 2
  <2>1. CASE Spawn(p) \/ SpawnFails(p)
    BY <1>2, <2>1 DEF TypeOK, Spawn, SpawnFails, driver
  <2>2. CASE Register(p)
    BY <2>2 DEF TypeOK, Register
  <2> QED
    BY <2>1, <2>2 DEF SpawnStart
<1>5. control' = control /\ status' = status /\ reaper' = reaper /\ ended' = ended
  BY <1>1
<1>6. ASSUME NEW q \in Port
      PROVE  /\ alive'[q] # 0 => q \in wants' /\ port'[q] = "open"
             /\ port'[q] = "open" /\ q \in wants' => alive'[q] # 0
  BY <1>3, <1>4 DEF Carried
<1>7. ASSUME NEW q \in Port
      PROVE  /\ alive'[q] = 2 => /\ life'[q] = "reaped" /\ reaper' # q
                                /\ status'[q] = ended'[q] /\ control'[q] = <<>>
             /\ control'[q] # <<>> =>
                  /\ life'[q] = "reaped" /\ reaper' # q
                  /\ control'[q] = <<ended'[q]>> /\ alive'[q] = 1
  BY <1>2, <1>3, <1>4, <1>5 DEF Carried
<1> QED
  BY <1>6, <1>7 DEF Carried

LEMMA CarriedReap ==
  ASSUME TypeOK, Carried, NEW p \in Port,
         WaitPid(p) \/ \E s \in Status : Exit(p, s)
  PROVE  Carried'
<1>1. /\ life[p] \in {"running", "zombie"}
      /\ reaper' = reaper \/ reaper' = p
      /\ UNCHANGED <<wants, port, alive, status, control>>
  BY DEF WaitPid, Exit, driver
<1>2. alive[p] # 2 /\ control[p] = <<>>
  BY <1>1 DEF Carried
<1>3. ASSUME NEW q \in Port, q # p
      PROVE  life'[q] = life[q] /\ ended'[q] = ended[q]
  BY <1>3 DEF TypeOK, WaitPid, Exit
<1> QED
  BY <1>1, <1>2, <1>3 DEF Carried

\* The status of a reaped child goes to its own port or to none.
LEMMA RoutedHome ==
  ASSUME TypeOK, Table, reaper \in Port, mapping[pid[reaper]] # None
  PROVE  mapping[pid[reaper]] = reaper /\ Registered(reaper)
<1>1. pid[reaper] \in Pid
  BY DEF Table, Statuses, Children
<1>2. mapping[pid[reaper]] \in Port
  BY <1>1 DEF TypeOK
<1> QED
  BY <1>1, <1>2
     DEF Table, TableExact, EntriesRegistered, PidsApart, Unrouted

LEMMA CarriedRoute ==
  ASSUME TypeOK, Table, Carried, Route
  PROVE  Carried'
<1>1. /\ reaper \in Port /\ reaper' \notin Port
      /\ UNCHANGED <<wants, life, ended, port, alive, status>>
  BY ForkerAssumption DEF Route, child, driver
<1>2. life[reaper] = "reaped" /\ alive[reaper] # 2 /\ control[reaper] = <<>>
  BY <1>1 DEF Table, Statuses, Carried
<1> DEFINE q == mapping[pid[reaper]]
<1>3. CASE q = None \/ Gone(q)
  BY <1>1, <1>3, CarriedKept DEF Route
<1>4. CASE ~(q = None \/ Gone(q))
  <2>1. q = reaper /\ Registered(reaper)
    BY <1>1, <1>4, RoutedHome
  <2>2. port[reaper] = "open" /\ reaper \in wants
    BY <1>1, <1>4, <2>1 DEF Registered, Gone, TypeOK
  <2>3. alive[reaper] = 1
    BY <1>1, <1>2, <2>2 DEF Carried, TypeOK
  <2>4. control' = [control EXCEPT ![reaper] = Append(@, ended[reaper])]
    BY <1>4, <2>1 DEF Route
  <2>5. control'[reaper] = <<ended[reaper]>>
    BY <1>1, <1>2, <2>4 DEF TypeOK
  <2>6. ASSUME NEW p \in Port, p # reaper PROVE control'[p] = control[p]
    BY <2>4, <2>6 DEF TypeOK
  <2> QED
    BY <1>1, <1>2, <2>2, <2>3, <2>5, <2>6 DEF Carried
<1> QED
  BY <1>3, <1>4

LEMMA CarriedControl ==
  ASSUME TypeOK, Carried, NEW p \in Port, SpawnControl(p)
  PROVE  Carried'
<1>1. /\ control[p] = <<ended[p]>> /\ alive[p] = 1
      /\ life[p] = "reaped" /\ reaper # p
      /\ UNCHANGED <<wants, child, port, reaper>>
  BY DEF SpawnControl, Carried
<1>2. Head(control[p]) = ended[p] /\ Tail(control[p]) = <<>>
  BY <1>1
<1>3. status'[p] = ended[p] /\ control'[p] = <<>> /\ alive'[p] = 2
  BY <1>2 DEF SpawnControl, TypeOK
<1>4. ASSUME NEW q \in Port, q # p
      PROVE  /\ alive'[q] = alive[q] /\ control'[q] = control[q]
             /\ status'[q] = status[q]
  BY <1>4 DEF SpawnControl, TypeOK
<1> QED
  BY <1>1, <1>3, <1>4 DEF Carried, child

LEMMA CarriedStep ==
  ASSUME TypeOK, Table, Carried, [Next]_vars
  PROVE  Carried'
<1>1. ASSUME NEW p \in Port, Write(p) \/ HangUp(p) \/ ReadData(p) PROVE Carried'
  BY <1>1, CarriedKept DEF Write, HangUp, ReadData, child, driver
<1>2. ASSUME NEW p \in Port, ReadEof(p) PROVE Carried'
  <2>1. CASE alive[p] = 1
    BY <1>2, <2>1, CarriedKept DEF ReadEof, child
  <2>2. CASE alive[p] # 1
    BY <1>2, <2>2, CarriedFree DEF ReadEof, AtEof
  <2> QED
    BY <2>1, <2>2
<1>3. ASSUME NEW p \in Port, Stop(p) PROVE Carried'
  BY <1>3, CarriedFree DEF Stop
<1>4. CASE Handler \/ Drain \/ ReapedAll
  BY <1>4, ForkerAssumption, CarriedKept
     DEF Handler, Drain, ReapedAll, child, driver
<1>5. CASE UNCHANGED vars
  BY <1>5, CarriedKept DEF vars, child, driver
<1> QED
  BY <1>1, <1>2, <1>3, <1>4, <1>5,
     CarriedSpawn, CarriedReap, CarriedRoute, CarriedControl
     DEF Next, ReadyInput, Kernel, Callback

LEMMA UntouchedStep ==
  ASSUME TypeOK, Untouched, [Next]_vars
  PROVE  Untouched'
<1>1. ASSUME NEW p \in Port, Spawn(p) \/ SpawnFails(p) \/ Register(p) \/ Stop(p)
      PROVE  Untouched'
  BY <1>1 DEF Spawn, SpawnFails, Register, Stop, Free, Untouched, TypeOK, pipes
<1>2. ASSUME NEW p \in Port, Write(p) \/ HangUp(p) \/ ReadData(p) \/ SpawnControl(p)
      PROVE  Untouched'
  BY <1>2 DEF Write, HangUp, ReadData, SpawnControl, Untouched, TypeOK, pipes
<1>3. ASSUME NEW p \in Port, ReadEof(p) PROVE Untouched'
  BY <1>3 DEF ReadEof, AtEof, Free, Untouched, TypeOK, pipes
<1>4. ASSUME NEW p \in Port, WaitPid(p) \/ \E s \in Status : Exit(p, s)
      PROVE  Untouched'
  BY <1>4 DEF WaitPid, Exit, Untouched, pipes
<1>5. CASE Handler \/ Drain \/ Route \/ ReapedAll \/ UNCHANGED vars
  BY <1>5 DEF Handler, Drain, Route, ReapedAll, vars, Untouched, pipes
<1> QED
  BY <1>1, <1>2, <1>3, <1>4, <1>5
     DEF Next, ReadyInput, SpawnStart, Kernel, Callback

LEMMA Inductive ==
  ASSUME IInv, ~EarlyExit, ~EarlyReuse, [Next]_vars
  PROVE  IInv'
BY TypeStep, TableStep, CarriedStep, UntouchedStep DEF IInv, Table

LEMMA InvInit == Init => IInv
<1> SUFFICES ASSUME Init PROVE IInv
  OBVIOUS
<1>1. TypeOK
  BY TypeInit
<1>2. Table
  BY ForkerAssumption DEF Init, Table, Statuses, Children, PidsApart, TableExact,
     EntriesRegistered, Registered, Unrouted
<1>3. Carried /\ Untouched
  BY DEF Init, Carried, Untouched
<1> QED
  BY <1>1, <1>2, <1>3 DEF IInv

\* Every step leaves every variable in its type: no read is taken from an
\* empty pipe and no port but one of the table's is sent a status.
THEOREM TypeCorrect ==
  ASSUME ~EarlyExit, ~EarlyReuse
  PROVE  Spec => []TypeOK
<1>1. Init => IInv
  BY InvInit
<1>2. IInv /\ [Next]_vars => IInv'
  BY Inductive
<1>3. IInv => TypeOK
  BY DEF IInv
<1> QED
  BY <1>1, <1>2, <1>3, PTL DEF Spec

\* Whatever the opener, the children, the signals and the reaper do and in
\* whatever order, the pid table stays exact, where a child outlives its
\* spawn_start and the kernel does not give away a pid the table still names.
THEOREM TableCorrect ==
  ASSUME ~EarlyExit, ~EarlyReuse
  PROVE  Spec => []TableExact
<1>1. Init => IInv
  BY InvInit
<1>2. IInv /\ [Next]_vars => IInv'
  BY Inductive
<1>3. IInv => TableExact
  BY DEF IInv, Table
<1> QED
  BY <1>1, <1>2, <1>3, PTL DEF Spec
-----------------------------------------------------------------------------
(* The drivers implement PortExits.                                        *)

\* The ports of PortExits, one by one.
LEMMA OpenedAs ==
  ASSUME TypeOK, NEW p \in Port
  PROVE  /\ opened[p] = "no" <=> port[p] = "new"
         /\ opened[p] = "yes" <=> port[p] \in {"spawned", "open"}
         /\ opened[p] = "eof" <=> port[p] = "eof"
         /\ opened[p] = "closed" <=> port[p] = "closed"
BY DEF TypeOK, opened

LEMMA OpenedKept ==
  ASSUME port' = port PROVE opened' = opened
BY DEF opened

LEMMA StepOpen ==
  ASSUME TypeOK, NEW p \in Port, Spawn(p) PROVE Exits!Open(p)
<1>1. opened[p] = "no"
  BY OpenedAs DEF Spawn
<1>2. opened' = [opened EXCEPT ![p] = "yes"]
  BY DEF Spawn, TypeOK, opened
<1> QED
  BY <1>1, <1>2 DEF Spawn, Exits!Open, pipes, driver

LEMMA StepRegister ==
  ASSUME TypeOK, NEW p \in Port, Register(p) PROVE UNCHANGED Exits!vars
<1>1. opened' = opened
  BY DEF Register, TypeOK, opened
<1> QED
  BY <1>1 DEF Register, Exits!vars, child, pipes

LEMMA StepClose ==
  ASSUME TypeOK, Untouched, NEW p \in Port, SpawnFails(p) \/ Stop(p)
  PROVE  Exits!Close(p)
<1>1. opened[p] \in {"no", "yes"}
  BY OpenedAs DEF SpawnFails, Stop
<1>2. opened' = [opened EXCEPT ![p] = "closed"]
  BY DEF SpawnFails, Stop, TypeOK, opened
<1>3. Exits!Discard(p)
  <2>1. CASE SpawnFails(p)
    BY <2>1 DEF SpawnFails, Untouched, TypeOK, pipes, Exits!Discard
  <2>2. CASE Stop(p)
    BY <2>2 DEF Stop, Free, Exits!Discard
  <2> QED
    BY <2>1, <2>2
<1> QED
  BY <1>1, <1>2, <1>3 DEF SpawnFails, Stop, Exits!Close, child, driver

LEMMA StepPipe ==
  ASSUME TypeOK, NEW p \in Port, Write(p) \/ HangUp(p) \/ ReadData(p)
  PROVE  Exits!Write(p) \/ Exits!HangUp(p) \/ Exits!Read(p)
<1>1. opened[p] = "yes" /\ opened' = opened
  BY OpenedAs, OpenedKept DEF Write, HangUp, ReadData
<1>2. CASE Write(p)
  BY <1>1, <1>2 DEF Write, Exits!Write, child, driver
<1>3. CASE HangUp(p)
  BY <1>1, <1>3 DEF HangUp, Exits!HangUp, child, driver
<1>4. CASE ReadData(p)
  BY <1>1, <1>4 DEF ReadData, Exits!Read, child, driver
<1> QED
  BY <1>2, <1>3, <1>4

LEMMA StepEnd ==
  ASSUME TypeOK, Table, NEW p \in Port, NEW s \in Status, Exit(p, s)
  PROVE  Exits!End(p, s)
<1>1. opened[p] # "no" /\ opened' = opened
  BY OpenedAs, OpenedKept DEF Exit, Table, Children
<1>2. ended[p] = None
  BY DEF Exit, Table, Statuses
<1> QED
  BY <1>1, <1>2 DEF Exit, Exits!End, pipes, driver

\* At the end of its output a port tells the status it was sent, which is its
\* own child's, or waits for it.
LEMMA StepTell ==
  ASSUME TypeOK, Table, Carried, NEW p \in Port, ReadEof(p)
  PROVE  Exits!Tell(p) \/ UNCHANGED Exits!vars
<1>1. CASE alive[p] = 1
  BY <1>1, OpenedKept DEF ReadEof, Exits!vars, child, pipes
<1>2. CASE alive[p] # 1
  <2>1. Exits!AtEnd(p)
    BY OpenedAs DEF ReadEof, AtEof, Exits!AtEnd
  <2>2. opened' = [opened EXCEPT ![p] = "eof"]
    BY <1>2 DEF ReadEof, TypeOK, opened
  <2>3. Exits!Discard(p) /\ UNCHANGED <<wants, ended>>
    BY <1>2 DEF ReadEof, Free, Exits!Discard, child
  <2>4. CASE alive[p] = 2
    <3>1. /\ p \in wants /\ ended[p] # None
          /\ told' = [told EXCEPT ![p] = ended[p]]
      BY <1>2, <2>4 DEF ReadEof, Carried, Table, Statuses
    <3> QED
      BY <2>1, <2>2, <2>3, <3>1 DEF Exits!Tell
  <2>5. CASE alive[p] # 2
    <3>1. alive[p] = 0
      BY <1>2, <2>5 DEF TypeOK
    <3>2. p \notin wants /\ told' = told
      BY <1>2, <2>5, <3>1 DEF ReadEof, AtEof, Carried
    <3> QED
      BY <2>1, <2>2, <2>3, <3>2 DEF Exits!Tell
  <2> QED
    BY <2>4, <2>5
<1> QED
  BY <1>1, <1>2

LEMMA StepElse ==
  ASSUME \/ Handler \/ Drain \/ Route \/ ReapedAll \/ UNCHANGED vars
         \/ \E p \in Port : WaitPid(p) \/ SpawnControl(p)
  PROVE  UNCHANGED Exits!vars
<1>1. /\ port' = port /\ wants' = wants /\ ended' = ended
      /\ unread' = unread /\ hungUp' = hungUp /\ told' = told
  BY DEF Handler, Drain, Route, ReapedAll, WaitPid, SpawnControl, vars,
     child, pipes, driver
<1> QED
  BY <1>1, OpenedKept DEF Exits!vars

LEMMA StepImplements ==
  ASSUME IInv, [Next]_vars
  PROVE  [Exits!Next]_Exits!vars
BY StepOpen, StepRegister, StepClose, StepPipe, StepEnd, StepTell, StepElse
   DEF IInv, Next, SpawnStart, Kernel, Callback, ReadyInput, Exits!Next

\* Under the same assumptions every step of the drivers is one that PortExits
\* allows: a port reports an end after all of its output, only if it was
\* opened for that, at most once, and the status of its own child.
THEOREM ForkerImplements ==
  ASSUME ~EarlyExit, ~EarlyReuse
  PROVE  Spec => Exits!Init /\ [][Exits!Next]_Exits!vars
<1>1. Init => IInv
  BY InvInit
<1>2. IInv /\ [Next]_vars => IInv'
  BY Inductive
<1>3. Init => Exits!Init
  BY DEF Init, Exits!Init, opened
<1>4. IInv /\ [Next]_vars => [Exits!Next]_Exits!vars
  BY StepImplements
<1> QED
  BY <1>1, <1>2, <1>3, <1>4, PTL DEF Spec
=============================================================================
