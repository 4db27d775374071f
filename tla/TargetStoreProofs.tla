------------------------- MODULE TargetStoreProofs -------------------------
(***************************************************************************)
(* Proofs about TargetStore for any targets, versions and revisions: one   *)
(* process that is not cut off while it unpacks or deletes an OTP, but may *)
(* be anywhere else, lists only what is complete, installs no torn and no  *)
(* foreign runtime, and never touches an OTP in use.                       *)
(***************************************************************************)
EXTENDS TargetStore, TLAPS

Alone ==
  /\ \A p, q \in Process : p = q
  /\ AbortIn \cap {"unpackOtp", "collect"} = {}

Installing == {"check", "stale", "runtime", "fetchRuntime", "unpackRuntime", "json",
               "writeJson", "otp", "fetchOtp", "unpackOtp", "using"}

\* What a command has brought about when it reaches a phase.
Reached(p) ==
  /\ at[p] # "idle" => goal[p] \in Target
  /\ at[p] \in Installing => rev[p] \in Revision
  /\ at[p] \in {"stale", "remove"} => listed[p] = Files(goal[p])
  /\ at[p] = "runtime" => goal[p] \notin dir \/ json[goal[p]] = rev[p]
  /\ at[p] = "fetchRuntime" => goal[p] \notin dir
  /\ at[p] = "unpackRuntime" => json[goal[p]] = "none" /\ goal[p] \in dir
  /\ at[p] \in {"unpackRuntime", "unpackOtp"} => p \in intact
  /\ at[p] \in {"json", "writeJson", "otp", "fetchOtp", "unpackOtp", "using"}
       => runtime[goal[p]] \in {rev[p], "none"}
  /\ at[p] \in {"otp", "fetchOtp", "unpackOtp", "using"} => json[goal[p]] = rev[p]
  /\ at[p] = "writeJson" => json[goal[p]] = "part" /\ goal[p] \in dir
  /\ at[p] = "fetchOtp" => otp[OtpOf[goal[p]]] = "none"
  /\ at[p] = "using" => otp[OtpOf[goal[p]]] = "full"
  /\ at[p] = "gc" => ~Needed(OtpOf[goal[p]])
  /\ at[p] = "collect" => otp[OtpOf[goal[p]]] # "full"

\* A readable target.json names the runtime beside it, if there is one.
Matching == \A t \in Target : json[t] \in Revision => runtime[t] \in {json[t], "none"}

\* An incomplete OTP is being worked on.
Worked ==
  \A v \in Version : otp[v] = "part" =>
    \E p \in Process : at[p] \in {"unpackOtp", "collect"} /\ OtpOf[goal[p]] = v

IInv == TypeOK /\ (\A p \in Process : Reached(p)) /\ Matching /\ Worked

-----------------------------------------------------------------------------

LEMMA InitIInv == Init => IInv
BY TargetStoreAssumption
   DEF Init, IInv, TypeOK, Files, Reached, Matching, Worked, Installing, Phase

\* A command that ends leaves nothing to claim.
LEMMA StopStep ==
  ASSUME Alone, IInv, NEW p \in Process, Stop(p), UNCHANGED <<runtime, json>>,
         at[p] \notin {"unpackOtp", "collect"} \/ otp' = [otp EXCEPT ![OtpOf[goal[p]]] = "none"],
         UNCHANGED otp \/ (goal[p] \in Target /\ otp' = [otp EXCEPT ![OtpOf[goal[p]]] = "none"]),
         dir' \subseteq dir, \A t \in Target : Files(t) # {} => t \in dir'
  PROVE  IInv'
<1>1. TypeOK'
  <2>1. \A t \in Target : Files(t)' = Files(t)
    BY DEF Files
  <2>2. otp' \in [Version -> {"none", "part", "full"}]
    BY TargetStoreAssumption DEF IInv, TypeOK
  <2>3. /\ at' \in [Process -> Phase] /\ goal' \in [Process -> Target \cup {None}]
        /\ rev' \in [Process -> Revision \cup {None}]
        /\ listed' \in [Process -> SUBSET {"runtime", "json"}] /\ intact' \subseteq Process
    BY DEF IInv, TypeOK, Stop, Go, Phase
  <2>4. dir' \subseteq Target
    BY DEF IInv, TypeOK
  <2> QED BY <2>1, <2>2, <2>3, <2>4 DEF IInv, TypeOK
<1>2. \A q \in Process : Reached(q)'
  BY DEF Alone, IInv, TypeOK, Stop, Go, Reached, Installing
<1>3. Matching'
  BY DEF IInv, Matching
<1>4. Worked'
  BY TargetStoreAssumption DEF Alone, IInv, TypeOK, Worked, Stop, Go
<1> QED BY <1>1, <1>2, <1>3, <1>4 DEF IInv

\* Steps that only move on.
LEMMA MoveStep ==
  ASSUME Alone, IInv, NEW p \in Process, NEW phase \in Phase \ {"idle"}, Go(p, phase),
         UNCHANGED <<disk, command, intact>>, listed' = listed \/ listed' = [listed EXCEPT ![p] = Files(goal[p])],
         at[p] \notin {"idle", "unpackOtp", "collect"}, Reached(p)'
  PROVE  IInv'
<1> USE DEF disk, command
<1>1. TypeOK'
  <2>1. /\ \A t \in Target : Files(t)' = Files(t)
        /\ Files(goal[p]) \subseteq {"runtime", "json"}
    BY DEF Files
  <2>2. at' \in [Process -> Phase]
    BY DEF IInv, TypeOK, Go
  <2>3. listed' \in [Process -> SUBSET {"runtime", "json"}]
    BY <2>1 DEF IInv, TypeOK
  <2> QED BY <2>1, <2>2, <2>3 DEF IInv, TypeOK
<1>2. \A q \in Process : Reached(q)'
  BY DEF Alone
<1>3. Matching'
  BY DEF IInv, Matching
<1>4. Worked'
  BY DEF Alone, IInv, TypeOK, Worked, Go
<1> QED BY <1>1, <1>2, <1>3, <1>4 DEF IInv

\* Checks and waits: what the next phase is told of the disk is there.
LEMMA PassSteps ==
  ASSUME Alone, IInv, NEW p \in Process,
         Check(p) \/ Runtime(p) \/ Otp(p) \/ (Scan(p) /\ ~Stop(p))
  PROVE  IInv'
<1> USE DEF disk, command, IInv
<1>1. CASE Check(p)
  <2>1. PICK phase \in {"stale", "runtime"} :
          /\ Go(p, phase) /\ UNCHANGED <<disk, command, intact>>
          /\ phase = "stale" => listed' = [listed EXCEPT ![p] = Files(goal[p])]
          /\ phase = "runtime" => listed' = listed /\ ~Stale(p)
    BY <1>1 DEF Check
  <2>2. Reached(p)'
    BY <1>1, <2>1 DEF Check, Stale, Reached, Go, TypeOK, Installing, Files
  <2>3. at[p] = "check" /\ phase \in Phase \ {"idle"}
    BY <1>1 DEF Check, Phase
  <2> QED BY <2>1, <2>2, <2>3, MoveStep
<1>2. CASE Runtime(p)
  <2>1. PICK phase \in {"json", "fetchRuntime"} :
          /\ Go(p, phase) /\ UNCHANGED <<disk, command, listed, intact>>
          /\ phase = "json" <=> goal[p] \in dir
    BY <1>2 DEF Runtime
  <2>2. at[p] = "runtime" /\ goal[p] \in Target /\ rev[p] \in Revision
    BY <1>2 DEF Runtime, Reached, Installing
  <2>3. phase = "json" => runtime[goal[p]] \in {rev[p], "none"}
    BY <2>1, <2>2 DEF Reached, Matching
  <2>4. Reached(p)'
    BY <2>1, <2>2, <2>3 DEF Reached, Go, TypeOK, Installing
  <2>5. phase \in Phase \ {"idle"}
    BY DEF Phase
  <2> QED BY <2>1, <2>2, <2>4, <2>5, MoveStep
<1>3. CASE Otp(p)
  <2>1. PICK phase \in {"fetchOtp", "using"} :
          /\ Go(p, phase) /\ UNCHANGED <<disk, command, listed, intact>>
          /\ phase = "fetchOtp" <=> otp[OtpOf[goal[p]]] = "none"
    BY <1>3 DEF Otp
  <2>2. /\ at[p] = "otp" /\ goal[p] \in Target /\ OtpOf[goal[p]] \in Version
        /\ rev[p] \in Revision /\ runtime[goal[p]] \in {rev[p], "none"} /\ json[goal[p]] = rev[p]
    BY <1>3, TargetStoreAssumption DEF Otp, Reached, Installing
  <2>3. otp[OtpOf[goal[p]]] # "part"
    BY <2>2 DEF Worked, Alone
  <2>4. phase = "using" => otp[OtpOf[goal[p]]] = "full"
    BY <2>1, <2>2, <2>3 DEF TypeOK
  <2>5. Reached(p)'
    BY <2>1, <2>2, <2>4 DEF Reached, Go, TypeOK, Installing
  <2>6. phase \in Phase \ {"idle"}
    BY DEF Phase
  <2> QED BY <2>1, <2>2, <2>5, <2>6, MoveStep
<1>4. CASE Scan(p) /\ ~Stop(p)
  <2>1. /\ at[p] = "scan" /\ goal[p] \in Target /\ Go(p, "gc") /\ ~Needed(OtpOf[goal[p]])
        /\ UNCHANGED <<disk, command, listed, intact>>
    BY <1>4 DEF Scan, Reached
  <2>2. Reached(p)'
    BY <2>1 DEF Reached, Go, TypeOK, Installing, Needed
  <2>3. "gc" \in Phase \ {"idle"}
    BY DEF Phase
  <2> QED BY <2>1, <2>2, <2>3, MoveStep
<1> QED BY <1>1, <1>2, <1>3, <1>4

-----------------------------------------------------------------------------
(* Steps that change the disk.                                             *)

\* Steps on the runtime of the target: the OTPs are not touched.
LEMMA RuntimeSteps ==
  ASSUME Alone, IInv, NEW p \in Process, NEW phase \in Phase \ {"idle"}, Go(p, phase),
         at[p] \notin {"idle", "unpackOtp", "collect"},
         UNCHANGED <<otp, command>>, listed' \in [Process -> SUBSET {"runtime", "json"}], intact' \subseteq Process,
         NEW r \in Revision \cup {"none", "part"}, runtime' = [runtime EXCEPT ![goal[p]] = r],
         NEW j \in Revision \cup {"none", "part"}, json' = [json EXCEPT ![goal[p]] = j],
         dir' = dir \/ dir' = dir \cup {goal[p]},
         r # "none" \/ j # "none" => goal[p] \in dir', j \in Revision => r \in {j, "none"},
         Reached(p)'
  PROVE  IInv'
<1> USE DEF command, IInv
<1>1. goal[p] \in Target
  BY DEF Reached
<1>2. TypeOK'
  <2>1. /\ runtime' \in [Target -> Revision \cup {"none", "part"}] /\ runtime'[goal[p]] = r
        /\ json' \in [Target -> Revision \cup {"none", "part"}] /\ json'[goal[p]] = j
        /\ \A t \in Target \ {goal[p]} : runtime'[t] = runtime[t] /\ json'[t] = json[t]
    BY <1>1 DEF TypeOK
  <2>2. \A t \in Target : Files(t)' # {} => t \in dir'
    BY <1>1, <2>1 DEF TypeOK, Files
  <2>3. dir' \subseteq Target /\ at' \in [Process -> Phase] /\ UNCHANGED <<otp, goal, rev>>
    BY <1>1 DEF TypeOK, Go
  <2> QED BY <2>1, <2>2, <2>3 DEF TypeOK
<1>3. Matching'
  BY <1>1 DEF Matching, TypeOK
<1>4. Worked'
  BY DEF Alone, Worked, TypeOK, Go
<1>5. \A q \in Process : Reached(q)'
  BY DEF Alone
<1> QED BY <1>2, <1>3, <1>4, <1>5

\* Unpacking the runtime and writing target.json.
LEMMA InstallSteps ==
  ASSUME Alone, IInv, NEW p \in Process,
         UnpackRuntime(p) \/ RuntimeUnpacked(p) \/ OpenJson(p) \/ WriteJson(p)
  PROVE  IInv'
<1> USE DEF command, IInv
<1>1. /\ at[p] \in {"fetchRuntime", "unpackRuntime", "json", "writeJson"}
      /\ goal[p] \in Target /\ rev[p] \in Revision
  BY DEF UnpackRuntime, RuntimeUnpacked, OpenJson, WriteJson, Reached, Installing
<1>2. /\ runtime = [runtime EXCEPT ![goal[p]] = runtime[goal[p]]]
      /\ json = [json EXCEPT ![goal[p]] = json[goal[p]]]
      /\ runtime[goal[p]] \in Revision \cup {"none", "part"}
      /\ json[goal[p]] \in Revision \cup {"none", "part"}
  BY <1>1 DEF TypeOK
<1>3. "part" \notin Revision /\ "none" \notin Revision
  BY TargetStoreAssumption
<1>4. CASE UnpackRuntime(p)
  <2>1. json[goal[p]] = "none" /\ goal[p] \notin dir
    BY <1>1, <1>2, <1>4 DEF UnpackRuntime, Reached, TypeOK, Files
  <2>2. /\ at' = [at EXCEPT ![p] = "unpackRuntime"] /\ "unpackRuntime" \in Phase
        /\ dir' = dir \cup {goal[p]} /\ runtime' = [runtime EXCEPT ![goal[p]] = "part"]
        /\ p \in intact' /\ intact' \subseteq Process
        /\ UNCHANGED <<json, otp, goal, rev, listed>>
    BY <1>4 DEF UnpackRuntime, Go, Phase, TypeOK
  <2>3. Reached(p)'
    BY <1>1, <2>1, <2>2 DEF Reached, Installing, TypeOK
  <2> QED BY <1>1, <1>2, <1>3, <2>1, <2>2, <2>3, RuntimeSteps DEF Go, TypeOK
<1>5. CASE RuntimeUnpacked(p)
  <2>1. json[goal[p]] = "none" /\ goal[p] \in dir /\ p \in intact
    BY <1>5 DEF RuntimeUnpacked, Reached
  <2>2. /\ at' = [at EXCEPT ![p] = "json"] /\ "json" \in Phase
        /\ runtime' = [runtime EXCEPT ![goal[p]] = rev[p]] /\ intact' \subseteq Process
        /\ UNCHANGED <<dir, json, otp, goal, rev, listed>>
    BY <1>5, <2>1 DEF RuntimeUnpacked, Go, Phase, TypeOK
  <2>3. Reached(p)'
    BY <1>1, <2>1, <2>2 DEF Reached, Installing, TypeOK
  <2> QED BY <1>1, <1>2, <1>3, <2>1, <2>2, <2>3, RuntimeSteps DEF Go, TypeOK
<1>6. CASE OpenJson(p)
  <2>1. runtime[goal[p]] \in {rev[p], "none"}
    BY <1>6 DEF OpenJson, Reached
  <2>2. /\ at' = [at EXCEPT ![p] = "writeJson"] /\ "writeJson" \in Phase
        /\ dir' = dir \cup {goal[p]} /\ json' = [json EXCEPT ![goal[p]] = "part"]
        /\ UNCHANGED <<runtime, otp, goal, rev, listed, intact>>
    BY <1>6 DEF OpenJson, Go, Phase
  <2>3. Reached(p)'
    BY <1>1, <2>1, <2>2 DEF Reached, Installing, TypeOK
  <2> QED BY <1>1, <1>2, <1>3, <2>1, <2>2, <2>3, RuntimeSteps DEF Go, TypeOK
<1>7. CASE WriteJson(p)
  <2>1. runtime[goal[p]] \in {rev[p], "none"} /\ json[goal[p]] = "part" /\ goal[p] \in dir
    BY <1>7 DEF WriteJson, Reached
  <2>2. /\ at' = [at EXCEPT ![p] = "otp"] /\ "otp" \in Phase
        /\ json' = [json EXCEPT ![goal[p]] = rev[p]]
        /\ UNCHANGED <<dir, runtime, otp, goal, rev, listed, intact>>
    BY <1>7, <2>1 DEF WriteJson, Go, Phase
  <2>3. Reached(p)'
    BY <1>1, <2>1, <2>2 DEF Reached, Installing, TypeOK
  <2> QED BY <1>1, <1>2, <1>3, <2>1, <2>2, <2>3, RuntimeSteps DEF Go, TypeOK
<1> QED BY <1>4, <1>5, <1>6, <1>7

\* Deleting a target: its files go in either order.
LEMMA DeleteSteps ==
  ASSUME Alone, IInv, NEW p \in Process, Delete(p)
  PROVE  IInv'
<1> USE DEF command, IInv
<1>1. /\ at[p] \in {"stale", "remove"} /\ goal[p] \in Target /\ listed[p] = Files(goal[p])
      /\ at[p] = "stale" => rev[p] \in Revision
  BY DEF Delete, DeleteDir, DeleteFile, Reached, Installing
<1>2. "part" \notin Revision /\ "none" \notin Revision
  BY TargetStoreAssumption
<1>3. ASSUME NEW f \in {"runtime", "json"}, DeleteFile(p, f)
      PROVE  IInv'
  <2>1. Go(p, at[p]) /\ at[p] \in Phase \ {"idle"}
    BY <1>1, <1>3 DEF DeleteFile, Go, TypeOK, Phase
  <2>2. /\ listed' = [listed EXCEPT ![p] = listed[p] \ {f}] /\ UNCHANGED <<dir, otp, at, goal, rev>>
        /\ intact' \subseteq Process
    BY <1>3 DEF DeleteFile, TypeOK
  <2>3. listed' \in [Process -> SUBSET {"runtime", "json"}] /\ goal[p] \in dir
    BY <1>1, <1>3, <2>2 DEF DeleteFile, TypeOK
  <2>4. CASE f = "runtime"
    <3>1. runtime' = [runtime EXCEPT ![goal[p]] = "none"] /\ json' = json
      BY <1>3, <2>4 DEF DeleteFile
    <3>2. /\ json' = [json EXCEPT ![goal[p]] = json[goal[p]]]
          /\ json[goal[p]] \in Revision \cup {"none", "part"}
      BY <1>1, <3>1 DEF TypeOK
    <3>3. Reached(p)'
      <4>1. Files(goal[p])' = Files(goal[p]) \ {f}
        BY <1>1, <2>2, <2>4, <3>1 DEF Files, TypeOK
      <4> QED BY <1>1, <2>2, <4>1 DEF Reached, Installing, TypeOK
    <3> QED BY <1>1, <1>2, <2>1, <2>2, <2>3, <3>1, <3>2, <3>3, RuntimeSteps
  <2>5. CASE f = "json"
    <3>1. json' = [json EXCEPT ![goal[p]] = "none"] /\ runtime' = runtime
      BY <1>3, <2>5 DEF DeleteFile
    <3>2. /\ runtime' = [runtime EXCEPT ![goal[p]] = runtime[goal[p]]]
          /\ runtime[goal[p]] \in Revision \cup {"none", "part"}
      BY <1>1, <3>1 DEF TypeOK
    <3>3. Reached(p)'
      <4>1. Files(goal[p])' = Files(goal[p]) \ {f}
        BY <1>1, <2>2, <2>5, <3>1 DEF Files, TypeOK
      <4> QED BY <1>1, <2>2, <4>1 DEF Reached, Installing, TypeOK
    <3> QED BY <1>1, <1>2, <2>1, <2>2, <2>3, <3>1, <3>2, <3>3, RuntimeSteps
  <2> QED BY <2>4, <2>5
<1>4. CASE DeleteDir(p)
  <2>1. Files(goal[p]) = {}
    BY <1>1, <1>4 DEF DeleteDir
  <2>2. PICK phase \in {"runtime", "scan"} :
          /\ at' = [at EXCEPT ![p] = phase] /\ dir' = dir \ {goal[p]}
          /\ phase = "runtime" <=> at[p] = "stale"
          /\ UNCHANGED <<goal, rev, listed, intact, runtime, json, otp>>
    BY <1>1, <1>4, <2>1 DEF DeleteDir, Go
  <2>3. TypeOK'
    <3>1. \A t \in Target : Files(t)' = Files(t)
      BY <2>2 DEF Files
    <3>2. \A t \in Target : Files(t)' # {} => t \in dir'
      BY <2>1, <2>2, <3>1 DEF TypeOK
    <3> QED BY <2>2, <3>2 DEF TypeOK, Phase
  <2>4. \A q \in Process : Reached(q)'
    BY <1>1, <2>2 DEF Alone, Reached, Installing, TypeOK
  <2>5. Matching' /\ Worked'
    BY <1>1, <2>2 DEF Alone, Matching, Worked, TypeOK
  <2> QED BY <2>3, <2>4, <2>5
<1> QED BY <1>3, <1>4 DEF Delete

\* Unpacking and deleting an OTP: what an installed target needs is not touched.
LEMMA OtpSteps ==
  ASSUME Alone, IInv, NEW p \in Process, UnpackOtp(p) \/ OtpUnpacked(p) \/ Collect(p)
  PROVE  IInv' /\ \A v \in Version : otp[v] = "full" /\ otp'[v] # "full" => ~Needed(v)
<1> USE DEF command, IInv
<1>1. /\ at[p] \in {"fetchOtp", "unpackOtp", "gc"} /\ goal[p] \in Target /\ OtpOf[goal[p]] \in Version
      /\ at[p] # "gc" => /\ rev[p] \in Revision /\ runtime[goal[p]] \in {rev[p], "none"}
                        /\ json[goal[p]] = rev[p]
      /\ at[p] = "fetchOtp" => otp[OtpOf[goal[p]]] = "none"
      /\ at[p] = "unpackOtp" => p \in intact
      /\ at[p] = "gc" => ~Needed(OtpOf[goal[p]])
  BY TargetStoreAssumption DEF UnpackOtp, OtpUnpacked, Collect, Reached, Installing
<1>2. PICK phase \in {"unpackOtp", "using", "collect"}, o \in {"none", "part", "full"} :
        /\ at' = [at EXCEPT ![p] = phase] /\ otp' = [otp EXCEPT ![OtpOf[goal[p]]] = o]
        /\ phase = "unpackOtp" <=> at[p] = "fetchOtp"
        /\ phase = "using" <=> at[p] = "unpackOtp"
        /\ phase = "unpackOtp" => p \in intact'
        /\ phase = "using" => o = "full"
        /\ o = "full" => at[p] = "unpackOtp"
  <2>1. otp[OtpOf[goal[p]]] \in {"none", "part", "full"}
    BY <1>1 DEF TypeOK
  <2>2. CASE UnpackOtp(p)
    BY <1>1, <2>2 DEF UnpackOtp, Go
  <2>3. CASE OtpUnpacked(p)
    BY <1>1, <2>3 DEF OtpUnpacked, Go
  <2>4. CASE Collect(p)
    BY <1>1, <2>1, <2>4 DEF Collect, Go
  <2> QED BY <2>2, <2>3, <2>4
<1>3. intact' \subseteq Process /\ UNCHANGED <<dir, runtime, json, goal, rev, listed>>
  BY DEF UnpackOtp, OtpUnpacked, Collect, TypeOK
<1>4. TypeOK'
  <2>1. \A t \in Target : Files(t)' = Files(t)
    BY <1>3 DEF Files
  <2>2. at' \in [Process -> Phase] /\ otp' \in [Version -> {"none", "part", "full"}]
    BY <1>2 DEF TypeOK, Phase
  <2> QED BY <1>3, <2>1, <2>2 DEF TypeOK
<1>5. Reached(p)'
  BY <1>1, <1>2, <1>3 DEF Reached, Installing, TypeOK
<1>6. \A q \in Process : Reached(q)'
  BY <1>5 DEF Alone
<1>7. Matching'
  BY <1>3 DEF Matching
<1>8. Worked'
  <2>1. \A q \in Process : q = p
    BY DEF Alone
  <2>2. \A v \in Version \ {OtpOf[goal[p]]} : otp'[v] = otp[v] /\ otp[v] # "part"
    BY <1>1, <1>2, <2>1 DEF Worked, TypeOK
  <2>3. phase = "using" => otp'[OtpOf[goal[p]]] = "full"
    BY <1>1, <1>2 DEF TypeOK
  <2>4. at'[p] = phase /\ goal'[p] = goal[p]
    BY <1>2, <1>3 DEF TypeOK
  <2> QED BY <2>2, <2>3, <2>4 DEF Worked
<1>9. \A v \in Version : otp[v] = "full" /\ otp'[v] # "full" => ~Needed(v)
  BY <1>1, <1>2 DEF TypeOK
<1> QED BY <1>4, <1>6, <1>7, <1>8, <1>9

-----------------------------------------------------------------------------
(* Commands begin and end.                                                 *)

LEMMA StartSteps ==
  ASSUME Alone, IInv, NEW p \in Process, NEW t \in Target,
         Uninstall(p, t) \/ \E r \in Revision : Install(p, t, r)
  PROVE  IInv'
<1> USE DEF disk, command, IInv
<1> DEFINE Begun(r, phase, l) ==
        /\ at[p] = "idle" /\ UNCHANGED <<dir, runtime, json, otp, intact>>
        /\ goal' = [goal EXCEPT ![p] = t] /\ rev' = [rev EXCEPT ![p] = r]
        /\ at' = [at EXCEPT ![p] = phase] /\ listed' = [listed EXCEPT ![p] = l]
        /\ phase = "check" => r \in Revision
        /\ phase = "remove" => l = Files(t)
<1>1. PICK r \in Revision \cup {None}, phase \in {"check", "remove"}, l \in {listed[p], Files(t)} :
        Begun(r, phase, l)
  <2>1. listed = [listed EXCEPT ![p] = listed[p]]
    BY DEF TypeOK
  <2>2. CASE Uninstall(p, t)
    <3>1. Begun(None, "remove", Files(t))
      BY <2>2 DEF Uninstall, Start, Go
    <3> QED BY <3>1
  <2>3. ASSUME NEW r \in Revision, Install(p, t, r)
        PROVE  Begun(r, "check", listed[p])
    BY <2>1, <2>3 DEF Install, Start, Go
  <2> QED BY <2>2, <2>3
<1>2. \A u \in Target : Files(u)' = Files(u) /\ Files(u) \subseteq {"runtime", "json"}
  BY <1>1 DEF Files
<1>3. TypeOK'
  BY <1>1, <1>2 DEF TypeOK, Phase
<1>4. Reached(p)'
  BY <1>1, <1>2 DEF Reached, Installing, TypeOK
<1>5. \A q \in Process : Reached(q)'
  BY <1>4 DEF Alone
<1>6. Matching' /\ Worked'
  BY <1>1 DEF Alone, Matching, Worked, TypeOK
<1> QED BY <1>3, <1>5, <1>6

LEMMA EndSteps ==
  ASSUME Alone, IInv, NEW p \in Process,
         Used(p) \/ Abort(p) \/ Collected(p) \/ (Scan(p) /\ Stop(p))
  PROVE  IInv'
<1> USE DEF disk
<1>1. \A t \in Target : Files(t) # {} => t \in dir
  BY DEF IInv, TypeOK
<1>2. CASE Collected(p)
  <2>1. SameOtp(p) = {}
    BY DEF Alone, SameOtp
  <2>2. at[p] = "collect" /\ goal[p] \in Target
    BY <1>2 DEF Collected, IInv, Reached
  <2> QED BY <1>1, <1>2, <2>1, <2>2, StopStep DEF Collected
<1>3. CASE Used(p) \/ Abort(p) \/ (Scan(p) /\ Stop(p))
  <2>1. Stop(p) /\ UNCHANGED disk /\ at[p] \notin {"unpackOtp", "collect"}
    BY <1>3 DEF Used, Abort, Scan, Alone
  <2> QED BY <1>1, <2>1, StopStep
<1> QED BY <1>2, <1>3

\* Every step.
LEMMA IInvStep ==
  ASSUME Alone, IInv, [Next]_vars
  PROVE  IInv'
<1>1. ASSUME NEW p \in Process, NEW t \in Target,
             Uninstall(p, t) \/ \E r \in Revision : Install(p, t, r)
      PROVE  IInv'
  BY <1>1, StartSteps
<1>2. ASSUME NEW p \in Process, InstallRuntime(p) PROVE IInv'
  BY <1>2, PassSteps, InstallSteps DEF InstallRuntime
<1>3. ASSUME NEW p \in Process, InstallOtp(p) PROVE IInv'
  BY <1>3, PassSteps, OtpSteps DEF InstallOtp
<1>4. ASSUME NEW p \in Process, Used(p) \/ Abort(p) PROVE IInv'
  BY <1>4, EndSteps
<1>5. ASSUME NEW p \in Process, Delete(p) PROVE IInv'
  BY <1>5, DeleteSteps
<1>6. ASSUME NEW p \in Process, Gc(p) PROVE IInv'
  BY <1>6, PassSteps, OtpSteps, EndSteps DEF Gc
<1>7. CASE UNCHANGED vars
  <2> USE <1>7 DEF vars, disk, command
  <2>1. \A t \in Target : Files(t)' = Files(t)
    BY DEF Files
  <2>2. TypeOK' /\ Matching' /\ Worked'
    BY <2>1 DEF IInv, TypeOK, Matching, Worked
  <2>3. \A p \in Process : Reached(p)'
    BY DEF IInv, Reached, Files, Needed
  <2> QED BY <2>2, <2>3 DEF IInv
<1> QED BY <1>1, <1>2, <1>3, <1>4, <1>5, <1>6, <1>7 DEF Next

-----------------------------------------------------------------------------
(* The theorems.                                                           *)

\* The inductive invariant: what each phase relies on, target.json names the
\* runtime beside it if there is one, and an incomplete OTP is being worked on.
THEOREM StoreInvariant ==
  ASSUME Alone
  PROVE  Spec => []IInv
<1>1. IInv /\ [Next]_vars => IInv'
  BY IInvStep
<1> QED BY <1>1, InitIInv, PTL DEF Spec

\* The disk and the processes keep their types.
THEOREM StoreTypes ==
  ASSUME Alone
  PROVE  Spec => []TypeOK
<1>1. IInv => TypeOK
  BY DEF IInv
<1> QED BY <1>1, StoreInvariant, PTL

\* What installed() lists is complete and of the revision it says.
THEOREM ListingIsTrue ==
  ASSUME Alone
  PROVE  Spec => []ListedIsReady
<1>1. ASSUME IInv PROVE ListedIsReady
  <2>1. SUFFICES ASSUME \A p \in Process : at[p] = "idle", NEW t \in Installed
                 PROVE  runtime[t] = json[t] /\ otp[OtpOf[t]] = "full"
    BY DEF ListedIsReady
  <2>2. /\ t \in Target /\ json[t] \in Revision /\ runtime[t] # "none"
        /\ otp[OtpOf[t]] # "none" /\ OtpOf[t] \in Version
    BY <2>1, TargetStoreAssumption DEF Installed
  <2>3. otp[OtpOf[t]] # "part"
    BY <1>1, <2>1, <2>2 DEF IInv, Worked
  <2> QED BY <1>1, <2>2, <2>3 DEF IInv, Matching, TypeOK
<1> QED BY <1>1, StoreInvariant, PTL

\* install returns with a complete OTP and a target.json of its revision, and
\* with the runtime of that revision, or none where a removal was cut off
\* behind it: deleting in any order, cut off anywhere but in the OTP.
THEOREM InstallIsComplete ==
  ASSUME Alone
  PROVE  Spec => []InstalledIsReady
<1>1. IInv => InstalledIsReady
  BY DEF IInv, Reached, InstalledIsReady
<1> QED BY <1>1, StoreInvariant, PTL

\* Garbage collection leaves the OTPs installed targets need.
THEOREM CollectSpares ==
  ASSUME Alone
  PROVE  Spec => NeededIsKept
<1>1. ASSUME IInv, [Next]_vars
      PROVE  [\A v \in Version : otp[v] = "full" /\ otp'[v] # "full" => ~Needed(v)]_vars
  <2>1. ASSUME UNCHANGED otp
        PROVE  \A v \in Version : otp[v] = "full" /\ otp'[v] # "full" => ~Needed(v)
    BY <2>1
  <2>2. ASSUME NEW p \in Process, UnpackOtp(p) \/ OtpUnpacked(p) \/ Collect(p)
        PROVE  \A v \in Version : otp[v] = "full" /\ otp'[v] # "full" => ~Needed(v)
    BY <1>1, <2>2, OtpSteps
  <2>3. ASSUME NEW p \in Process, Collected(p)
        PROVE  \A v \in Version : otp[v] = "full" /\ otp'[v] # "full" => ~Needed(v)
    <3>1. at[p] = "collect" /\ goal[p] \in Target /\ OtpOf[goal[p]] \in Version
      BY <1>1, <2>3, TargetStoreAssumption DEF Collected, IInv, Reached
    <3>2. \A v \in Version : otp[v] = "full" /\ otp'[v] # "full" => v = OtpOf[goal[p]]
      BY <1>1, <2>3, <3>1 DEF Collected, IInv, TypeOK
    <3>3. otp[OtpOf[goal[p]]] # "full"
      BY <1>1, <3>1 DEF IInv, Reached
    <3> QED BY <3>2, <3>3
  <2>4. CASE UNCHANGED vars
    BY <2>4
  <2>5. UNCHANGED otp \/ UNCHANGED vars
        \/ \E p \in Process : UnpackOtp(p) \/ OtpUnpacked(p) \/ Collect(p) \/ Collected(p)
    BY <1>1 DEF Next, InstallRuntime, InstallOtp, Delete, Gc, Abort, Used, Install, Uninstall, Check,
                Runtime, UnpackRuntime, RuntimeUnpacked, OpenJson, WriteJson, Otp, DeleteDir, DeleteFile,
                Scan, disk
  <2> QED BY <2>1, <2>2, <2>3, <2>4, <2>5
<1> QED BY <1>1, StoreInvariant, PTL DEF Spec, NeededIsKept
=============================================================================
