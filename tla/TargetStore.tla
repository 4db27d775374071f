----------------------------- MODULE TargetStore -----------------------------
(***************************************************************************)
(* The cache of runtimes and OTP releases, target.gleam.  Every target has *)
(* a directory with its runtime and a target.json, written last; targets   *)
(* of one OTP version share a directory with that OTP.  install unpacks    *)
(* what is missing, uninstall deletes a runtime and then an OTP that no    *)
(* target.json names any more.  Each gleepack process takes one command    *)
(* after another; nothing keeps two processes apart, and one may be killed *)
(* or fail between any two steps.                                          *)
(***************************************************************************)
EXTENDS Naturals

CONSTANTS Process, Target, Version, Revision,
          OtpOf,      \* OtpOf[t]: the OTP version of target t
          AbortIn,    \* phases in which a process may be killed or fail
          None

Phase == {"idle",
          "check", "stale", "runtime", "fetchRuntime", "unpackRuntime",
          "json", "writeJson", "otp", "fetchOtp", "unpackOtp", "using",
          "remove", "scan", "gc", "collect"}

ASSUME TargetStoreAssumption ==
  /\ OtpOf \in [Target -> Version]
  /\ AbortIn \subseteq Phase \ {"idle"}
  /\ None \notin Target \cup Revision
  /\ {"none", "part"} \cap Revision = {}

VARIABLES dir,     \* targets that have a directory
          runtime, \* runtime[t]: the revision of its file, "part" or "none"
          json,    \* json[t]: the revision target.json names, "part" or "none"
          otp,     \* otp[v]: "none", "part" or "full"
          at,      \* at[p]: the phase of process p
          goal,    \* goal[p]: the target its command is about, or None
          rev,     \* rev[p]: the revision it is to install, or None
          listed,  \* listed[p]: files its delete has found and has yet to delete
          intact   \* processes whose unpacking nobody has interfered with

disk == <<dir, runtime, json, otp>>
command == <<goal, rev>>
vars == <<disk, at, command, listed, intact>>

Init ==
  /\ dir = {}
  /\ runtime = [t \in Target |-> "none"]
  /\ json = [t \in Target |-> "none"]
  /\ otp = [v \in Version |-> "none"]
  /\ at = [p \in Process |-> "idle"]
  /\ goal = [p \in Process |-> None]
  /\ rev = [p \in Process |-> None]
  /\ listed = [p \in Process |-> {}]
  /\ intact = {}

Go(p, phase) == at' = [at EXCEPT ![p] = phase]
Start(p, t, r, phase) ==
  /\ at[p] = "idle"
  /\ goal' = [goal EXCEPT ![p] = t] /\ rev' = [rev EXCEPT ![p] = r]
  /\ Go(p, phase)
Stop(p) ==
  /\ goal' = [goal EXCEPT ![p] = None] /\ rev' = [rev EXCEPT ![p] = None]
  /\ listed' = [listed EXCEPT ![p] = {}]
  /\ intact' = intact \ {p}
  /\ Go(p, "idle")

\* Processes other than p that are unpacking the same runtime or OTP.
SameRuntime(p) == {q \in Process \ {p} : at[q] = "unpackRuntime" /\ goal[q] = goal[p]}
SameOtp(p) == {q \in Process \ {p} : at[q] = "unpackOtp"
                                     /\ OtpOf[goal[q]] = OtpOf[goal[p]]}
-----------------------------------------------------------------------------
(* Deleting the directory of a target: its files one by one, in whatever   *)
(* order the directory lists them, then the directory itself.              *)

Files(t) == {f \in {"runtime", "json"} :
               IF f = "runtime" THEN runtime[t] # "none" ELSE json[t] # "none"}

DeleteFile(p, f) ==
  /\ at[p] \in {"stale", "remove"} /\ f \in listed[p]
  /\ listed' = [listed EXCEPT ![p] = @ \ {f}]
  /\ IF f = "runtime"
     THEN /\ runtime' = [runtime EXCEPT ![goal[p]] = "none"]
          /\ intact' = intact \ SameRuntime(p)
          /\ UNCHANGED json
     ELSE /\ json' = [json EXCEPT ![goal[p]] = "none"]
          /\ UNCHANGED <<runtime, intact>>
  /\ UNCHANGED <<dir, otp, at, command>>

\* Mutation: the directory goes with what is in it.
DeleteDirAnyway(p) ==
  /\ at[p] \in {"stale", "remove"}
  /\ dir' = dir \ {goal[p]}
  /\ Go(p, IF at[p] = "stale" THEN "runtime" ELSE "scan")
  /\ UNCHANGED <<runtime, json, otp, command, listed, intact>>

DeleteDir(p) ==
  /\ at[p] \in {"stale", "remove"} /\ listed[p] = {}
  /\ IF Files(goal[p]) = {}
     THEN /\ dir' = dir \ {goal[p]}
          /\ Go(p, IF at[p] = "stale" THEN "runtime" ELSE "scan")
          /\ UNCHANGED <<command, listed, intact>>
     ELSE /\ Stop(p)  \* "Directory not empty"
          /\ UNCHANGED dir
  /\ UNCHANGED <<runtime, json, otp>>
-----------------------------------------------------------------------------
(* install                                                                 *)

Install(p, t, r) ==
  /\ Start(p, t, r, "check")
  /\ UNCHANGED <<disk, listed, intact>>

\* Mutation: a directory without target.json passes for an installed runtime.
StaleUnfinished(p) == json[goal[p]] \in Revision /\ json[goal[p]] # rev[p]

\* Mutation: any target.json will do.
StaleUnversioned(p) == json[goal[p]] \notin Revision /\ goal[p] \in dir

\* is_stale: another revision, or a directory without a readable target.json
Stale(p) == IF json[goal[p]] \in Revision THEN json[goal[p]] # rev[p]
                                         ELSE goal[p] \in dir

Check(p) ==
  /\ at[p] = "check"
  /\ IF Stale(p)
     THEN listed' = [listed EXCEPT ![p] = Files(goal[p])] /\ Go(p, "stale")
     ELSE UNCHANGED listed /\ Go(p, "runtime")
  /\ UNCHANGED <<disk, command, intact>>

\* download: a directory that exists is not fetched.
Runtime(p) ==
  /\ at[p] = "runtime"
  /\ Go(p, IF goal[p] \in dir THEN "json" ELSE "fetchRuntime")
  /\ UNCHANGED <<disk, command, listed, intact>>

UnpackRuntime(p) ==
  /\ at[p] = "fetchRuntime"
  /\ dir' = dir \cup {goal[p]}
  /\ runtime' = [runtime EXCEPT ![goal[p]] = "part"]
  /\ intact' = (intact \ SameRuntime(p)) \cup {p}
  /\ Go(p, "unpackRuntime")
  /\ UNCHANGED <<json, otp, command, listed>>

RuntimeUnpacked(p) ==
  /\ at[p] = "unpackRuntime"
  /\ runtime' = IF p \in intact THEN [runtime EXCEPT ![goal[p]] = rev[p]]
                                ELSE runtime
  /\ intact' = intact \ {p}
  /\ Go(p, "json")
  /\ UNCHANGED <<dir, json, otp, command, listed>>

\* io.write creates the parent directory and truncates the file first.
OpenJson(p) ==
  /\ at[p] = "json"
  /\ dir' = dir \cup {goal[p]}
  /\ json' = [json EXCEPT ![goal[p]] = "part"]
  /\ Go(p, "writeJson")
  /\ UNCHANGED <<runtime, otp, command, listed, intact>>

WriteJson(p) ==
  /\ at[p] = "writeJson"
  /\ json' = IF json[goal[p]] = "part" THEN [json EXCEPT ![goal[p]] = rev[p]]
                                       ELSE json
  /\ Go(p, "otp")
  /\ UNCHANGED <<dir, runtime, otp, command, listed, intact>>

Otp(p) ==
  /\ at[p] = "otp"
  /\ Go(p, IF otp[OtpOf[goal[p]]] = "none" THEN "fetchOtp" ELSE "using")
  /\ UNCHANGED <<disk, command, listed, intact>>

UnpackOtp(p) ==
  /\ at[p] = "fetchOtp"
  /\ otp' = [otp EXCEPT ![OtpOf[goal[p]]] = "part"]
  /\ intact' = (intact \ SameOtp(p)) \cup {p}
  /\ Go(p, "unpackOtp")
  /\ UNCHANGED <<dir, runtime, json, command, listed>>

OtpUnpacked(p) ==
  /\ at[p] = "unpackOtp"
  /\ otp' = IF p \in intact THEN [otp EXCEPT ![OtpOf[goal[p]]] = "full"]
                            ELSE otp
  /\ intact' = intact \ {p}
  /\ Go(p, "using")
  /\ UNCHANGED <<dir, runtime, json, command, listed>>

\* The build that asked for the target ends.
Used(p) == at[p] = "using" /\ Stop(p) /\ UNCHANGED disk
-----------------------------------------------------------------------------
(* uninstall                                                               *)

Uninstall(p, t) ==
  /\ Start(p, t, None, "remove")
  /\ listed' = [listed EXCEPT ![p] = Files(t)]
  /\ UNCHANGED <<disk, intact>>

Needed(v) == \E t \in Target : json[t] \in Revision /\ OtpOf[t] = v

\* Mutation: the other targets are not looked at.
ScanNothing(p) ==
  /\ at[p] = "scan"
  /\ Go(p, "gc")
  /\ UNCHANGED <<disk, command, listed, intact>>

\* A target.json that cannot be parsed ends the command.  (The code reads
\* one file after another; here they are read at once.)
Scan(p) ==
  /\ at[p] = "scan"
  /\ IF Needed(OtpOf[goal[p]]) \/ \E t \in Target : json[t] = "part"
     THEN Stop(p)
     ELSE Go(p, "gc") /\ UNCHANGED <<command, listed, intact>>
  /\ UNCHANGED disk

Collect(p) ==
  /\ at[p] = "gc"
  /\ otp' = [otp EXCEPT ![OtpOf[goal[p]]] = IF @ = "none" THEN @ ELSE "part"]
  /\ intact' = intact \ SameOtp(p)
  /\ Go(p, "collect")
  /\ UNCHANGED <<dir, runtime, json, command, listed>>

Collected(p) ==
  /\ at[p] = "collect"
  /\ otp' = IF SameOtp(p) = {} THEN [otp EXCEPT ![OtpOf[goal[p]]] = "none"]
                               ELSE otp
  /\ Stop(p)
  /\ UNCHANGED <<dir, runtime, json>>
-----------------------------------------------------------------------------
\* Killed, or a download, a hash, a write or a delete fails.
Abort(p) == at[p] \in AbortIn /\ Stop(p) /\ UNCHANGED disk

InstallRuntime(p) == Check(p) \/ Runtime(p) \/ UnpackRuntime(p)
                     \/ RuntimeUnpacked(p) \/ OpenJson(p) \/ WriteJson(p)
InstallOtp(p) == Otp(p) \/ UnpackOtp(p) \/ OtpUnpacked(p)
Delete(p) == DeleteDir(p) \/ \E f \in {"runtime", "json"} : DeleteFile(p, f)
Gc(p) == Scan(p) \/ Collect(p) \/ Collected(p)

Next == \E p \in Process :
  \/ \E t \in Target : Uninstall(p, t) \/ \E r \in Revision : Install(p, t, r)
  \/ InstallRuntime(p) \/ InstallOtp(p) \/ Used(p) \/ Delete(p) \/ Gc(p)
  \/ Abort(p)

Spec == Init /\ [][Next]_vars
-----------------------------------------------------------------------------
(* Properties.                                                             *)

TypeOK ==
  /\ dir \subseteq Target
  /\ runtime \in [Target -> Revision \cup {"none", "part"}]
  /\ json \in [Target -> Revision \cup {"none", "part"}]
  /\ \A t \in Target : Files(t) # {} => t \in dir
  /\ otp \in [Version -> {"none", "part", "full"}]
  /\ at \in [Process -> Phase]
  /\ goal \in [Process -> Target \cup {None}]
  /\ rev \in [Process -> Revision \cup {None}]
  /\ listed \in [Process -> SUBSET {"runtime", "json"}]
  /\ intact \subseteq Process

\* installed(), between commands; one unreadable target.json fails it.
Installed == IF \E t \in Target : json[t] = "part" THEN {}
             ELSE {t \in Target : /\ json[t] \in Revision
                                  /\ runtime[t] # "none"
                                  /\ otp[OtpOf[t]] # "none"}

\* "List all targets that are currently installed in the local cache and
\* ready to build for": what is listed is complete, runtime and OTP, and of
\* the revision target.json names, whatever earlier commands left.
ListedIsReady ==
  (\A p \in Process : at[p] = "idle") =>
    \A t \in Installed : runtime[t] = json[t] /\ otp[OtpOf[t]] = "full"

\* What install returns with, whatever earlier commands left behind where
\* they were cut off: a complete OTP, a target.json of the revision asked
\* for, and never the runtime of another revision or a torn one.  The runtime
\* may be missing: a removal cut off after the runtime and before target.json
\* leaves a directory that is_stale takes for current.
InstalledIsReady ==
  \A p \in Process : at[p] = "using" =>
    /\ json[goal[p]] = rev[p] /\ runtime[goal[p]] \in {rev[p], "none"}
    /\ otp[OtpOf[goal[p]]] = "full"

\* "GC: only remove OTP if no other installed targets still use this
\* version": no complete OTP is touched while an installed target needs it.
NeededIsKept ==
  [][\A v \in Version : otp[v] = "full" /\ otp'[v] # "full" => ~Needed(v)]_vars
=============================================================================
