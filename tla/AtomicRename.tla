---------------------------- MODULE AtomicRename ----------------------------
(***************************************************************************)
(* What rename promises on Unix: the destination goes from one file to the *)
(* other in one step, or nothing happens and the error says why.           *)
(***************************************************************************)
CONSTANTS Thread, Path, Absent, EmptyDir, FullDir

VARIABLES fs,   \* fs[p]: Absent, EmptyDir, FullDir or the contents of a file
          call  \* call[t]: the call thread t is in, with its result when it has one

vars == <<fs, call>>

Dirs == {EmptyDir, FullDir}
IsFile(x) == x \notin Dirs \cup {Absent}
Refusals == {"EACCES", "EINVAL", "EXDEV"}
Idle == [old |-> Absent, new |-> Absent, res |-> "idle"]

Init == fs \in [Path -> {Absent} \cup Dirs \cup Path] /\ call = [t \in Thread |-> Idle]

Call(t, old, new) ==
  /\ call[t].res \notin {"pending"} /\ old # new
  /\ call' = [call EXCEPT ![t] = [old |-> old, new |-> new, res |-> "pending"]]
  /\ UNCHANGED fs

Replaces(o, n) ==
  \/ o # Absent /\ n = Absent
  \/ IsFile(o) /\ IsFile(n)
  \/ o \in Dirs /\ n = EmptyDir

Truth(o, n) ==
  Refusals \cup CASE o = Absent -> {"ENOENT"}
                  [] IsFile(o) /\ n \in Dirs -> {"EISDIR"}
                  [] o \in Dirs /\ IsFile(n) -> {"ENOTDIR"}
                  [] o \in Dirs /\ n = FullDir -> {"EEXIST"}
                  [] OTHER -> {}

Rename(t) ==
  LET old == call[t].old
      new == call[t].new
  IN /\ call[t].res = "pending"
     /\ \/ /\ Replaces(fs[old], fs[new])
           /\ fs' = [fs EXCEPT ![new] = fs[old], ![old] = Absent]
           /\ call' = [call EXCEPT ![t] = [Idle EXCEPT !.res = "ok"]]
        \/ /\ UNCHANGED fs
           /\ \E e \in Truth(fs[old], fs[new]) :
                call' = [call EXCEPT ![t] = [Idle EXCEPT !.res = e]]

Next == \E t \in Thread : Rename(t) \/ \E old, new \in Path : Call(t, old, new)

Spec == Init /\ [][Next]_vars
=============================================================================
