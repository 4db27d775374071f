----------------------------- MODULE WinRename ------------------------------
(***************************************************************************)
(* efile_rename of win_prim_file.c: rename with Unix semantics out of      *)
(* several Windows calls, on dirty I/O threads that run side by side.  A   *)
(* file that is in the way moves to a swap name in its folder first.       *)
(***************************************************************************)
EXTENDS Naturals

CONSTANTS
  Thread,
  Folder, Name,              \* a path is a name in a folder
  MaxCounter,                \* how far unique_counter gets: bounds the run
  Denies,                    \* the calls that other programs may make fail
  Counted,                   \* is unique_counter read and incremented as if in one step?
  Absent, EmptyDir, FullDir, Leftover

Calls == {"move", "retry", "remove", "swap", "replace", "restore"}
Path == Folder \X Name
Swap == Folder \X (0 .. MaxCounter)
Dirs == {EmptyDir, FullDir}

ASSUME WinRenameAssumption ==
  /\ MaxCounter \in Nat /\ Denies \subseteq Calls /\ Counted \in BOOLEAN
  /\ Name \cap (0 .. MaxCounter) = {}
  /\ {Absent, EmptyDir, FullDir, Leftover} \cap Path = {}
  /\ Absent \notin Dirs /\ EmptyDir # FullDir

VARIABLES
  fs,       \* what is at every path and swap name
  counter,  \* unique_counter
  call,     \* call[t]: its old and new path and its result
  pc,       \* pc[t]: the Windows call it makes next
  swap      \* swap[t]: its swap name

vars == <<fs, counter, call, pc, swap>>

IsFile(x) == x \notin Dirs \cup {Absent}
Idle == [old |-> Absent, new |-> Absent, res |-> "idle"]

\* A file is known by the path it was at first; a process before this one may
\* have left a file at a swap name.
Init ==
  /\ \E at \in [Path -> BOOLEAN], left \in BOOLEAN, dirs \in SUBSET Path, full \in SUBSET Path :
       fs = [x \in Path \cup Swap |->
               IF x \in Swap THEN IF left THEN Leftover ELSE Absent
               ELSE IF ~at[x] THEN Absent
               ELSE IF x \notin dirs THEN x
               ELSE IF x \in full THEN FullDir ELSE EmptyDir]
  /\ counter = 0
  /\ call = [t \in Thread |-> Idle]
  /\ pc = [t \in Thread |-> "idle"]
  /\ swap = [t \in Thread |-> Absent]

Running == {t \in Thread : call[t].res = "pending"}

\* Two calls never have a path in common here; folders they may share.
Call(t, old, new) ==
  /\ pc[t] = "idle" /\ old # new
  /\ \A u \in Running : {old, new} \cap {call[u].old, call[u].new} = {}
  /\ call' = [call EXCEPT ![t] = [old |-> old, new |-> new, res |-> "pending"]]
  /\ pc' = [pc EXCEPT ![t] = "move"]
  /\ UNCHANGED <<fs, counter, swap>>

Goto(t, next) == pc' = [pc EXCEPT ![t] = next] /\ UNCHANGED call
Return(t, res) ==
  pc' = [pc EXCEPT ![t] = "idle"] /\ call' = [call EXCEPT ![t] = [Idle EXCEPT !.res = res]]

\* MoveFileExW, without or with MOVEFILE_REPLACE_EXISTING.
Movable(x, y, replace) ==
  fs[x] # Absent /\ (fs[y] = Absent \/ (replace /\ IsFile(fs[x]) /\ IsFile(fs[y])))
Moved(x, y) == fs' = [fs EXCEPT ![y] = fs[x], ![x] = Absent]
Deleted(x) == fs' = [fs EXCEPT ![x] = IF IsFile(@) THEN Absent ELSE @]
Denied(t) == pc[t] \in Denies /\ UNCHANGED fs

\* Refused: into itself, a root, across volumes, or somebody else's file.
Move(t) ==
  LET old == call[t].old
      new == call[t].new
  IN /\ pc[t] \in {"move", "retry"}
     /\ \/ Movable(old, new, FALSE) /\ Moved(old, new) /\ Return(t, "ok")
        \/ fs[old] = Absent /\ UNCHANGED fs /\ Return(t, "ENOENT")
        \/ fs[old] # Absent /\ fs[new] # Absent /\ UNCHANGED fs /\ Goto(t, "classify")
        \/ /\ Denied(t)
           /\ \E e \in IF fs[old] \in Dirs THEN {"EINVAL", "EXDEV", "EACCES"}
                       ELSE {"EACCES"} : Return(t, e)
     /\ UNCHANGED <<counter, swap>>

\* ERROR_ALREADY_EXISTS, by what is at the two paths.
Classify(t) ==
  LET old == fs[call[t].old]
      new == fs[call[t].new]
  IN /\ pc[t] = "classify"
     /\ \/ old \in Dirs /\ new \notin Dirs /\ Return(t, "ENOTDIR")
        \/ old \notin Dirs /\ new \in Dirs /\ Return(t, "EISDIR")
        \/ old \in Dirs /\ new \in Dirs /\ Goto(t, "remove")
        \/ old \notin Dirs /\ new \notin Dirs /\ Goto(t, "name")
     /\ UNCHANGED <<fs, counter, swap>>

\* RemoveDirectoryW, and from the start again.
Remove(t) ==
  LET new == call[t].new
  IN /\ pc[t] = "remove"
     /\ \/ fs[new] = EmptyDir /\ fs' = [fs EXCEPT ![new] = Absent] /\ Goto(t, "retry")
        \/ fs[new] # EmptyDir /\ UNCHANGED fs /\ Return(t, "EEXIST")
        \/ Denied(t) /\ Return(t, "EEXIST")
     /\ UNCHANGED <<counter, swap>>

\* The name is made of a counter that is incremented after it was read.
MakeName(t) ==
  /\ pc[t] = "name" /\ counter < MaxCounter
  /\ Counted => \A u \in Thread : pc[u] # "count"
  /\ swap' = [swap EXCEPT ![t] = <<call[t].new[1], counter>>]
  /\ Goto(t, "count") /\ UNCHANGED <<fs, counter>>

\* Mutation: the counter is not incremented.
CountNothing(t) ==
  /\ pc[t] = "count" /\ Goto(t, "swap") /\ UNCHANGED <<fs, counter, swap>>

Count(t) ==
  /\ pc[t] = "count" /\ counter' = counter + 1
  /\ Goto(t, "swap") /\ UNCHANGED <<fs, swap>>

SwapOut(t) ==
  /\ pc[t] = "swap"
  /\ \/ /\ Movable(call[t].new, swap[t], TRUE)
        /\ Moved(call[t].new, swap[t]) /\ Goto(t, "replace")
     \/ ~Movable(call[t].new, swap[t], TRUE) /\ UNCHANGED fs /\ Goto(t, "giveup")
     \/ Denied(t) /\ Goto(t, "giveup")
  /\ UNCHANGED <<counter, swap>>

\* Mutation: when the move is refused the swap name is deleted, not moved back.
ReplaceGivesUp(t) ==
  LET old == call[t].old
      new == call[t].new
  IN /\ pc[t] = "replace"
     /\ \/ /\ Movable(old, new, FALSE) /\ Moved(old, new)
           /\ pc' = [pc EXCEPT ![t] = "tidy"]
           /\ call' = [call EXCEPT ![t] = [Idle EXCEPT !.res = "ok"]]
        \/ ~Movable(old, new, FALSE) /\ UNCHANGED fs /\ Goto(t, "giveup")
        \/ Denied(t) /\ Goto(t, "giveup")
     /\ UNCHANGED <<counter, swap>>

Replace(t) ==
  LET old == call[t].old
      new == call[t].new
  IN /\ pc[t] = "replace"
     /\ \/ /\ Movable(old, new, FALSE) /\ Moved(old, new)
           /\ pc' = [pc EXCEPT ![t] = "tidy"]
           /\ call' = [call EXCEPT ![t] = [Idle EXCEPT !.res = "ok"]]
        \/ ~Movable(old, new, FALSE) /\ UNCHANGED fs /\ Goto(t, "restore")
        \/ Denied(t) /\ Goto(t, "restore")
     /\ UNCHANGED <<counter, swap>>

\* DeleteFileW of the swap name, after success or before anything was moved.
Tidy(t) ==
  /\ pc[t] \in {"tidy", "giveup"}
  /\ Deleted(swap[t])
  /\ Return(t, IF pc[t] = "tidy" THEN "ok" ELSE "EACCES")
  /\ swap' = [swap EXCEPT ![t] = Absent] /\ UNCHANGED counter

\* Mutation: the destination is not put back.
RestoreNothing(t) ==
  /\ pc[t] = "restore" /\ UNCHANGED fs
  /\ Return(t, "EACCES")
  /\ swap' = [swap EXCEPT ![t] = Absent] /\ UNCHANGED counter

\* What MoveFileW says is not looked at.
Restore(t) ==
  /\ pc[t] = "restore"
  /\ \/ Movable(swap[t], call[t].new, FALSE) /\ Moved(swap[t], call[t].new)
     \/ ~Movable(swap[t], call[t].new, FALSE) /\ UNCHANGED fs
     \/ Denied(t)
  /\ Return(t, "EACCES")
  /\ swap' = [swap EXCEPT ![t] = Absent] /\ UNCHANGED counter

Next ==
  \E t \in Thread :
    \/ \E old, new \in Path : Call(t, old, new)
    \/ Move(t) \/ Classify(t) \/ Remove(t) \/ MakeName(t) \/ Count(t) \/ SwapOut(t)
    \/ Replace(t) \/ Tidy(t) \/ Restore(t)

Spec == Init /\ [][Next]_vars

-----------------------------------------------------------------------------
(* Properties.                                                             *)

TypeOK ==
  /\ fs \in [Path \cup Swap -> Path \cup Dirs \cup {Absent, Leftover}]
  /\ counter \in Nat
  /\ pc \in [Thread -> Calls \cup {"idle", "classify", "name", "count", "giveup", "tidy"}]
  /\ swap \in [Thread -> Swap \cup {Absent}]

\* A swap name belongs to one call, also of calls that replace files of one
\* folder side by side: what it holds is that call's to delete or to put back,
\* and nobody's when no call is under way.
SwapsApart ==
  /\ \A t, u \in Thread : t # u /\ {pc[t], pc[u]} \subseteq {"swap", "replace", "tidy", "restore"}
       => swap[t] # swap[u]
  /\ (\A t \in Thread : pc[t] = "idle") => \A x \in Swap : fs[x] \in {Absent, Leftover}

\* The contents of a file vanish in one way: a rename that has replaced it
\* deletes it.  Until then, and if the program is killed, it is somewhere.
Present(p) == \E x \in DOMAIN fs : fs[x] = p
Kept ==
  [][\A p \in Path : Present(p) /\ ~Present(p)' =>
       \E t \in Thread : pc[t] = "tidy" /\ fs[swap[t]] = p]_vars

\* Behind the window in which the destination has no file, every rename is the
\* atomic one of Unix: it replaces or it leaves both paths as they were, and
\* its error is the truth.
Unmoved(p) ==
  LET t == CHOOSE u \in Running : call[u].new = p
  IN CASE \E u \in Running : call[u].new = p /\ pc[u] \in {"replace", "restore"} -> fs[swap[t]]
       [] \E u \in Running : call[u].new = p /\ pc[u] = "retry" -> EmptyDir
       [] OTHER -> fs[p]
Unix == INSTANCE AtomicRename WITH fs <- [p \in Path |-> Unmoved(p)]
Implements == Unix!Spec
=============================================================================
