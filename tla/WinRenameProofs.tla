-------------------------- MODULE WinRenameProofs ---------------------------
(***************************************************************************)
(* Proofs about WinRename for any number of threads, folders and names:    *)
(* when no two calls read the counter before one of them increments it and *)
(* a file can be moved back, swap names are not shared, no contents vanish *)
(* but by being replaced, and each call is the atomic rename of Unix, also *)
(* of calls that run side by side in one folder.                           *)
(***************************************************************************)
EXTENDS WinRename, TLAPS

\* The Windows calls of a rename that has not returned; those made with a
\* swap name; those with the destination's file at it.
Pending == {"move", "retry", "classify", "remove", "name", "count", "swap",
            "replace", "restore", "giveup"}
Holding == {"replace", "restore", "tidy"}
Owning == Holding \cup {"count", "swap", "giveup"}

Result == {"idle", "pending", "ok", "ENOENT", "ENOTDIR", "EISDIR", "EEXIST", "EINVAL",
           "EXDEV", "EACCES"}
Value == Path \cup Dirs \cup {Absent, Leftover}
Types ==
  /\ fs \in [Path \cup Swap -> Value]
  /\ counter \in Nat
  /\ call \in [Thread -> [old : Path \cup {Absent}, new : Path \cup {Absent}, res : Result]]
  /\ pc \in [Thread -> Pending \cup {"idle", "tidy"}]
  /\ swap \in [Thread -> Swap \cup {Absent}]

\* What a thread at p, with call c and swap name s, knows of the files f and
\* the counter k.
Fits(p, c, s, f, k) ==
  /\ p \in Pending <=> c.res = "pending"
  /\ p \in Pending => c.old \in Path /\ c.new \in Path /\ c.old # c.new
  /\ p \in Owning => s \in Swap /\ s[2] <= k /\ (p # "count" => s[2] < k)
  /\ p = "classify" => f[c.old] # Absent /\ f[c.new] # Absent
  /\ p \in {"name", "count", "swap"} => IsFile(f[c.new])
  /\ p \in {"replace", "restore"} => f[c.new] = Absent
  /\ p \in Holding => IsFile(f[s])

AllFit == \A t \in Thread : Fits(pc[t], call[t], swap[t], fs, counter)

\* Renames under way have paths of their own.
PathsApart ==
  \A t, u \in Thread : t # u /\ pc[t] \in Pending /\ pc[u] \in Pending =>
    {call[t].old, call[t].new} \cap {call[u].old, call[u].new} = {}

NamesApart ==
  \A t, u \in Thread : t # u /\ pc[t] \in Owning /\ pc[u] \in Owning => swap[t] # swap[u]

\* A file at a swap name is the one a thread has moved there.
SwapsFree ==
  \A x \in Swap : fs[x] \notin {Absent, Leftover} =>
    \E t \in Thread : pc[t] \in Holding /\ swap[t] = x

IInv == Types /\ AllFit /\ PathsApart /\ NamesApart /\ SwapsFree

-----------------------------------------------------------------------------
(* What a step of one thread leaves of the others.                         *)

\* A swap name is not a path.
LEMMA PathsAndSwaps == Path \cap Swap = {}
BY WinRenameAssumption DEF Path, Swap

\* A step that changes files of its own call only, and keeps or makes its
\* call and swap name as they are made, preserves the invariant.
LEMMA OneThread ==
  ASSUME IInv, NEW t \in Thread, Types',
         Fits(pc'[t], call'[t], swap'[t], fs', counter'),
         \A u \in Thread \ {t} : pc'[u] = pc[u] /\ call'[u] = call[u] /\ swap'[u] = swap[u],
         counter' >= counter,
         \A x \in Path \cup Swap :
           \/ fs'[x] = fs[x]
           \/ pc[t] \in Pending /\ x \in {call[t].old, call[t].new}
           \/ pc[t] \in Owning /\ x = swap[t],
         \/ pc'[t] \notin Pending
         \/ pc[t] \in Pending /\ call'[t] = call[t]
         \/ \A u \in Thread : pc[u] \in Pending =>
              {call'[t].old, call'[t].new} \cap {call[u].old, call[u].new} = {},
         \/ pc'[t] \notin Owning
         \/ pc[t] \in Owning /\ swap'[t] = swap[t]
         \/ /\ swap'[t] = <<call[t].new[1], counter>>
            /\ \A u \in Thread \ {t} : pc[u] # "count",
         pc[t] \in Owning =>
           fs'[swap[t]] \in {Absent, Leftover} \/ (pc'[t] \in Holding /\ swap'[t] = swap[t])
  PROVE  IInv'
<1>1. /\ Types /\ PathsApart /\ NamesApart /\ SwapsFree
      /\ \A u \in Thread : Fits(pc[u], call[u], swap[u], fs, counter)
  BY DEF IInv, AllFit
<1>2. ASSUME NEW u \in Thread \ {t}
      PROVE  Fits(pc'[u], call'[u], swap'[u], fs', counter')
  <2>1. pc'[u] = pc[u] /\ call'[u] = call[u] /\ swap'[u] = swap[u]
    OBVIOUS
  <2>2. counter \in Nat /\ counter' \in Nat
    BY <1>1 DEF Types
  <2>3. Fits(pc[u], call[u], swap[u], fs, counter) /\ Fits(pc[t], call[t], swap[t], fs, counter)
    BY <1>1
  <2>4. ASSUME pc[u] \in Pending
        PROVE  fs'[call[u].old] = fs[call[u].old] /\ fs'[call[u].new] = fs[call[u].new]
    <3>1. call[u].old \in Path /\ call[u].new \in Path
      BY <2>3, <2>4 DEF Fits
    <3>2. pc[t] \in Owning => swap[t] \in Swap
      BY <2>3 DEF Fits
    <3>3. pc[t] \in Pending =>
            {call[t].old, call[t].new} \cap {call[u].old, call[u].new} = {}
      BY <1>1, <2>4 DEF PathsApart
    <3> QED BY <3>1, <3>2, <3>3, PathsAndSwaps
  <2>5. ASSUME pc[u] \in Owning
        PROVE  fs'[swap[u]] = fs[swap[u]] /\ swap[u] \in Swap
    <3>1. swap[u] \in Swap
      BY <2>3, <2>5 DEF Fits
    <3>2. pc[t] \in Pending => call[t].old \in Path /\ call[t].new \in Path
      BY <2>3 DEF Fits
    <3>3. pc[t] \in Owning => swap[t] # swap[u]
      BY <1>1, <2>5 DEF NamesApart
    <3> QED BY <3>1, <3>2, <3>3, PathsAndSwaps
  <2>6. pc[u] \in Owning => swap[u][2] \in Nat
    BY <2>5, WinRenameAssumption DEF Swap
  <2> QED BY <2>1, <2>2, <2>3, <2>4, <2>5, <2>6 DEF Fits, Pending, Holding, Owning
<1>3. AllFit'
  BY <1>2 DEF AllFit
<1>4. PathsApart'
  BY <1>1 DEF PathsApart
<1>5. NamesApart'
  <2>1. ASSUME NEW u \in Thread \ {t}, pc[u] \in Owning, pc'[t] \in Owning
        PROVE  swap'[t] # swap[u]
    <3>1. Fits(pc[u], call[u], swap[u], fs, counter) /\ Fits(pc[t], call[t], swap[t], fs, counter)
      BY <1>1
    <3>2. CASE pc[t] \in Owning /\ swap'[t] = swap[t]
      BY <1>1, <2>1, <3>2 DEF NamesApart
    <3>3. CASE swap'[t] = <<call[t].new[1], counter>> /\ pc[u] # "count"
      <4>1. swap[u][2] < counter /\ swap[u] \in Swap
        BY <2>1, <3>1, <3>3 DEF Fits
      <4>2. swap[u][2] \in Nat /\ counter \in Nat
        BY <1>1, <4>1, WinRenameAssumption DEF Swap, Types
      <4> QED BY <3>3, <4>1, <4>2
    <3> QED BY <2>1, <3>2, <3>3
  <2> QED BY <1>1, <2>1 DEF NamesApart
<1>6. SwapsFree'
  <2>1. ASSUME NEW x \in Swap, fs'[x] \notin {Absent, Leftover}
        PROVE  \E u \in Thread : pc'[u] \in Holding /\ swap'[u] = x
    <3>1. CASE pc[t] \in Owning /\ x = swap[t]
      BY <2>1, <3>1
    <3>2. CASE ~(pc[t] \in Owning /\ x = swap[t])
      <4>1. pc[t] \in Pending => call[t].old \in Path /\ call[t].new \in Path
        BY <1>1 DEF Fits
      <4>2. fs'[x] = fs[x]
        BY <2>1, <3>2, <4>1, PathsAndSwaps
      <4>3. PICK u \in Thread : pc[u] \in Holding /\ swap[u] = x
        BY <1>1, <2>1, <4>2 DEF SwapsFree
      <4>4. u # t
        BY <3>2, <4>3 DEF Owning
      <4> QED BY <4>3, <4>4
    <3> QED BY <3>1, <3>2
  <2> QED BY <2>1 DEF SwapsFree
<1> QED BY <1>3, <1>4, <1>5, <1>6 DEF IInv


\* MoveFileExW changes two places.
LEMMA MovedFiles ==
  ASSUME Types, NEW x \in Path \cup Swap, NEW y \in Path \cup Swap, x # y, Moved(x, y)
  PROVE  /\ fs' \in [Path \cup Swap -> Value]
         /\ fs'[y] = fs[x] /\ fs'[x] = Absent
         /\ \A z \in (Path \cup Swap) \ {x, y} : fs'[z] = fs[z]
BY DEF Moved, Types, Value

\* A thread that goes on.
LEMMA GotoThread ==
  ASSUME Types, NEW t \in Thread, NEW next \in Pending, Goto(t, next)
  PROVE  /\ pc' \in [Thread -> Pending \cup {"idle", "tidy"}] /\ pc'[t] = next
         /\ \A u \in Thread \ {t} : pc'[u] = pc[u]
         /\ call' = call
BY DEF Goto, Types

\* A thread that returns.
LEMMA ReturnThread ==
  ASSUME Types, NEW t \in Thread, NEW res \in Result \ {"pending"}, Return(t, res)
  PROVE  /\ pc' \in [Thread -> Pending \cup {"idle", "tidy"}] /\ pc'[t] = "idle"
         /\ call' \in [Thread -> [old : Path \cup {Absent}, new : Path \cup {Absent}, res : Result]]
         /\ call'[t].res # "pending"
         /\ \A u \in Thread \ {t} : pc'[u] = pc[u] /\ call'[u] = call[u]
<1>1. /\ pc' = [pc EXCEPT ![t] = "idle"]
      /\ call' = [call EXCEPT ![t] = [old |-> Absent, new |-> Absent, res |-> res]]
  <2>1. [Idle EXCEPT !.res = res] = [old |-> Absent, new |-> Absent, res |-> res]
    BY DEF Idle
  <2> QED BY <2>1 DEF Return
<1>2. [old |-> Absent, new |-> Absent, res |-> res]
        \in [old : Path \cup {Absent}, new : Path \cup {Absent}, res : Result]
  OBVIOUS
<1> QED BY <1>1, <1>2 DEF Types

-----------------------------------------------------------------------------
(* The actions.                                                            *)

\* No thread is under way and the swap names hold nothing of ours.
LEMMA InitIInv == Init => IInv
<1> SUFFICES ASSUME Init PROVE IInv
  OBVIOUS
<1>1. /\ counter = 0 /\ call = [t \in Thread |-> Idle] /\ pc = [t \in Thread |-> "idle"]
      /\ swap = [t \in Thread |-> Absent]
  BY DEF Init
<1>2. PICK at \in [Path -> BOOLEAN], left \in BOOLEAN, dirs \in SUBSET Path, full \in SUBSET Path :
        fs = [x \in Path \cup Swap |->
               IF x \in Swap THEN IF left THEN Leftover ELSE Absent
               ELSE IF ~at[x] THEN Absent
               ELSE IF x \notin dirs THEN x
               ELSE IF x \in full THEN FullDir ELSE EmptyDir]
  BY DEF Init
<1>3. \A x \in Swap : fs[x] \in {Absent, Leftover}
  BY <1>2
<1>8. \A x \in Path : fs[x] \in {x, Absent, FullDir, EmptyDir}
  BY <1>2, PathsAndSwaps
<1>9. fs \in [Path \cup Swap -> Value]
  BY <1>2, <1>3, <1>8 DEF Value, Dirs
<1>4. Types
  BY <1>1, <1>9 DEF Types, Idle, Result
<1>5. AllFit
  BY <1>1 DEF AllFit, Fits, Idle, Pending, Owning, Holding
<1>6. PathsApart /\ NamesApart
  BY <1>1 DEF PathsApart, NamesApart, Pending, Owning, Holding
<1>7. SwapsFree
  BY <1>3 DEF SwapsFree
<1> QED BY <1>4, <1>5, <1>6, <1>7 DEF IInv

\* Two calls under way have no path in common.
LEMMA CallStep ==
  ASSUME IInv, NEW t \in Thread, NEW old \in Path, NEW new \in Path, Call(t, old, new)
  PROVE  IInv'
<1>1. /\ Types /\ pc[t] = "idle" /\ old # new /\ UNCHANGED <<fs, counter, swap>>
      /\ pc' = [pc EXCEPT ![t] = "move"]
      /\ call' = [call EXCEPT ![t] = [old |-> old, new |-> new, res |-> "pending"]]
  BY DEF Call, IInv
<1>2. pc'[t] = "move" /\ call'[t] = [old |-> old, new |-> new, res |-> "pending"]
  BY <1>1 DEF Types
<1>3. Types'
  BY <1>1 DEF Types, Pending, Result
<1>4. Fits(pc'[t], call'[t], swap'[t], fs', counter')
  BY <1>1, <1>2 DEF Fits, Pending, Owning, Holding
<1>5. \A u \in Thread \ {t} : pc'[u] = pc[u] /\ call'[u] = call[u] /\ swap'[u] = swap[u]
  BY <1>1 DEF Types
<1>6. counter' >= counter
  BY <1>1 DEF Types
<1>7. ASSUME NEW u \in Thread, pc[u] \in Pending
      PROVE  {call'[t].old, call'[t].new} \cap {call[u].old, call[u].new} = {}
  <2>1. u \in Running
    BY <1>7 DEF IInv, AllFit, Fits, Running
  <2> QED BY <1>2, <2>1 DEF Call
<1>8. pc'[t] \notin Owning /\ pc[t] \notin Owning
  BY <1>1, <1>2 DEF Owning, Holding
<1> QED BY <1>1, <1>3, <1>4, <1>5, <1>6, <1>7, <1>8, OneThread

\* A rename that changes no file and goes on or returns, without a swap name.
LEMMA PlainStep ==
  ASSUME IInv, NEW t \in Thread, pc[t] \in Pending, pc[t] \notin Owning, Types',
         UNCHANGED <<counter, swap>>, pc'[t] \notin Owning,
         \A u \in Thread \ {t} : pc'[u] = pc[u] /\ call'[u] = call[u],
         pc'[t] \notin Pending \/ call'[t] = call[t],
         Fits(pc'[t], call'[t], swap'[t], fs', counter'),
         \A x \in (Path \cup Swap) \ {call[t].old, call[t].new} : fs'[x] = fs[x]
  PROVE  IInv'
<1>1. counter' >= counter
  BY DEF IInv, Types
<1> QED BY <1>1, OneThread

\* It returns.
LEMMA ReturnStep ==
  ASSUME IInv, NEW t \in Thread, pc[t] \in Pending, pc[t] \notin Owning,
         UNCHANGED <<counter, swap>>, NEW res \in Result \ {"pending"}, Return(t, res),
         fs' \in [Path \cup Swap -> Value],
         \A x \in (Path \cup Swap) \ {call[t].old, call[t].new} : fs'[x] = fs[x]
  PROVE  IInv'
<1>1. Types
  BY DEF IInv
<1>2. /\ pc' \in [Thread -> Pending \cup {"idle", "tidy"}] /\ pc'[t] = "idle"
      /\ call' \in [Thread -> [old : Path \cup {Absent}, new : Path \cup {Absent}, res : Result]]
      /\ call'[t].res # "pending"
      /\ \A u \in Thread \ {t} : pc'[u] = pc[u] /\ call'[u] = call[u]
  BY <1>1, ReturnThread
<1>3. Types'
  BY <1>1, <1>2 DEF Types
<1>4. pc'[t] \notin Pending /\ pc'[t] \notin Owning
  BY <1>2 DEF Pending, Owning, Holding
<1>5. Fits(pc'[t], call'[t], swap'[t], fs', counter')
  BY <1>2, <1>4 DEF Fits, Owning, Holding
<1> QED BY <1>2, <1>3, <1>4, <1>5, PlainStep

\* It goes on to a call without a swap name.
LEMMA GoOnStep ==
  ASSUME IInv, NEW t \in Thread, pc[t] \in Pending, pc[t] \notin Owning,
         UNCHANGED <<counter, swap>>, NEW next \in Pending \ Owning, Goto(t, next),
         fs' \in [Path \cup Swap -> Value],
         \A x \in (Path \cup Swap) \ {call[t].old, call[t].new} : fs'[x] = fs[x],
         next = "classify" => fs'[call[t].old] # Absent /\ fs'[call[t].new] # Absent,
         next = "name" => IsFile(fs'[call[t].new])
  PROVE  IInv'
<1>1. Types /\ Fits(pc[t], call[t], swap[t], fs, counter)
  BY DEF IInv, AllFit
<1>2. /\ pc' \in [Thread -> Pending \cup {"idle", "tidy"}] /\ pc'[t] = next
      /\ \A u \in Thread \ {t} : pc'[u] = pc[u]
      /\ call' = call
  BY <1>1, GotoThread
<1>3. Types'
  BY <1>1, <1>2 DEF Types
<1>4. Fits(pc'[t], call'[t], swap'[t], fs', counter')
  BY <1>1, <1>2 DEF Fits, Owning, Holding
<1> QED BY <1>2, <1>3, <1>4, PlainStep

\* The move itself.
LEMMA MoveStep ==
  ASSUME IInv, NEW t \in Thread, Move(t)
  PROVE  IInv'
<1> DEFINE old == call[t].old
<1> DEFINE new == call[t].new
<1>1. /\ Types /\ pc[t] \in {"move", "retry"} /\ UNCHANGED <<counter, swap>>
      /\ Fits(pc[t], call[t], swap[t], fs, counter)
  BY DEF Move, IInv, AllFit
<1>2. pc[t] \in Pending /\ pc[t] \notin Owning /\ old \in Path /\ new \in Path /\ old # new
  BY <1>1 DEF Fits, Pending, Owning, Holding
<1>3. ASSUME NEW res \in Result \ {"pending"}, Return(t, res),
             fs' \in [Path \cup Swap -> Value],
             \A x \in (Path \cup Swap) \ {old, new} : fs'[x] = fs[x]
      PROVE  IInv'
  BY <1>1, <1>2, <1>3, ReturnStep
<1>4. CASE Movable(old, new, FALSE) /\ Moved(old, new) /\ Return(t, "ok")
  <2>1. /\ fs' \in [Path \cup Swap -> Value]
        /\ \A z \in (Path \cup Swap) \ {old, new} : fs'[z] = fs[z]
    BY <1>1, <1>2, <1>4, MovedFiles
  <2> QED BY <1>3, <1>4, <2>1 DEF Result
<1>5. CASE UNCHANGED fs /\ Return(t, "ENOENT")
  BY <1>1, <1>3, <1>5 DEF Types, Result
<1>6. CASE fs[old] # Absent /\ fs[new] # Absent /\ UNCHANGED fs /\ Goto(t, "classify")
  <2>1. "classify" \in Pending \ Owning
    BY DEF Pending, Owning, Holding
  <2> QED BY <1>1, <1>2, <1>6, <2>1, GoOnStep DEF Types
<1>7. CASE UNCHANGED fs /\ \E e \in {"EINVAL", "EXDEV", "EACCES"} : Return(t, e)
  BY <1>1, <1>3, <1>7 DEF Types, Result
<1> QED BY <1>4, <1>5, <1>6, <1>7 DEF Move, Denied


\* What is in the way decides how it goes on.
LEMMA ClassifyStep ==
  ASSUME IInv, NEW t \in Thread, Classify(t)
  PROVE  IInv'
<1>1. /\ Types /\ pc[t] = "classify" /\ UNCHANGED <<fs, counter, swap>>
      /\ Fits(pc[t], call[t], swap[t], fs, counter)
  BY DEF Classify, IInv, AllFit
<1>2. pc[t] \in Pending /\ pc[t] \notin Owning
  BY <1>1 DEF Pending, Owning, Holding
<1>3. fs' \in [Path \cup Swap -> Value]
  BY <1>1 DEF Types
<1>4. CASE Return(t, "ENOTDIR") \/ Return(t, "EISDIR")
  BY <1>1, <1>2, <1>3, <1>4, ReturnStep DEF Result
<1>5. CASE Goto(t, "remove")
  BY <1>1, <1>2, <1>3, <1>5, GoOnStep DEF Pending, Owning, Holding
<1>6. CASE fs[call[t].new] \notin Dirs /\ Goto(t, "name")
  <2>1. IsFile(fs[call[t].new])
    BY <1>1, <1>6 DEF Fits, IsFile
  <2>2. "name" \in Pending \ Owning
    BY DEF Pending, Owning, Holding
  <2> QED BY <1>1, <1>2, <1>3, <1>6, <2>1, <2>2, GoOnStep
<1> QED BY <1>4, <1>5, <1>6 DEF Classify

\* An empty directory makes way.
LEMMA RemoveStep ==
  ASSUME IInv, NEW t \in Thread, Remove(t)
  PROVE  IInv'
<1> DEFINE new == call[t].new
<1>1. /\ Types /\ pc[t] = "remove" /\ UNCHANGED <<counter, swap>>
      /\ Fits(pc[t], call[t], swap[t], fs, counter)
  BY DEF Remove, IInv, AllFit
<1>2. pc[t] \in Pending /\ pc[t] \notin Owning /\ new \in Path
  BY <1>1 DEF Fits, Pending, Owning, Holding
<1>3. CASE fs' = [fs EXCEPT ![new] = Absent] /\ Goto(t, "retry")
  <2>1. /\ fs' \in [Path \cup Swap -> Value]
        /\ \A x \in (Path \cup Swap) \ {new} : fs'[x] = fs[x]
    BY <1>1, <1>2, <1>3 DEF Types, Value
  <2>2. "retry" \in Pending \ Owning
    BY DEF Pending, Owning, Holding
  <2> QED BY <1>1, <1>2, <1>3, <2>1, <2>2, GoOnStep
<1>4. CASE UNCHANGED fs /\ Return(t, "EEXIST")
  BY <1>1, <1>2, <1>4, ReturnStep DEF Result, Types
<1> QED BY <1>3, <1>4 DEF Remove, Denied

\* A swap name nobody else has: other names in this folder are from before.
LEMMA MakeNameStep ==
  ASSUME Counted = TRUE, IInv, NEW t \in Thread, MakeName(t)
  PROVE  IInv'
<1>1. /\ Types /\ pc[t] = "name" /\ UNCHANGED <<fs, counter>> /\ Goto(t, "count")
      /\ swap' = [swap EXCEPT ![t] = <<call[t].new[1], counter>>]
      /\ Fits(pc[t], call[t], swap[t], fs, counter) /\ counter < MaxCounter
  BY DEF MakeName, IInv, AllFit
<1>2. pc[t] \in Pending /\ pc[t] \notin Owning /\ call[t].new \in Path
  BY <1>1 DEF Fits, Pending, Owning, Holding
<1>3. counter \in 0 .. MaxCounter
  BY <1>1, WinRenameAssumption DEF Types
<1>4. <<call[t].new[1], counter>> \in Swap
  BY <1>2, <1>3 DEF Path, Swap
<1>5. /\ pc' \in [Thread -> Pending \cup {"idle", "tidy"}] /\ pc'[t] = "count"
      /\ \A u \in Thread \ {t} : pc'[u] = pc[u]
      /\ call' = call
  BY <1>1, GotoThread DEF Pending
<1>6. swap' \in [Thread -> Swap \cup {Absent}] /\ swap'[t] = <<call[t].new[1], counter>>
  BY <1>1, <1>4 DEF Types
<1>7. Types'
  BY <1>1, <1>5, <1>6 DEF Types
<1>8. Fits(pc'[t], call'[t], swap'[t], fs', counter')
  BY <1>1, <1>3, <1>4, <1>5, <1>6 DEF Fits, Pending, Owning, Holding
<1>9. \A u \in Thread \ {t} : pc'[u] = pc[u] /\ call'[u] = call[u] /\ swap'[u] = swap[u]
  BY <1>1, <1>5 DEF Types
<1>10. counter' >= counter
  BY <1>1, <1>3
<1>11. \A u \in Thread \ {t} : pc[u] # "count"
  BY DEF MakeName
<1> QED BY <1>1, <1>2, <1>5, <1>6, <1>7, <1>8, <1>9, <1>10, <1>11, OneThread

\* Until the destination is moved there the name holds nothing of ours.
LEMMA NameFree ==
  ASSUME IInv, NEW t \in Thread, pc[t] \in {"count", "swap", "giveup"}
  PROVE  fs[swap[t]] \in {Absent, Leftover}
<1>1. pc[t] \in Owning /\ pc[t] \notin Holding /\ swap[t] \in Swap
  BY DEF IInv, AllFit, Fits, Owning, Holding
<1>2. \A u \in Thread : pc[u] \in Holding => pc[u] \in Owning
  BY DEF Owning
<1> QED BY <1>1, <1>2 DEF IInv, SwapsFree, NamesApart

\* The counter moves on.
LEMMA CountStep ==
  ASSUME IInv, NEW t \in Thread, Count(t)
  PROVE  IInv'
<1>1. /\ Types /\ pc[t] = "count" /\ UNCHANGED <<fs, swap>> /\ Goto(t, "swap")
      /\ counter' = counter + 1 /\ counter \in Nat
      /\ Fits(pc[t], call[t], swap[t], fs, counter)
  BY DEF Count, IInv, AllFit, Types
<1>2. pc[t] \in Pending /\ pc[t] \in Owning /\ swap[t] \in Swap
  BY <1>1 DEF Fits, Pending, Owning, Holding
<1>3. swap[t][2] \in Nat
  BY <1>2, WinRenameAssumption DEF Swap
<1>4. /\ pc' \in [Thread -> Pending \cup {"idle", "tidy"}] /\ pc'[t] = "swap"
      /\ \A u \in Thread \ {t} : pc'[u] = pc[u]
      /\ call' = call
  BY <1>1, GotoThread DEF Pending
<1>5. Types'
  BY <1>1, <1>4 DEF Types
<1>6. Fits(pc'[t], call'[t], swap'[t], fs', counter')
  BY <1>1, <1>2, <1>3, <1>4 DEF Fits, Pending, Owning, Holding
<1>7. fs[swap[t]] \in {Absent, Leftover}
  BY <1>1, NameFree
<1>8. counter' >= counter
  BY <1>1
<1> QED BY <1>1, <1>2, <1>4, <1>5, <1>6, <1>7, <1>8, OneThread


\* A step with the swap name that goes on with it.
LEMMA HeldStep ==
  ASSUME IInv, NEW t \in Thread, pc[t] \in Pending \cap Owning, UNCHANGED <<counter, swap>>,
         NEW next \in (Pending \cap Owning) \ {"count", "swap"}, Goto(t, next),
         fs' \in [Path \cup Swap -> Value],
         \A x \in (Path \cup Swap) \ {call[t].old, call[t].new, swap[t]} : fs'[x] = fs[x],
         pc[t] # "count",
         next \in Holding => IsFile(fs'[swap[t]]) /\ fs'[call[t].new] = Absent,
         next = "giveup" => fs'[swap[t]] \in {Absent, Leftover}
  PROVE  IInv'
<1>1. Types /\ Fits(pc[t], call[t], swap[t], fs, counter) /\ counter' >= counter
  BY DEF IInv, AllFit, Types
<1>2. /\ pc' \in [Thread -> Pending \cup {"idle", "tidy"}] /\ pc'[t] = next
      /\ \A u \in Thread \ {t} : pc'[u] = pc[u]
      /\ call' = call
  BY <1>1, GotoThread
<1>3. Types'
  BY <1>1, <1>2 DEF Types
<1>4. Fits(pc'[t], call'[t], swap'[t], fs', counter')
  BY <1>1, <1>2 DEF Fits, Owning, Holding, Pending
<1>5. fs'[swap[t]] \in {Absent, Leftover} \/ next \in Holding
  BY DEF Pending, Owning, Holding
<1>6. \A x \in Path \cup Swap :
           \/ fs'[x] = fs[x]
           \/ pc[t] \in Pending /\ x \in {call[t].old, call[t].new}
           \/ pc[t] \in Owning /\ x = swap[t]
  OBVIOUS
<1> QED BY <1>1, <1>2, <1>3, <1>4, <1>5, <1>6, OneThread

\* The last step gives the swap name up, with nothing of ours there.
LEMMA DoneStep ==
  ASSUME IInv, NEW t \in Thread, pc[t] \in Owning, NEW res \in Result \ {"pending"}, Return(t, res),
         swap' = [swap EXCEPT ![t] = Absent], UNCHANGED counter,
         fs' \in [Path \cup Swap -> Value],
         \A x \in Path \cup Swap :
           fs'[x] = fs[x] \/ x = swap[t] \/ (pc[t] \in Pending /\ x = call[t].new),
         fs'[swap[t]] \in {Absent, Leftover}
  PROVE  IInv'
<1>1. Types /\ counter' >= counter
  BY DEF IInv, Types
<1>2. /\ pc' \in [Thread -> Pending \cup {"idle", "tidy"}] /\ pc'[t] = "idle"
      /\ call' \in [Thread -> [old : Path \cup {Absent}, new : Path \cup {Absent}, res : Result]]
      /\ call'[t].res # "pending"
      /\ \A u \in Thread \ {t} : pc'[u] = pc[u] /\ call'[u] = call[u]
  BY <1>1, ReturnThread
<1>3. /\ swap' \in [Thread -> Swap \cup {Absent}]
      /\ \A u \in Thread \ {t} : swap'[u] = swap[u]
  BY <1>1 DEF Types
<1>4. Types'
  BY <1>1, <1>2, <1>3 DEF Types
<1>5. pc'[t] \notin Pending /\ pc'[t] \notin Owning
  BY <1>2 DEF Pending, Owning, Holding
<1>6. Fits(pc'[t], call'[t], swap'[t], fs', counter')
  BY <1>2, <1>5 DEF Fits, Owning, Holding
<1> QED BY <1>1, <1>2, <1>3, <1>4, <1>5, <1>6, OneThread

\* The file in the way moves to the swap name.
LEMMA SwapOutStep ==
  ASSUME IInv, NEW t \in Thread, SwapOut(t)
  PROVE  IInv'
<1>1. /\ Types /\ pc[t] = "swap" /\ UNCHANGED <<counter, swap>>
      /\ Fits(pc[t], call[t], swap[t], fs, counter)
  BY DEF SwapOut, IInv, AllFit
<1>2. /\ pc[t] \in Pending \cap Owning /\ pc[t] # "count"
      /\ swap[t] \in Swap /\ call[t].new \in Path /\ IsFile(fs[call[t].new])
  BY <1>1 DEF Fits, Pending, Owning, Holding
<1>3. CASE Moved(call[t].new, swap[t]) /\ Goto(t, "replace")
  <2>1. /\ fs' \in [Path \cup Swap -> Value]
        /\ fs'[swap[t]] = fs[call[t].new] /\ fs'[call[t].new] = Absent
        /\ \A z \in (Path \cup Swap) \ {call[t].new, swap[t]} : fs'[z] = fs[z]
    BY <1>1, <1>2, <1>3, MovedFiles, PathsAndSwaps
  <2>2. "replace" \in (Pending \cap Owning) \ {"count", "swap"}
    BY DEF Pending, Owning, Holding
  <2> QED BY <1>1, <1>2, <1>3, <2>1, <2>2, HeldStep
<1>4. CASE UNCHANGED fs /\ Goto(t, "giveup")
  <2>1. "giveup" \in (Pending \cap Owning) \ {"count", "swap"} /\ "giveup" \notin Holding
    BY DEF Pending, Owning, Holding
  <2>2. fs'[swap[t]] \in {Absent, Leftover}
    BY <1>1, <1>4, NameFree
  <2>3. fs' \in [Path \cup Swap -> Value]
    BY <1>1, <1>4 DEF Types
  <2> QED BY <1>1, <1>2, <1>4, <2>1, <2>2, <2>3, HeldStep
<1> QED BY <1>3, <1>4 DEF SwapOut, Denied

\* The file takes the free place, or the other has to go back.
LEMMA ReplaceStep ==
  ASSUME IInv, NEW t \in Thread, Replace(t)
  PROVE  IInv'
<1> DEFINE old == call[t].old
<1> DEFINE new == call[t].new
<1>1. /\ Types /\ pc[t] = "replace" /\ UNCHANGED <<counter, swap>>
      /\ Fits(pc[t], call[t], swap[t], fs, counter)
  BY DEF Replace, IInv, AllFit
<1>2. /\ pc[t] \in Pending \cap Owning /\ pc[t] # "count"
      /\ swap[t] \in Swap /\ old \in Path /\ new \in Path /\ old # new
      /\ IsFile(fs[swap[t]]) /\ fs[new] = Absent
      /\ swap[t][2] < counter /\ swap[t][2] <= counter
  BY <1>1 DEF Fits, Pending, Owning, Holding
<1>3. CASE /\ Moved(old, new)
           /\ pc' = [pc EXCEPT ![t] = "tidy"]
           /\ call' = [call EXCEPT ![t] = [Idle EXCEPT !.res = "ok"]]
  <2>1. /\ fs' \in [Path \cup Swap -> Value]
        /\ \A z \in (Path \cup Swap) \ {old, new} : fs'[z] = fs[z]
    BY <1>1, <1>2, <1>3, MovedFiles
  <2>2. IsFile(fs'[swap[t]])
    BY <1>2, <2>1, PathsAndSwaps
  <2>3. [Idle EXCEPT !.res = "ok"] = [old |-> Absent, new |-> Absent, res |-> "ok"]
    BY DEF Idle
  <2>4. /\ pc' \in [Thread -> Pending \cup {"idle", "tidy"}] /\ pc'[t] = "tidy"
        /\ \A u \in Thread \ {t} : pc'[u] = pc[u]
    BY <1>1, <1>3 DEF Types
  <2>5. /\ call' \in [Thread -> [old : Path \cup {Absent}, new : Path \cup {Absent}, res : Result]]
        /\ call'[t].res = "ok" /\ \A u \in Thread \ {t} : call'[u] = call[u]
    BY <1>1, <1>3, <2>3 DEF Types, Result
  <2>6. Types' /\ counter' >= counter
    BY <1>1, <2>1, <2>4, <2>5 DEF Types
  <2>7. pc'[t] \notin Pending /\ pc'[t] \in Holding
    BY <2>4 DEF Pending, Holding
  <2>8. Fits(pc'[t], call'[t], swap'[t], fs', counter')
    BY <1>1, <1>2, <2>2, <2>4, <2>5, <2>7 DEF Fits
  <2>9. \A x \in Path \cup Swap :
           \/ fs'[x] = fs[x]
           \/ pc[t] \in Pending /\ x \in {call[t].old, call[t].new}
           \/ pc[t] \in Owning /\ x = swap[t]
    BY <1>2, <2>1
  <2> QED BY <1>1, <1>2, <2>4, <2>5, <2>6, <2>7, <2>8, <2>9, OneThread
<1>4. CASE UNCHANGED fs /\ Goto(t, "restore")
  <2>1. "restore" \in (Pending \cap Owning) \ {"count", "swap"}
    BY DEF Pending, Owning, Holding
  <2>2. fs' \in [Path \cup Swap -> Value]
    BY <1>1, <1>4 DEF Types
  <2> QED BY <1>1, <1>2, <1>4, <2>1, <2>2, HeldStep
<1> QED BY <1>3, <1>4 DEF Replace, Denied

\* The replaced file is deleted, or a name that was never used.
LEMMA TidyStep ==
  ASSUME IInv, NEW t \in Thread, Tidy(t)
  PROVE  IInv'
<1>1. /\ Types /\ pc[t] \in {"tidy", "giveup"} /\ UNCHANGED counter
      /\ swap' = [swap EXCEPT ![t] = Absent] /\ Deleted(swap[t])
      /\ Fits(pc[t], call[t], swap[t], fs, counter)
  BY DEF Tidy, IInv, AllFit
<1>2. pc[t] \in Owning /\ swap[t] \in Swap
  BY <1>1 DEF Fits, Owning, Holding
<1>3. fs' = [fs EXCEPT ![swap[t]] = IF IsFile(fs[swap[t]]) THEN Absent ELSE fs[swap[t]]]
  BY <1>1 DEF Deleted
<1>4. fs' \in [Path \cup Swap -> Value] /\ \A x \in (Path \cup Swap) \ {swap[t]} : fs'[x] = fs[x]
  BY <1>1, <1>2, <1>3 DEF Types, Value
<1>5. fs'[swap[t]] = IF IsFile(fs[swap[t]]) THEN Absent ELSE fs[swap[t]]
  BY <1>1, <1>2, <1>3 DEF Types
<1>6. IsFile(fs[swap[t]]) \/ fs[swap[t]] \in {Absent, Leftover}
  BY <1>1, NameFree DEF Fits, Holding
<1>7. PICK res \in Result \ {"pending"} : Return(t, res)
  <2>1. Return(t, "ok") \/ Return(t, "EACCES")
    BY DEF Tidy
  <2> QED BY <2>1 DEF Result
<1> QED BY <1>1, <1>2, <1>4, <1>5, <1>6, <1>7, DoneStep

\* The file goes back to the place that is still free.
LEMMA RestoreStep ==
  ASSUME "restore" \notin Denies, IInv, NEW t \in Thread, Restore(t)
  PROVE  IInv'
<1>1. /\ Types /\ pc[t] = "restore" /\ UNCHANGED counter
      /\ swap' = [swap EXCEPT ![t] = Absent] /\ Return(t, "EACCES")
      /\ Fits(pc[t], call[t], swap[t], fs, counter)
  BY DEF Restore, IInv, AllFit
<1>2. /\ pc[t] \in Owning /\ pc[t] \in Pending /\ swap[t] \in Swap /\ call[t].new \in Path
      /\ IsFile(fs[swap[t]]) /\ fs[call[t].new] = Absent
  BY <1>1 DEF Fits, Owning, Holding, Pending
<1>3. Moved(swap[t], call[t].new)
  BY <1>1, <1>2 DEF Restore, Denied, Movable, IsFile
<1>4. /\ fs' \in [Path \cup Swap -> Value]
      /\ fs'[swap[t]] = Absent
      /\ \A z \in (Path \cup Swap) \ {swap[t], call[t].new} : fs'[z] = fs[z]
  BY <1>1, <1>2, <1>3, MovedFiles, PathsAndSwaps
<1>5. "EACCES" \in Result \ {"pending"}
  BY DEF Result
<1> QED BY <1>1, <1>2, <1>4, <1>5, DoneStep

\* The invariant holds whatever is refused but the move back.
THEOREM RenameInvariant ==
  ASSUME Counted = TRUE, "restore" \notin Denies
  PROVE  Spec => []IInv
<1>1. IInv /\ [Next]_vars => IInv'
  <2> SUFFICES ASSUME IInv, [Next]_vars PROVE IInv'
    OBVIOUS
  <2>1. CASE UNCHANGED vars
    BY <2>1 DEF vars, IInv, Types, AllFit, PathsApart, NamesApart, SwapsFree
  <2>2. CASE Next
    <3>1. PICK t \in Thread :
            \/ \E old, new \in Path : Call(t, old, new)
            \/ Move(t) \/ Classify(t) \/ Remove(t) \/ MakeName(t) \/ Count(t) \/ SwapOut(t)
            \/ Replace(t) \/ Tidy(t) \/ Restore(t)
      BY <2>2 DEF Next
    <3> QED BY <3>1, CallStep, MoveStep, ClassifyStep, RemoveStep, MakeNameStep, CountStep,
               SwapOutStep, ReplaceStep, TidyStep, RestoreStep
  <2> QED BY <2>1, <2>2
<1> QED BY <1>1, InitIInv, PTL DEF Spec

\* No two renames use one swap name, and when none is under way nothing of the
\* program's files is left at one.
THEOREM SwapNamesApart ==
  ASSUME Counted = TRUE, "restore" \notin Denies
  PROVE  Spec => []SwapsApart
<1>1. ASSUME IInv PROVE SwapsApart
  <2>1. \A t, u \in Thread : t # u /\ {pc[t], pc[u]} \subseteq {"swap", "replace", "tidy", "restore"}
          => swap[t] # swap[u]
    BY <1>1 DEF IInv, NamesApart, Owning, Holding
  <2>2. (\A t \in Thread : pc[t] = "idle") => \A x \in Swap : fs[x] \in {Absent, Leftover}
    BY <1>1 DEF IInv, SwapsFree, Holding
  <2> QED BY <2>1, <2>2 DEF SwapsApart
<1> QED BY <1>1, RenameInvariant, PTL


-----------------------------------------------------------------------------
(* No contents vanish.                                                     *)

\* A move onto a place that holds no file of ours loses none.
LEMMA MovedKeeps ==
  ASSUME Types, NEW x \in Path \cup Swap, NEW y \in Path \cup Swap, x # y, Moved(x, y),
         fs[y] \in {Absent, Leftover}, NEW p \in Path, Present(p)
  PROVE  Present(p)'
<1>1. p # Absent /\ p # Leftover
  BY WinRenameAssumption
<1>2. PICK z \in Path \cup Swap : fs[z] = p
  BY DEF Present, Types
<1>3. /\ fs' \in [Path \cup Swap -> Value]
      /\ fs'[y] = fs[x] /\ fs'[x] = Absent
      /\ \A w \in (Path \cup Swap) \ {x, y} : fs'[w] = fs[w]
  BY MovedFiles
<1>4. \E w \in Path \cup Swap : fs'[w] = p
  BY <1>1, <1>2, <1>3
<1> QED BY <1>3, <1>4 DEF Present

\* One step of a rename takes a file's contents away only where it deletes
\* what it has replaced.
LEMMA StepKeeps ==
  ASSUME IInv, NEW t \in Thread, NEW p \in Path, Present(p), ~Present(p)',
         \/ \E old, new \in Path : Call(t, old, new)
         \/ Move(t) \/ Classify(t) \/ Remove(t) \/ MakeName(t) \/ Count(t) \/ SwapOut(t)
         \/ Replace(t) \/ Tidy(t) \/ Restore(t)
  PROVE  pc[t] = "tidy" /\ fs[swap[t]] = p
<1>1. Types /\ Fits(pc[t], call[t], swap[t], fs, counter)
  BY DEF IInv, AllFit
<1>2. fs' # fs
  BY DEF Present
<1>3. p \notin {Absent, EmptyDir, FullDir, Leftover}
  BY WinRenameAssumption
<1>4. CASE (\E old, new \in Path : Call(t, old, new)) \/ Classify(t) \/ MakeName(t) \/ Count(t)
  BY <1>2, <1>4 DEF Call, Classify, MakeName, Count
<1>5. CASE Move(t)
  <2>1. call[t].old \in Path /\ call[t].new \in Path /\ call[t].old # call[t].new
    BY <1>1, <1>5 DEF Move, Fits, Pending
  <2>2. Movable(call[t].old, call[t].new, FALSE) /\ Moved(call[t].old, call[t].new)
    BY <1>2, <1>5 DEF Move, Denied
  <2> QED BY <1>1, <2>1, <2>2, MovedKeeps DEF Movable
<1>6. CASE Remove(t)
  <2>1. call[t].new \in Path
    BY <1>1, <1>6 DEF Remove, Fits, Pending
  <2>2. fs[call[t].new] = EmptyDir /\ fs' = [fs EXCEPT ![call[t].new] = Absent]
    BY <1>2, <1>6 DEF Remove, Denied
  <2>3. PICK z \in Path \cup Swap : fs[z] = p
    BY <1>1 DEF Present, Types
  <2>4. fs'[z] = p /\ DOMAIN fs' = Path \cup Swap
    BY <1>1, <1>3, <2>1, <2>2, <2>3 DEF Types
  <2> QED BY <2>3, <2>4 DEF Present
<1>7. CASE SwapOut(t)
  <2>1. swap[t] \in Swap /\ call[t].new \in Path
    BY <1>1, <1>7 DEF SwapOut, Fits, Pending, Owning
  <2>2. fs[swap[t]] \in {Absent, Leftover}
    BY <1>7, NameFree DEF SwapOut
  <2>3. Moved(call[t].new, swap[t])
    BY <1>2, <1>7 DEF SwapOut, Denied
  <2> QED BY <1>1, <2>1, <2>2, <2>3, MovedKeeps, PathsAndSwaps
<1>8. CASE Replace(t)
  <2>1. /\ call[t].old \in Path /\ call[t].new \in Path /\ call[t].old # call[t].new
        /\ fs[call[t].new] = Absent
    BY <1>1, <1>8 DEF Replace, Fits, Pending
  <2>2. Moved(call[t].old, call[t].new)
    BY <1>2, <1>8 DEF Replace, Denied
  <2> QED BY <1>1, <2>1, <2>2, MovedKeeps
<1>9. CASE Tidy(t)
  <2>1. /\ pc[t] \in {"tidy", "giveup"} /\ swap[t] \in Swap
        /\ fs' = [fs EXCEPT ![swap[t]] = IF IsFile(@) THEN Absent ELSE @]
    BY <1>1, <1>9 DEF Tidy, Deleted, Fits, Owning, Holding
  <2>2. PICK z \in Path \cup Swap : fs[z] = p
    BY <1>1 DEF Present, Types
  <2>3. fs[swap[t]] = p
    <3>1. SUFFICES ASSUME z # swap[t] PROVE FALSE
      BY <2>2
    <3>2. fs'[z] = p /\ DOMAIN fs' = Path \cup Swap
      BY <1>1, <2>1, <2>2, <3>1 DEF Types
    <3> QED BY <2>2, <3>2 DEF Present
  <2>4. pc[t] # "giveup"
    BY <1>3, <2>3, NameFree
  <2> QED BY <2>1, <2>3, <2>4
<1>10. CASE Restore(t)
  <2>1. swap[t] \in Swap /\ call[t].new \in Path /\ fs[call[t].new] = Absent
    BY <1>1, <1>10 DEF Restore, Fits, Pending, Owning, Holding
  <2>2. Moved(swap[t], call[t].new)
    BY <1>2, <1>10 DEF Restore, Denied
  <2> QED BY <1>1, <2>1, <2>2, MovedKeeps, PathsAndSwaps
<1> QED BY <1>4, <1>5, <1>6, <1>7, <1>8, <1>9, <1>10

\* Whatever is refused, and wherever the program is killed, the contents of
\* every file are at some name until a rename that replaced them deletes them.
THEOREM ContentsKept ==
  ASSUME Counted = TRUE, "restore" \notin Denies
  PROVE  Spec => Kept
<1>1. ASSUME IInv, [Next]_vars
      PROVE  [\A p \in Path : Present(p) /\ ~Present(p)' =>
                \E t \in Thread : pc[t] = "tidy" /\ fs[swap[t]] = p]_vars
  <2>1. CASE UNCHANGED vars
    BY <2>1
  <2>2. CASE Next
    <3>1. PICK t \in Thread :
            \/ \E old, new \in Path : Call(t, old, new)
            \/ Move(t) \/ Classify(t) \/ Remove(t) \/ MakeName(t) \/ Count(t) \/ SwapOut(t)
            \/ Replace(t) \/ Tidy(t) \/ Restore(t)
      BY <2>2 DEF Next
    <3>2. ASSUME NEW p \in Path, Present(p), ~Present(p)'
          PROVE  pc[t] = "tidy" /\ fs[swap[t]] = p
      BY <1>1, <3>1, <3>2, StepKeeps
    <3> QED BY <3>2
  <2> QED BY <1>1, <2>1, <2>2
<1> QED BY <1>1, RenameInvariant, PTL DEF Kept, Spec

-----------------------------------------------------------------------------
(* Behind its window every rename is one step.                             *)

\* What a call that is past the first move knows of its two paths.
Knows(t) ==
  LET old == fs[call[t].old]
      new == fs[call[t].new]
  IN /\ pc[t] = "remove" => old \in Dirs /\ new \in Dirs
     /\ pc[t] = "retry" => old \in Dirs /\ new = Absent
     /\ pc[t] \in {"name", "count", "swap", "replace", "restore"} => IsFile(old)
     /\ pc[t] = "tidy" => call[t] = [Idle EXCEPT !.res = "ok"]

RInv == IInv /\ \A t \in Thread : Knows(t)

StepOf(t) ==
  \/ \E old, new \in Path : Call(t, old, new)
  \/ Move(t) \/ Classify(t) \/ Remove(t) \/ MakeName(t) \/ Count(t) \/ SwapOut(t)
  \/ Replace(t) \/ Tidy(t) \/ Restore(t)

\* A step is that of one call: it leaves other paths and swap names alone.
Touches(t) ==
  /\ \A u \in Thread \ {t} : pc'[u] = pc[u] /\ call'[u] = call[u] /\ swap'[u] = swap[u]
  /\ \A x \in Path \cup Swap :
       \/ fs'[x] = fs[x]
       \/ pc[t] \in Pending /\ x \in {call[t].old, call[t].new}
       \/ pc[t] \in Owning /\ x = swap[t]

LEMMA StepTouches ==
  ASSUME IInv, NEW t \in Thread, StepOf(t)
  PROVE  Touches(t)
<1>1. Types
  BY DEF IInv
<1>2. \A u \in Thread \ {t} : pc'[u] = pc[u] /\ call'[u] = call[u] /\ swap'[u] = swap[u]
  BY <1>1 DEF Types, StepOf, Call, Move, Classify, Remove, MakeName, Count, SwapOut, Replace, Tidy,
              Restore, Goto, Return
<1>3. ASSUME NEW x \in Path \cup Swap, fs'[x] # fs[x]
      PROVE  \/ pc[t] \in Pending /\ x \in {call[t].old, call[t].new}
             \/ pc[t] \in Owning /\ x = swap[t]
  <2>1. fs' # fs /\ fs \in [Path \cup Swap -> Value]
    BY <1>1, <1>3 DEF Types
  <2>2. CASE Move(t)
    BY <1>3, <2>1, <2>2 DEF Move, Moved, Denied, Pending
  <2>3. CASE Remove(t)
    BY <1>3, <2>1, <2>3 DEF Remove, Denied, Pending
  <2>4. CASE SwapOut(t)
    BY <1>3, <2>1, <2>4 DEF SwapOut, Moved, Denied, Pending, Owning, Holding
  <2>5. CASE Replace(t)
    BY <1>3, <2>1, <2>5 DEF Replace, Moved, Denied, Pending
  <2>6. CASE Tidy(t)
    BY <1>3, <2>1, <2>6 DEF Tidy, Deleted, Owning, Holding
  <2>7. CASE Restore(t)
    BY <1>3, <2>1, <2>7 DEF Restore, Moved, Denied, Pending, Owning, Holding
  <2>8. CASE (\E old, new \in Path : Call(t, old, new)) \/ Classify(t) \/ MakeName(t) \/ Count(t)
    BY <2>1, <2>8 DEF Call, Classify, MakeName, Count
  <2> QED BY <2>2, <2>3, <2>4, <2>5, <2>6, <2>7, <2>8 DEF StepOf
<1> QED BY <1>2, <1>3 DEF Touches

LEMMA Frame ==
  ASSUME IInv, NEW t \in Thread, Touches(t), NEW u \in Thread \ {t}
  PROVE  /\ pc[u] \in Pending => /\ fs'[call[u].old] = fs[call[u].old]
                                 /\ fs'[call[u].new] = fs[call[u].new]
         /\ pc[u] \in Owning => fs'[swap[u]] = fs[swap[u]]
<1>1. /\ PathsApart /\ NamesApart
      /\ Fits(pc[u], call[u], swap[u], fs, counter) /\ Fits(pc[t], call[t], swap[t], fs, counter)
  BY DEF IInv, AllFit
<1>2. ASSUME pc[u] \in Pending
      PROVE  fs'[call[u].old] = fs[call[u].old] /\ fs'[call[u].new] = fs[call[u].new]
  <2>1. call[u].old \in Path /\ call[u].new \in Path
    BY <1>1, <1>2 DEF Fits
  <2>2. pc[t] \in Owning => swap[t] \in Swap
    BY <1>1 DEF Fits
  <2>3. pc[t] \in Pending => {call[t].old, call[t].new} \cap {call[u].old, call[u].new} = {}
    BY <1>1, <1>2 DEF PathsApart
  <2> QED BY <2>1, <2>2, <2>3, PathsAndSwaps DEF Touches
<1>3. ASSUME pc[u] \in Owning
      PROVE  fs'[swap[u]] = fs[swap[u]]
  <2>1. swap[u] \in Swap
    BY <1>1, <1>3 DEF Fits
  <2>2. pc[t] \in Pending => call[t].old \in Path /\ call[t].new \in Path
    BY <1>1 DEF Fits
  <2>3. pc[t] \in Owning => swap[t] # swap[u]
    BY <1>1, <1>3 DEF NamesApart
  <2> QED BY <2>1, <2>2, <2>3, PathsAndSwaps DEF Touches
<1> QED BY <1>2, <1>3

\* What other threads see at the destination of a call, and elsewhere.
Behind(t) == IF pc[t] \in {"replace", "restore"} THEN fs[swap[t]]
             ELSE IF pc[t] = "retry" THEN EmptyDir ELSE fs[call[t].new]

Views ==
  /\ \A t \in Thread : pc[t] \in Pending =>
       Unmoved(call[t].new) = Behind(t) /\ Unmoved(call[t].old) = fs[call[t].old]
  /\ \A p \in Path : (\A t \in Thread : pc[t] \in Pending => call[t].new # p) => Unmoved(p) = fs[p]

LEMMA View == IInv => Views
<1> SUFFICES ASSUME IInv PROVE Views
  OBVIOUS
<1>1. \A t \in Thread : t \in Running <=> pc[t] \in Pending
  BY DEF IInv, AllFit, Fits, Running
<1>2. ASSUME NEW p \in Path, \A t \in Thread : pc[t] \in Pending => call[t].new # p
      PROVE  Unmoved(p) = fs[p]
  <2>1. ~\E u \in Running : call[u].new = p
    BY <1>1, <1>2 DEF Running
  <2> QED BY <2>1 DEF Unmoved
<1>3. ASSUME NEW t \in Thread, pc[t] \in Pending
      PROVE  Unmoved(call[t].new) = Behind(t) /\ Unmoved(call[t].old) = fs[call[t].old]
  <2>1. Fits(pc[t], call[t], swap[t], fs, counter) /\ PathsApart
    BY DEF IInv, AllFit
  <2>2. call[t].old \in Path /\ call[t].new \in Path /\ call[t].old # call[t].new
    BY <1>3, <2>1 DEF Fits
  <2>3. \A u \in Running : u # t => call[u].new # call[t].new /\ call[u].new # call[t].old
    BY <1>1, <1>3, <2>1 DEF PathsApart, Running
  <2>4. (CHOOSE u \in Running : call[u].new = call[t].new) = t
    BY <1>1, <1>3, <2>3
  <2>5. Unmoved(call[t].new) = Behind(t)
    BY <1>1, <1>3, <2>3, <2>4 DEF Unmoved, Behind
  <2>6. Unmoved(call[t].old) = fs[call[t].old]
    BY <1>1, <1>2, <2>2, <2>3
  <2> QED BY <2>5, <2>6
<1> QED BY <1>2, <1>3 DEF Views

\* Nothing changes behind the windows but at the paths of the call.
LEMMA ViewKept ==
  ASSUME IInv, IInv', NEW t \in Thread, Touches(t), NEW p \in Path,
         pc[t] \in Pending => p \notin {call[t].old, call[t].new},
         pc'[t] \in Pending => p \notin {call'[t].old, call'[t].new}
  PROVE  Unmoved(p)' = Unmoved(p)
<1>1. /\ \A u \in Thread : pc'[u] \in Pending => Unmoved(call[u].new)' = Behind(u)'
      /\ (\A u \in Thread : pc'[u] \in Pending => call'[u].new # p) => Unmoved(p)' = fs'[p]
  <2>1. IInv' => Views'
    BY View, PTL
  <2> QED BY <2>1 DEF Views
<1>2. CASE \E u \in Thread \ {t} : pc[u] \in Pending /\ call[u].new = p
  <2>1. PICK u \in Thread \ {t} : pc[u] \in Pending /\ call[u].new = p
    BY <1>2
  <2>2. /\ pc'[u] = pc[u] /\ call'[u] = call[u] /\ swap'[u] = swap[u] /\ fs'[p] = fs[p]
        /\ pc[u] \in Owning => fs'[swap[u]] = fs[swap[u]]
    BY <2>1, Frame DEF Touches
  <2>3. Behind(u)' = Behind(u)
    BY <2>1, <2>2 DEF Behind, Owning, Holding
  <2>4. Unmoved(p) = Behind(u)
    BY <2>1, View DEF Views
  <2>5. Unmoved(p)' = Behind(u)'
    BY <1>1, <2>1, <2>2
  <2> QED BY <2>3, <2>4, <2>5
<1>3. CASE \A u \in Thread \ {t} : pc[u] \in Pending => call[u].new # p
  <2>1. \A u \in Thread : pc[u] \in Pending => call[u].new # p
    BY <1>3
  <2>2. \A u \in Thread : pc'[u] \in Pending => call'[u].new # p
    BY <1>3 DEF Touches
  <2>3. fs'[p] = fs[p]
    <3>1. pc[t] \in Owning => swap[t] \in Swap
      BY DEF IInv, AllFit, Fits
    <3> QED BY <3>1, PathsAndSwaps DEF Touches
  <2> QED BY <1>1, <2>1, <2>2, <2>3, View DEF Views
<1> QED BY <1>2, <1>3

LEMMA KnowsStep ==
  ASSUME Counted = TRUE, Denies \cap {"retry", "remove", "restore"} = {}, RInv, IInv',
         NEW t \in Thread, StepOf(t)
  PROVE  RInv'
<1>1. /\ IInv /\ Types /\ Knows(t) /\ Fits(pc[t], call[t], swap[t], fs, counter)
      /\ Touches(t)
  BY StepTouches DEF RInv, IInv, AllFit
<1>2. ASSUME NEW u \in Thread \ {t}
      PROVE  Knows(u)'
  BY <1>1, Frame DEF RInv, Knows, Touches, Pending
<1>3. fs \in [Path \cup Swap -> Value] /\ DOMAIN pc = Thread /\ DOMAIN call = Thread
  BY <1>1 DEF Types
<1>4. ASSUME pc'[t] \in {"idle", "move", "classify", "giveup"}
      PROVE  Knows(t)'
  BY <1>4 DEF Knows
<1>5. ASSUME pc'[t] \in {"name", "count", "swap", "replace", "restore"}, call'[t] = call[t],
             fs'[call[t].old] = fs[call[t].old], IsFile(fs[call[t].old])
      PROVE  Knows(t)'
  BY <1>5 DEF Knows, IsFile
<1> SUFFICES Knows(t)'
  BY <1>2 DEF RInv
<1>6. CASE \/ Tidy(t) \/ Restore(t) \/ \E old, new \in Path : Call(t, old, new)
  <2>1. pc'[t] \in {"idle", "move"}
    BY <1>3, <1>6 DEF Call, Tidy, Restore, Return
  <2> QED BY <1>4, <2>1
<1>7. CASE Move(t)
  <2>1. pc'[t] \in {"idle", "classify"}
    BY <1>3, <1>7 DEF Move, Goto, Return
  <2> QED BY <1>4, <2>1
<1>8. ASSUME pc[t] \in Pending
      PROVE  call[t].old \in Path /\ call[t].new \in Path /\ call[t].old # call[t].new
  BY <1>1, <1>8 DEF Fits
<1>9. CASE Classify(t)
  <2> DEFINE old == fs[call[t].old]
             new == fs[call[t].new]
  <2>1. old # Absent /\ new # Absent /\ fs' = fs
    BY <1>1, <1>9 DEF Classify, Fits
  <2>2. \/ pc'[t] = "idle"
        \/ pc'[t] = "remove" /\ old \in Dirs /\ new \in Dirs /\ call' = call
        \/ pc'[t] = "name" /\ old \notin Dirs /\ call' = call
    BY <1>3, <1>9 DEF Classify, Goto, Return
  <2>3. CASE pc'[t] = "remove" /\ old \in Dirs /\ new \in Dirs /\ call' = call
    BY <2>1, <2>3 DEF Knows
  <2>4. CASE pc'[t] = "name" /\ old \notin Dirs /\ call' = call
    BY <1>5, <2>1, <2>4 DEF IsFile
  <2> QED BY <1>4, <2>2, <2>3, <2>4
<1>10. CASE Remove(t)
  <2>1. /\ fs[call[t].old] \in Dirs
        /\ call[t].old \in Path /\ call[t].new \in Path /\ call[t].old # call[t].new
    BY <1>1, <1>8, <1>10 DEF Remove, Knows, Pending
  <2>2. \/ pc'[t] = "idle"
        \/ pc'[t] = "retry" /\ call' = call /\ fs' = [fs EXCEPT ![call[t].new] = Absent]
    BY <1>3, <1>10 DEF Remove, Goto, Return
  <2>3. CASE pc'[t] = "retry" /\ call' = call /\ fs' = [fs EXCEPT ![call[t].new] = Absent]
    <3>1. fs'[call[t].old] = fs[call[t].old] /\ fs'[call[t].new] = Absent
      BY <1>3, <2>1, <2>3
    <3> QED BY <2>1, <2>3, <3>1 DEF Knows
  <2> QED BY <1>4, <2>2, <2>3
<1>11. CASE MakeName(t) \/ Count(t)
  <2>1. pc'[t] \in {"count", "swap"} /\ call' = call /\ fs' = fs /\ IsFile(fs[call[t].old])
    BY <1>1, <1>3, <1>11 DEF MakeName, Count, Goto, Knows
  <2> QED BY <1>5, <2>1
<1>12. CASE SwapOut(t)
  <2>1. /\ IsFile(fs[call[t].old]) /\ call[t].old \in Path /\ call[t].new \in Path
        /\ call[t].old # call[t].new /\ swap[t] \in Swap
    BY <1>1, <1>8, <1>12 DEF SwapOut, Knows, Pending, Fits, Owning
  <2>2. fs' = fs \/ fs' = [fs EXCEPT ![swap[t]] = fs[call[t].new], ![call[t].new] = Absent]
    BY <1>12 DEF SwapOut, Moved, Denied
  <2>3. fs'[call[t].old] = fs[call[t].old]
    BY <1>3, <2>1, <2>2, PathsAndSwaps
  <2>4. pc'[t] \in {"replace", "giveup"} /\ call' = call
    BY <1>3, <1>12 DEF SwapOut, Goto
  <2> QED BY <1>4, <1>5, <2>1, <2>3, <2>4
<1>13. CASE Replace(t)
  <2>1. IsFile(fs[call[t].old])
    BY <1>1, <1>13 DEF Replace, Knows
  <2>2. \/ pc'[t] = "tidy" /\ call' = [call EXCEPT ![t] = [Idle EXCEPT !.res = "ok"]]
        \/ pc'[t] = "restore" /\ fs' = fs /\ call' = call
    BY <1>3, <1>13 DEF Replace, Goto, Denied
  <2>3. CASE pc'[t] = "tidy" /\ call' = [call EXCEPT ![t] = [Idle EXCEPT !.res = "ok"]]
    <3>1. call'[t] = [Idle EXCEPT !.res = "ok"]
      BY <1>3, <2>3
    <3> QED BY <2>3, <3>1 DEF Knows
  <2> QED BY <1>5, <2>1, <2>2, <2>3
<1> QED BY <1>6, <1>7, <1>9, <1>10, <1>11, <1>12, <1>13 DEF StepOf

-----------------------------------------------------------------------------
(* The steps of WinRename are those of AtomicRename, or none.              *)

\* The files as they are behind the windows.
Rest == [p \in Path |-> Unmoved(p)]

LEMMA ViewsNext == IInv' => Views'
BY View, PTL

\* A call that goes on has changed nothing.
LEMMA Stutters ==
  ASSUME IInv, IInv', NEW t \in Thread, Touches(t), pc[t] \in Pending, pc'[t] \in Pending,
         call' = call, Behind(t)' = Behind(t), fs'[call[t].old] = fs[call[t].old]
  PROVE  Rest' = Rest
<1>1. ASSUME NEW p \in Path PROVE Unmoved(p)' = Unmoved(p)
  <2>1. CASE p \notin {call[t].old, call[t].new}
    BY <2>1, ViewKept
  <2>2. CASE p = call[t].new
    <3>1. Unmoved(call[t].new) = Behind(t)
      BY View DEF Views
    <3>2. (Unmoved(call[t].new))' = Behind(t)'
      BY ViewsNext DEF Views
    <3>3. Unmoved(p)' = (Unmoved(call[t].new))'
      BY <2>2
    <3> QED BY <2>2, <3>1, <3>2, <3>3
  <2>3. CASE p = call[t].old
    <3>1. Unmoved(call[t].old) = fs[call[t].old]
      BY View DEF Views
    <3>2. (Unmoved(call[t].old))' = fs'[call[t].old]
      BY ViewsNext DEF Views
    <3>3. Unmoved(p)' = (Unmoved(call[t].old))'
      BY <2>3
    <3> QED BY <2>3, <3>1, <3>2, <3>3
  <2> QED BY <2>1, <2>2, <2>3
<1> QED BY <1>1 DEF Rest

\* A call that returns leaves both paths as anybody can see them.
LEMMA Returns ==
  ASSUME IInv, IInv', NEW t \in Thread, Touches(t), pc[t] \in Pending, pc'[t] \notin Pending
  PROVE  /\ Rest' = [Rest EXCEPT ![call[t].new] = fs'[call[t].new], ![call[t].old] = fs'[call[t].old]]
         /\ call[t].old \in Path /\ call[t].new \in Path /\ call[t].old # call[t].new
         /\ Rest[call[t].new] = Behind(t) /\ Rest[call[t].old] = fs[call[t].old]
<1>1. call[t].old \in Path /\ call[t].new \in Path /\ call[t].old # call[t].new
  BY DEF IInv, AllFit, Fits
<1>2. ASSUME NEW p \in {call[t].old, call[t].new}
      PROVE  Unmoved(p)' = fs'[p]
  <2>1. ASSUME NEW u \in Thread, pc'[u] \in Pending
        PROVE  call'[u].new # p
    <3>1. u # t /\ pc[u] \in Pending /\ call'[u] = call[u]
      BY <2>1 DEF Touches
    <3> QED BY <3>1 DEF IInv, PathsApart
  <2> QED BY <1>1, <2>1, ViewsNext DEF Views
<1>3. \A p \in Path \ {call[t].old, call[t].new} : Unmoved(p)' = Unmoved(p)
  BY ViewKept
<1>4. \A p \in Path : Rest[p] = Unmoved(p)
  BY DEF Rest
<1>5. Rest[call[t].new] = Behind(t) /\ Rest[call[t].old] = fs[call[t].old]
  BY <1>1, <1>4, View DEF Views
<1>6. Rest' = [p \in Path |-> IF p \in {call[t].old, call[t].new} THEN fs'[p] ELSE Rest[p]]
  BY <1>2, <1>3 DEF Rest
<1>7. Rest = [p \in Path |-> Rest[p]]
  BY DEF Rest
<1> HIDE DEF Rest
<1>8. Rest' = [Rest EXCEPT ![call[t].new] = fs'[call[t].new], ![call[t].old] = fs'[call[t].old]]
  BY <1>1, <1>6, <1>7
<1> QED BY <1>1, <1>5, <1>8

\* It returns success after a rename, an error when it left both as they were.
LEMMA ReturnsRight ==
  ASSUME IInv, IInv', NEW t \in Thread, Touches(t), pc[t] \in Pending, pc'[t] \notin Pending,
         NEW res, call' = [call EXCEPT ![t] = [Idle EXCEPT !.res = res]],
         \/ /\ res = "ok" /\ fs'[call[t].new] = fs[call[t].old] /\ fs'[call[t].old] = Absent
            /\ Unix!Replaces(fs[call[t].old], Behind(t))
         \/ /\ res \in Unix!Truth(fs[call[t].old], Behind(t))
            /\ fs'[call[t].new] = Behind(t) /\ fs'[call[t].old] = fs[call[t].old]
  PROVE  Unix!Rename(t)
<1>1. call[t].res = "pending"
  BY DEF IInv, AllFit, Fits
<1>2. /\ Rest' = [Rest EXCEPT ![call[t].new] = fs'[call[t].new], ![call[t].old] = fs'[call[t].old]]
      /\ call[t].old \in Path /\ call[t].new \in Path /\ call[t].old # call[t].new
      /\ Rest[call[t].new] = Behind(t) /\ Rest[call[t].old] = fs[call[t].old]
  BY Returns
<1>3. Rest = [p \in Path |-> Rest[p]]
  BY DEF Rest
<1>4. CASE /\ res = "ok" /\ fs'[call[t].new] = fs[call[t].old] /\ fs'[call[t].old] = Absent
           /\ Unix!Replaces(fs[call[t].old], Behind(t))
  <2>1. /\ Rest' = [Rest EXCEPT ![call[t].new] = Rest[call[t].old], ![call[t].old] = Absent]
        /\ Unix!Replaces(Rest[call[t].old], Rest[call[t].new])
    BY <1>2, <1>4
  <2> QED BY <1>1, <1>4, <2>1 DEF Unix!Rename, Unix!Idle, Idle, Rest
<1>5. CASE /\ res \in Unix!Truth(fs[call[t].old], Behind(t))
           /\ fs'[call[t].new] = Behind(t) /\ fs'[call[t].old] = fs[call[t].old]
  <2>1. Rest' = Rest /\ res \in Unix!Truth(Rest[call[t].old], Rest[call[t].new])
    <3> HIDE DEF Rest
    <3> QED BY <1>2, <1>3, <1>5
  <2> QED BY <1>1, <1>5, <2>1 DEF Unix!Rename, Unix!Idle, Idle, Rest
<1> QED BY <1>4, <1>5

\* The errors that are the truth.
LEMMA Truths ==
  ASSUME NEW o, NEW n
  PROVE  /\ {"EACCES", "EINVAL", "EXDEV"} \subseteq Unix!Truth(o, n)
         /\ o = Absent => "ENOENT" \in Unix!Truth(o, n)
         /\ IsFile(o) /\ n \in Dirs => "EISDIR" \in Unix!Truth(o, n)
         /\ o \in Dirs /\ IsFile(n) => "ENOTDIR" \in Unix!Truth(o, n)
         /\ o \in Dirs /\ n = FullDir => "EEXIST" \in Unix!Truth(o, n)
<1>1. Absent \notin Dirs /\ FullDir \in Dirs
  BY WinRenameAssumption DEF Dirs
<1>2. Unix!Dirs = Dirs /\ \A x : Unix!IsFile(x) <=> IsFile(x)
  BY DEF Unix!Dirs, Dirs, Unix!IsFile, IsFile
<1>3. {"EACCES", "EINVAL", "EXDEV"} \subseteq Unix!Truth(o, n)
  BY DEF Unix!Truth, Unix!Refusals
<1>4. ASSUME o = Absent PROVE "ENOENT" \in Unix!Truth(o, n)
  <2>1. ~Unix!IsFile(o) /\ o \notin Unix!Dirs
    BY <1>1, <1>2, <1>4 DEF IsFile
  <2> QED BY <1>4, <2>1 DEF Unix!Truth
<1>5. ASSUME IsFile(o), n \in Dirs PROVE "EISDIR" \in Unix!Truth(o, n)
  <2>1. o # Absent /\ Unix!IsFile(o) /\ n \in Unix!Dirs /\ o \notin Unix!Dirs
    BY <1>2, <1>5 DEF IsFile
  <2> QED BY <2>1 DEF Unix!Truth
<1>6. ASSUME o \in Dirs, IsFile(n) PROVE "ENOTDIR" \in Unix!Truth(o, n)
  <2>1. o # Absent /\ ~Unix!IsFile(o) /\ o \in Unix!Dirs /\ Unix!IsFile(n) /\ n # FullDir
    BY <1>1, <1>2, <1>6 DEF IsFile
  <2> QED BY <2>1 DEF Unix!Truth
<1>7. ASSUME o \in Dirs, n = FullDir PROVE "EEXIST" \in Unix!Truth(o, n)
  <2>1. o # Absent /\ ~Unix!IsFile(o) /\ o \in Unix!Dirs /\ ~Unix!IsFile(n)
    BY <1>1, <1>2, <1>7 DEF IsFile
  <2> QED BY <1>7, <2>1 DEF Unix!Truth
<1> QED BY <1>3, <1>4, <1>5, <1>6, <1>7

LEMMA StepSimulates ==
  ASSUME Counted = TRUE, Denies \cap {"retry", "remove", "restore"} = {}, RInv, IInv',
         NEW t \in Thread, StepOf(t)
  PROVE  Unix!Next \/ (Rest' = Rest /\ call' = call)
<1>1. /\ IInv /\ Types /\ Types' /\ Knows(t) /\ Touches(t)
      /\ Fits(pc[t], call[t], swap[t], fs, counter) /\ PathsApart'
  BY StepTouches DEF RInv, IInv, AllFit
<1>2. fs \in [Path \cup Swap -> Value] /\ DOMAIN pc = Thread /\ DOMAIN call = Thread
  BY <1>1 DEF Types
<1>3. Unix!Rename(t) => Unix!Next
  BY DEF Unix!Next
<1>4. ASSUME pc[t] \in Pending
      PROVE  call[t].old \in Path /\ call[t].new \in Path /\ call[t].old # call[t].new
  BY <1>1, <1>4 DEF Fits
<1>5. CASE \E old, new \in Path : Call(t, old, new)
  <2>1. PICK old \in Path, new \in Path : Call(t, old, new)
    BY <1>5
  <2>2. /\ pc[t] = "idle" /\ old # new /\ fs' = fs /\ pc'[t] = "move"
        /\ call' = [call EXCEPT ![t] = [old |-> old, new |-> new, res |-> "pending"]]
    BY <1>2, <2>1 DEF Call
  <2>3. pc[t] \notin Pending /\ pc'[t] \in Pending /\ call[t].res # "pending"
    BY <1>1, <2>2 DEF Pending, Fits
  <2>4. ASSUME NEW p \in Path PROVE Unmoved(p)' = Unmoved(p)
    <3>1. call'[t].old = old /\ call'[t].new = new
      BY <1>2, <2>2
    <3>2. CASE p \notin {old, new}
      BY <1>1, <2>3, <3>1, <3>2, ViewKept
    <3>3. CASE p \in {old, new}
      <4>1. ASSUME NEW u \in Thread, pc[u] \in Pending
            PROVE  call[u].new # p
        <5>1. u # t /\ pc'[u] \in Pending /\ call'[u] = call[u]
          BY <1>1, <2>3, <4>1 DEF Touches
        <5> QED BY <1>1, <2>3, <3>1, <3>3, <5>1 DEF PathsApart
      <4>2. Unmoved(p) = fs[p]
        BY <1>1, <4>1, View DEF Views
      <4>3. (Unmoved(call[t].new))' = Behind(t)' /\ (Unmoved(call[t].old))' = fs'[call'[t].old]
        BY <2>3, ViewsNext DEF Views
      <4>4. Behind(t)' = fs'[call'[t].new]
        BY <2>2 DEF Behind
      <4>5. p = old => Unmoved(p)' = (Unmoved(call[t].old))'
        BY <3>1
      <4>6. p = new => Unmoved(p)' = (Unmoved(call[t].new))'
        BY <3>1
      <4> QED BY <2>2, <3>1, <3>3, <4>2, <4>3, <4>4, <4>5, <4>6
    <3> QED BY <3>2, <3>3
  <2>5. Rest' = Rest
    BY <2>4 DEF Rest
  <2>6. Unix!Call(t, old, new)
    BY <2>2, <2>3, <2>5 DEF Unix!Call, Rest
  <2> QED BY <2>6 DEF Unix!Next
<1>6. CASE Move(t)
  <2> DEFINE old == call[t].old
             new == call[t].new
  <2>1. /\ pc[t] \in {"move", "retry"} /\ pc[t] \in Pending
        /\ old \in Path /\ new \in Path /\ old # new
        /\ Behind(t) = IF pc[t] = "retry" THEN EmptyDir ELSE fs[new]
        /\ pc[t] = "retry" => fs[old] \in Dirs /\ fs[new] = Absent
    BY <1>1, <1>4, <1>6 DEF Move, Pending, Behind, Knows
  <2>3. CASE Movable(old, new, FALSE) /\ Moved(old, new) /\ Return(t, "ok")
    <3>1. /\ pc'[t] \notin Pending /\ call' = [call EXCEPT ![t] = [Idle EXCEPT !.res = "ok"]]
          /\ fs[old] # Absent /\ fs[new] = Absent
          /\ fs' = [fs EXCEPT ![new] = fs[old], ![old] = Absent]
      BY <1>2, <2>3 DEF Return, Pending, Movable, Moved
    <3>2. fs'[new] = fs[old] /\ fs'[old] = Absent
      BY <1>2, <2>1, <3>1
    <3>3. Unix!Replaces(fs[old], Behind(t))
      <4>1. CASE pc[t] = "retry"
        <5>1. Behind(t) = EmptyDir /\ fs[old] \in Unix!Dirs
          BY <2>1, <4>1 DEF Unix!Dirs, Dirs
        <5> QED BY <5>1 DEF Unix!Replaces
      <4>2. CASE pc[t] # "retry"
        <5>1. Behind(t) = Absent /\ fs[old] # Absent
          BY <2>1, <3>1, <4>2
        <5> QED BY <5>1 DEF Unix!Replaces
      <4> QED BY <4>1, <4>2
    <3>4. pc'[t] \notin Pending /\ call' = [call EXCEPT ![t] = [Idle EXCEPT !.res = "ok"]]
      BY <3>1
    <3> QED BY <1>1, <1>3, <2>1, <3>2, <3>3, <3>4, ReturnsRight
  <2>4. CASE fs[old] = Absent /\ UNCHANGED fs /\ Return(t, "ENOENT")
    <3>1. pc'[t] \notin Pending /\ call' = [call EXCEPT ![t] = [Idle EXCEPT !.res = "ENOENT"]]
      BY <1>2, <2>4 DEF Return, Pending
    <3>2. pc[t] = "move" /\ Behind(t) = fs[new]
      BY <2>1, <2>4, WinRenameAssumption
    <3>3. "ENOENT" \in Unix!Truth(fs[old], Behind(t))
      BY <2>4, Truths
    <3>4. pc[t] \in Pending /\ fs'[new] = Behind(t) /\ fs'[old] = fs[old]
      BY <2>1, <2>4, <3>2
    <3> QED BY <1>1, <1>3, <3>1, <3>3, <3>4, ReturnsRight
  <2>5. CASE fs[old] # Absent /\ fs[new] # Absent /\ UNCHANGED fs /\ Goto(t, "classify")
    <3>1. pc'[t] = "classify" /\ pc'[t] \in Pending /\ call' = call /\ fs' = fs
      BY <1>2, <2>5 DEF Goto, Pending
    <3>2. Behind(t)' = Behind(t)
      BY <2>1, <2>5, <3>1 DEF Behind
    <3> QED BY <1>1, <2>1, <3>1, <3>2, Stutters
  <2>6. CASE Denied(t) /\ \E e \in {"EINVAL", "EXDEV", "EACCES"} : Return(t, e)
    <3>1. PICK e \in {"EINVAL", "EXDEV", "EACCES"} : Return(t, e)
      BY <2>6
    <3>2. pc'[t] \notin Pending /\ call' = [call EXCEPT ![t] = [Idle EXCEPT !.res = e]]
      BY <1>2, <3>1 DEF Return, Pending
    <3>3. fs' = fs /\ Behind(t) = fs[new]
      BY <2>1, <2>6 DEF Denied
    <3>4. e \in Unix!Truth(fs[old], Behind(t))
      BY Truths
    <3> QED BY <1>1, <1>3, <2>1, <3>2, <3>3, <3>4, ReturnsRight
  <2> QED BY <1>6, <2>3, <2>4, <2>5, <2>6 DEF Move
<1>7. CASE Classify(t)
  <2> DEFINE old == fs[call[t].old]
             new == fs[call[t].new]
  <2>1. /\ pc[t] \in Pending /\ fs' = fs /\ Behind(t) = new /\ old # Absent /\ new # Absent
    BY <1>1, <1>7 DEF Classify, Pending, Behind, Fits
  <2>2. \/ old \in Dirs /\ IsFile(new) /\ Return(t, "ENOTDIR")
        \/ IsFile(old) /\ new \in Dirs /\ Return(t, "EISDIR")
        \/ Goto(t, "remove") \/ Goto(t, "name")
    BY <1>7, <2>1 DEF Classify, IsFile
  <2>3. CASE Goto(t, "remove") \/ Goto(t, "name")
    <3>1. pc'[t] \in {"remove", "name"} /\ call' = call
      BY <1>2, <2>3 DEF Goto
    <3>2. Behind(t)' = new /\ pc'[t] \in Pending
      BY <2>1, <3>1 DEF Behind, Pending
    <3> QED BY <1>1, <2>1, <3>1, <3>2, Stutters
  <2>4. ASSUME NEW e \in {"ENOTDIR", "EISDIR"}, Return(t, e), e \in Unix!Truth(old, new)
        PROVE  Unix!Rename(t)
    <3>1. pc'[t] \notin Pending /\ call' = [call EXCEPT ![t] = [Idle EXCEPT !.res = e]]
      BY <1>2, <2>4 DEF Return, Pending
    <3>2. fs'[call[t].new] = Behind(t) /\ fs'[call[t].old] = old /\ e \in Unix!Truth(old, Behind(t))
      BY <2>1, <2>4
    <3> QED BY <1>1, <2>1, <3>1, <3>2, ReturnsRight
  <2>5. CASE old \in Dirs /\ IsFile(new) /\ Return(t, "ENOTDIR")
    BY <1>3, <2>4, <2>5, Truths
  <2>6. CASE IsFile(old) /\ new \in Dirs /\ Return(t, "EISDIR")
    BY <1>3, <2>4, <2>6, Truths
  <2> QED BY <2>2, <2>3, <2>5, <2>6
<1>8. CASE Remove(t)
  <2>1. /\ pc[t] = "remove" /\ pc[t] \in Pending /\ Behind(t) = fs[call[t].new]
        /\ fs[call[t].old] \in Dirs /\ fs[call[t].new] \in Dirs
    BY <1>1, <1>8 DEF Remove, Pending, Behind, Knows
  <2>2. \/ fs[call[t].new] = EmptyDir /\ fs' = [fs EXCEPT ![call[t].new] = Absent] /\ Goto(t, "retry")
        \/ fs[call[t].new] # EmptyDir /\ fs' = fs /\ Return(t, "EEXIST")
    BY <1>8, <2>1 DEF Remove, Denied
  <2>3. CASE fs[call[t].new] = EmptyDir /\ fs' = [fs EXCEPT ![call[t].new] = Absent] /\ Goto(t, "retry")
    <3>1. pc'[t] = "retry" /\ pc'[t] \in Pending /\ call' = call
      BY <1>2, <2>3 DEF Goto, Pending
    <3>2. fs'[call[t].old] = fs[call[t].old]
      BY <1>2, <1>4, <2>1, <2>3
    <3>3. Behind(t)' = Behind(t)
      BY <2>1, <2>3, <3>1 DEF Behind
    <3> QED BY <1>1, <2>1, <3>1, <3>2, <3>3, Stutters
  <2>4. CASE fs[call[t].new] # EmptyDir /\ fs' = fs /\ Return(t, "EEXIST")
    <3>1. pc'[t] \notin Pending /\ call' = [call EXCEPT ![t] = [Idle EXCEPT !.res = "EEXIST"]]
      BY <1>2, <2>4 DEF Return, Pending
    <3>2. Behind(t) = FullDir
      BY <2>1, <2>4 DEF Dirs
    <3>3. "EEXIST" \in Unix!Truth(fs[call[t].old], Behind(t))
      BY <2>1, <3>2, Truths
    <3>4. fs'[call[t].new] = Behind(t) /\ fs'[call[t].old] = fs[call[t].old]
      BY <2>1, <2>4
    <3> QED BY <1>1, <1>3, <2>1, <3>1, <3>3, <3>4, ReturnsRight
  <2> QED BY <2>2, <2>3, <2>4
<1>9. CASE MakeName(t) \/ Count(t)
  <2>1. /\ pc[t] \in {"name", "count"} /\ pc'[t] \in {"count", "swap"} /\ call' = call /\ fs' = fs
    BY <1>2, <1>9 DEF MakeName, Count, Goto
  <2>2. pc[t] \in Pending /\ pc'[t] \in Pending /\ Behind(t)' = Behind(t)
    BY <2>1 DEF Pending, Behind
  <2> QED BY <1>1, <2>1, <2>2, Stutters
<1>10. CASE SwapOut(t)
  <2>1. /\ pc[t] = "swap" /\ pc[t] \in Pending /\ swap[t] \in Swap /\ Behind(t) = fs[call[t].new]
        /\ pc'[t] \in {"replace", "giveup"} /\ pc'[t] \in Pending /\ call' = call /\ swap' = swap
    BY <1>1, <1>2, <1>10 DEF SwapOut, Pending, Fits, Owning, Behind, Goto
  <2>2. \/ pc'[t] = "giveup" /\ fs' = fs
        \/ /\ pc'[t] = "replace"
           /\ fs' = [fs EXCEPT ![swap[t]] = fs[call[t].new], ![call[t].new] = Absent]
    BY <1>2, <1>10 DEF SwapOut, Goto, Moved, Denied
  <2>3. call[t].old \in Path /\ call[t].new \in Path /\ call[t].old # call[t].new
    BY <1>4, <2>1
  <2>4. fs'[call[t].old] = fs[call[t].old]
    BY <1>2, <2>1, <2>2, <2>3, PathsAndSwaps
  <2>5. CASE pc'[t] = "giveup" /\ fs' = fs
    <3>1. Behind(t)' = Behind(t)
      BY <2>1, <2>5 DEF Behind
    <3> QED BY <1>1, <2>1, <2>4, <3>1, Stutters
  <2>6. CASE /\ pc'[t] = "replace"
             /\ fs' = [fs EXCEPT ![swap[t]] = fs[call[t].new], ![call[t].new] = Absent]
    <3>1. fs'[swap[t]] = fs[call[t].new]
      BY <1>2, <2>1, <2>3, <2>6, PathsAndSwaps
    <3>2. Behind(t)' = Behind(t)
      BY <2>1, <2>6, <3>1 DEF Behind
    <3> QED BY <1>1, <2>1, <2>4, <3>2, Stutters
  <2> QED BY <2>2, <2>5, <2>6
<1>11. CASE Replace(t)
  <2> DEFINE old == call[t].old
             new == call[t].new
  <2>1. /\ pc[t] = "replace" /\ pc[t] \in Pending /\ Behind(t) = fs[swap[t]] /\ IsFile(fs[swap[t]])
        /\ IsFile(fs[old]) /\ swap' = swap
    BY <1>1, <1>11 DEF Replace, Pending, Behind, Fits, Holding, Knows
  <2>2. old \in Path /\ new \in Path /\ old # new
    BY <1>4, <2>1
  <2>3. \/ /\ pc'[t] = "tidy" /\ call' = [call EXCEPT ![t] = [Idle EXCEPT !.res = "ok"]]
           /\ fs' = [fs EXCEPT ![new] = fs[old], ![old] = Absent]
        \/ pc'[t] = "restore" /\ fs' = fs /\ call' = call
    BY <1>2, <1>11 DEF Replace, Goto, Denied, Moved
  <2>4. CASE /\ pc'[t] = "tidy" /\ call' = [call EXCEPT ![t] = [Idle EXCEPT !.res = "ok"]]
             /\ fs' = [fs EXCEPT ![new] = fs[old], ![old] = Absent]
    <3>1. fs'[new] = fs[old] /\ fs'[old] = Absent
      BY <1>2, <2>2, <2>4
    <3>2. pc'[t] \notin Pending /\ call' = [call EXCEPT ![t] = [Idle EXCEPT !.res = "ok"]]
      BY <2>4 DEF Pending
    <3>3. Unix!Replaces(fs[old], Behind(t))
      <4>1. Unix!IsFile(fs[old]) /\ Unix!IsFile(Behind(t))
        BY <2>1 DEF Unix!IsFile, IsFile, Unix!Dirs, Dirs
      <4> QED BY <4>1 DEF Unix!Replaces
    <3> QED BY <1>1, <1>3, <2>1, <3>1, <3>2, <3>3, ReturnsRight
  <2>5. CASE pc'[t] = "restore" /\ fs' = fs /\ call' = call
    <3>1. pc'[t] \in Pending /\ Behind(t)' = Behind(t)
      BY <2>1, <2>5 DEF Pending, Behind
    <3> QED BY <1>1, <2>1, <2>5, <3>1, Stutters
  <2> QED BY <2>3, <2>4, <2>5
<1>12. CASE Tidy(t)
  <2>1. /\ pc[t] \in {"tidy", "giveup"} /\ swap[t] \in Swap /\ pc'[t] = "idle"
        /\ call' = [call EXCEPT ![t] = [Idle EXCEPT !.res = IF pc[t] = "tidy" THEN "ok" ELSE "EACCES"]]
        /\ fs' = [fs EXCEPT ![swap[t]] = IF IsFile(@) THEN Absent ELSE @]
    BY <1>1, <1>2, <1>12 DEF Tidy, Return, Deleted, Fits, Owning, Holding
  <2>2. \A p \in Path : fs'[p] = fs[p]
    BY <1>2, <2>1, PathsAndSwaps
  <2>3. CASE pc[t] = "tidy"
    <3>1. pc[t] \notin Pending /\ pc'[t] \notin Pending
      BY <2>1, <2>3 DEF Pending
    <3>2. Rest' = Rest
      BY <1>1, <3>1, ViewKept DEF Rest
    <3>3. call[t] = [Idle EXCEPT !.res = "ok"] /\ call = [call EXCEPT ![t] = call[t]]
      BY <1>1, <2>3 DEF Knows, Types
    <3>4. call' = call
      BY <2>1, <2>3, <3>3
    <3> QED BY <3>2, <3>4
  <2>4. CASE pc[t] = "giveup"
    <3>1. /\ pc[t] \in Pending /\ pc'[t] \notin Pending /\ Behind(t) = fs[call[t].new]
          /\ call' = [call EXCEPT ![t] = [Idle EXCEPT !.res = "EACCES"]]
      BY <2>1, <2>4 DEF Pending, Behind
    <3>2. fs'[call[t].new] = Behind(t) /\ fs'[call[t].old] = fs[call[t].old]
      BY <1>4, <2>2, <3>1
    <3>3. "EACCES" \in Unix!Truth(fs[call[t].old], Behind(t))
      BY Truths
    <3> QED BY <1>1, <1>3, <3>1, <3>2, <3>3, ReturnsRight
  <2> QED BY <2>1, <2>3, <2>4
<1>13. CASE Restore(t)
  <2> DEFINE old == call[t].old
             new == call[t].new
  <2>1. /\ pc[t] = "restore" /\ pc[t] \in Pending /\ Behind(t) = fs[swap[t]] /\ IsFile(fs[swap[t]])
        /\ fs[new] = Absent /\ swap[t] \in Swap
        /\ pc'[t] = "idle" /\ call' = [call EXCEPT ![t] = [Idle EXCEPT !.res = "EACCES"]]
    BY <1>1, <1>2, <1>13 DEF Restore, Return, Pending, Behind, Fits, Holding, Owning
  <2>2. old \in Path /\ new \in Path /\ old # new
    BY <1>4, <2>1
  <2>3. fs' = [fs EXCEPT ![new] = fs[swap[t]], ![swap[t]] = Absent]
    <3>1. Movable(swap[t], new, FALSE)
      BY <2>1 DEF Movable, IsFile
    <3>2. ~Denied(t)
      BY <2>1 DEF Denied
    <3> QED BY <1>13, <3>1, <3>2 DEF Restore, Moved
  <2>4. fs'[new] = Behind(t) /\ fs'[old] = fs[old]
    BY <1>2, <2>1, <2>2, <2>3, PathsAndSwaps
  <2>5. "EACCES" \in Unix!Truth(fs[old], Behind(t))
    BY Truths
  <2>6. pc'[t] \notin Pending /\ call' = [call EXCEPT ![t] = [Idle EXCEPT !.res = "EACCES"]]
    BY <2>1 DEF Pending
  <2> QED BY <1>1, <1>3, <2>1, <2>4, <2>5, <2>6, ReturnsRight
<1> QED BY <1>5, <1>6, <1>7, <1>8, <1>9, <1>10, <1>11, <1>12, <1>13 DEF StepOf

\* WinRename implements AtomicRename: behind the windows each rename replaces
\* or leaves both paths in one step, and the error it returns is the truth,
\* for any number of threads and files.
THEOREM RenameIsAtomic ==
  ASSUME Counted = TRUE, Denies \cap {"retry", "remove", "restore"} = {}
  PROVE  Spec => Implements
<1>1. Init => RInv
  BY InitIInv DEF RInv, Knows, Init
<1>2. RInv /\ [Next]_vars => RInv' /\ (Unix!Next \/ (Rest' = Rest /\ call' = call))
  <2> SUFFICES ASSUME RInv, [Next]_vars
               PROVE  RInv' /\ (Unix!Next \/ (Rest' = Rest /\ call' = call))
    OBVIOUS
  <2>1. IInv
    BY DEF RInv
  <2>2. CASE UNCHANGED vars
    BY <2>1, <2>2 DEF vars, RInv, IInv, Types, AllFit, PathsApart, NamesApart, SwapsFree, Knows,
                      Rest, Unmoved, Running
  <2>3. CASE Next
    <3>1. PICK t \in Thread : StepOf(t)
      BY <2>3 DEF Next, StepOf
    <3>2. IInv'
      BY <2>1, <3>1, CallStep, MoveStep, ClassifyStep, RemoveStep, MakeNameStep, CountStep,
         SwapOutStep, ReplaceStep, TidyStep, RestoreStep DEF StepOf
    <3> QED BY <3>1, <3>2, KnowsStep, StepSimulates
  <2> QED BY <2>2, <2>3
<1>3. Init => Unix!Init
  <2> SUFFICES ASSUME Init PROVE Unix!Init
    OBVIOUS
  <2>1. Running = {} /\ call = [t \in Thread |-> Unix!Idle]
    BY DEF Init, Running, Idle, Unix!Idle
  <2>2. \A p \in Path : Unmoved(p) = fs[p]
    BY <2>1 DEF Unmoved
  <2>3. \A p \in Path : fs[p] \in {Absent} \cup Unix!Dirs \cup Path
    BY PathsAndSwaps DEF Init, Unix!Dirs
  <2>4. Rest \in [Path -> {Absent} \cup Unix!Dirs \cup Path]
    BY <2>2, <2>3 DEF Rest
  <2> QED BY <2>1, <2>4 DEF Unix!Init, Rest
<1>4. (Unix!Next \/ (Rest' = Rest /\ call' = call)) => [Unix!Next]_Unix!vars
  BY DEF Unix!vars, Rest
<1> QED BY <1>1, <1>2, <1>3, <1>4, PTL DEF Spec, Implements, Unix!Spec
=============================================================================
