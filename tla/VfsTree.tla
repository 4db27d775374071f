------------------------------ MODULE VfsTree -------------------------------
(***************************************************************************)
(* Paths under /__gleepack__/ in unix_prim_file.c.  The index knows files  *)
(* only: a directory is a prefix of a name, found by comparing characters. *)
(***************************************************************************)
EXTENDS Executable

\* The trailing slashes of a path do not count.
Strip(path) ==
  SubSeq(path, 1, CHOOSE n \in 0 .. Len(path) :
                    /\ \A i \in n + 1 .. Len(path) : path[i] = Slash
                    /\ n = 0 \/ path[n] # Slash)

\* Mutation: what begins with the same characters is below it.
CheckPrefixChars(name, dir) == IsPrefix(dir, name)

\* check_prefix: name is dir or begins with dir and a slash.
CheckPrefix(name, dir) ==
  IsPrefix(dir, name) /\ (Len(name) = Len(dir) \/ name[Len(dir) + 1] = Slash)

\* efile_read_info.
ReadInfo(index, path) ==
  IF Lookup(index, path) # None THEN "regular"
  ELSE IF \E i \in DOMAIN index : CheckPrefix(index[i].name, Strip(path)) THEN "directory"
  ELSE "enoent"

\* list_dir_collect: the component of name behind dir, in no or one element.
Child(name, dir) ==
  LET from == IF dir = <<>> THEN 1 ELSE Len(dir) + 2
      slashes == {i \in from .. Len(name) : name[i] = Slash}
      to == IF slashes = {} THEN Len(name) ELSE (CHOOSE i \in slashes : \A j \in slashes : i <= j) - 1
  IN IF dir # <<>> /\ ~(IsPrefix(dir, name) /\ Len(name) > Len(dir) /\ name[Len(dir) + 1] = Slash)
     THEN <<>>
     ELSE IF from > Len(name) THEN <<>> ELSE <<SubSeq(name, from, to)>>

\* strcmp.
Before(s, t) ==
  \E n \in 0 .. Len(s) : /\ n < Len(t) /\ SubSeq(s, 1, n) = SubSeq(t, 1, n)
                         /\ n = Len(s) \/ s[n + 1] < t[n + 1]

\* qsort with cmp_str.
Sort(names) ==
  LET order == CHOOSE f \in Bijection(DOMAIN names, DOMAIN names) :
                 \A i, j \in DOMAIN names : i < j => ~Before(names[f[j]], names[f[i]])
  IN [i \in DOMAIN names |-> names[order[i]]]

\* From the last to the first, leaving out what begins with the one before:
\* in this order only another copy of it does.
Dedup(names) ==
  LET n == Len(names)
      kept[k \in 0 .. n] ==
        IF k = 0 THEN <<>>
        ELSE LET name == names[n + 1 - k]
             IN IF kept[k - 1] # <<>> /\ IsPrefix(Head(kept[k - 1]), name) THEN kept[k - 1]
                ELSE <<name>> \o kept[k - 1]
  IN kept[n]

\* efile_list_dir.
ListDir(index, path) ==
  LET dir == Strip(path)
      names == FlattenSeq([i \in DOMAIN index |-> Child(index[i].name, dir)])
  IN IF names = <<>> THEN "enoent" ELSE Dedup(Sort(names))
=============================================================================
