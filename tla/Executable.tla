----------------------------- MODULE Executable -----------------------------
(***************************************************************************)
(* What gleepack_entry.c makes of the file it runs from: where the archive *)
(* behind the runtime begins, the index of its entries, the arguments the  *)
(* emulator is started with.  A file is a sequence of units: pieces of     *)
(* code, local headers with their data, central directory headers and the  *)
(* end record; offsets count units.  Names are sequences of characters.    *)
(***************************************************************************)
EXTENDS Integers, Sequences, SequencesExt, FiniteSets

CONSTANTS Window,      \* how far back the end record may be
          MaxEntries,  \* 10000
          MaxName,     \* 254
          MaxSize,     \* 100 MB
          None, Corrupt

Least(S) == CHOOSE x \in S : \A y \in S : x <= y
Smaller(a, b) == IF a <= b THEN a ELSE b

Nul == 0
Slash == 47

\* The name of an entry is its path, the components joined with slashes.
Join(path) ==
  FlattenSeq([i \in DOMAIN path |-> IF i = 1 THEN path[i] ELSE <<Slash>> \o path[i]])

Unit ==
  [is : {"code"}] \cup [is : {"local"}, data : Seq(Nat)]
  \cup [is : {"central"}, name : Seq(Nat), local : Nat, deflated : BOOLEAN, size : Nat]
  \cup [is : {"end"}, entries : Nat, size : Nat, offset : Nat]

\* The zip archive of a release behind the code of the runtime.
Release(code, entries) ==
  LET n == Len(entries)
      local(i) == [is |-> "local", data |-> entries[i].data]
      central(i) == [is |-> "central", name |-> Join(entries[i].path), local |-> i - 1,
                     deflated |-> entries[i].deflated, size |-> Len(entries[i].data)]
  IN code \o [i \in 1 .. n |-> local(i)]
     \o [i \in 1 .. n |-> central(i)]
     \o <<[is |-> "end", entries |-> n, size |-> n, offset |-> n]>>

\* Backwards from the end, the first record that could be one.
EndRecords(map) ==
  {p \in 1 .. Len(map) : /\ p > Len(map) - Window /\ map[p].is = "end"
                         /\ map[p].offset < p /\ map[p].size < p}

\* Mutation: the first of them.
FindEocdForward(map) ==
  LET p == CHOOSE x \in EndRecords(map) : \A y \in EndRecords(map) : x <= y
      e == map[p]
  IN [start |-> (p - 1) - e.size - e.offset, cd |-> e.offset, entries |-> e.entries]

FindEocd(map) ==
  LET p == CHOOSE x \in EndRecords(map) : \A y \in EndRecords(map) : y <= x
      e == map[p]
  IN [start |-> (p - 1) - e.size - e.offset, cd |-> e.offset, entries |-> e.entries]

\* hash_put keeps the entry it has.
Put(index, entry) ==
  IF \E i \in DOMAIN index : index[i].name = entry.name THEN index ELSE Append(index, entry)

Entry(u, start, map) ==
  [name |-> SubSeq(u.name, 1, Smaller(MaxName, Len(u.name))),
   deflated |-> u.deflated, data |-> map[start + u.local + 1].data]

\* One entry after the other, none of them too large.  A name that is cut
\* moves what follows it too: the next header is not where it is looked for.
ParseCentralDirectory(map, at) ==
  LET unit(i) == map[at.start + at.cd + i]
      there(i) == /\ at.start + at.cd + i \in 1 .. Len(map) /\ unit(i).is = "central"
                  /\ unit(i).size <= MaxSize
                  /\ i > 1 => Len(unit(i - 1).name) <= MaxName
      index[i \in 0 .. at.entries] ==
        IF i = 0 THEN <<>> ELSE Put(index[i - 1], Entry(unit(i), at.start, map))
  IN IF at.entries > MaxEntries \/ \E i \in 1 .. at.entries : ~there(i) THEN Corrupt
     ELSE index[at.entries]

\* gleepack_vfs_init once the file is mapped: None without an archive, Corrupt
\* where it exits.
VfsInit(map) ==
  IF EndRecords(map) = {} THEN None ELSE ParseCentralDirectory(map, FindEocd(map))

Lookup(index, name) ==
  LET found == {i \in DOMAIN index : index[i].name = name}
  IN IF found = {} THEN None ELSE index[CHOOSE i \in found : TRUE]

-----------------------------------------------------------------------------
(* Arguments.                                                              *)

\* emu_args.render.
Render(tokens) == FlattenSeq([i \in DOMAIN tokens |-> Append(tokens[i], Nul)])

\* parse_erl_args: as many tokens as NULs, the first from the first byte on
\* and each other behind a NUL.  No token stands for the NULL of an empty file.
ParseErlArgs(data) ==
  LET nuls == {i \in DOMAIN data : data[i] = Nul}
      next(i) == Least({j \in nuls : i <= j})
      from[i \in 1 .. Cardinality(nuls)] == IF i = 1 THEN 1 ELSE next(from[i - 1]) + 1
  IN [i \in 1 .. Cardinality(nuls) |-> SubSeq(data, from[i], next(from[i]) - 1)]

\* The flags main puts between those of the file and the program's own.
Structural(home, progname) ==
  <<"-home", IF home = None THEN "/" ELSE home, "-progname", progname, "-extra">>

\* What erl_start gets, without even a name where main exits.
Argv(index, raw, argv, home, erlArgs, defaults) ==
  IF index = None \/ raw THEN argv
  ELSE LET entry == Lookup(index, erlArgs)
           args == IF entry = None THEN defaults ELSE ParseErlArgs(entry.data)
       IN IF args = <<>> THEN <<>>
          ELSE <<argv[1]>> \o args \o Structural(home, argv[1]) \o Tail(argv)
=============================================================================
