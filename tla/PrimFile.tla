------------------------------ MODULE PrimFile ------------------------------
(***************************************************************************)
(* The runtime of an executable: gleepack_entry.c boots it, and Erlang     *)
(* processes use files through unix_prim_file.c, the archive's and those   *)
(* of the system.  Each call is one step, but where schedulers interleave  *)
(* (a file is inflated for all of them) and where it takes several system  *)
(* calls (the loops of the vectored reads and writes).                     *)
(***************************************************************************)
EXTENDS VfsTree

CONSTANTS Proc,
          Launches,              \* executables, how they are started and what
                                 \* the processes of the program open
          ErlArgs, Defaults,     \* the name erl_args, the built-in tokens
          Disk, Zmap,
          ReadIovs, WriteIovs,   \* the lengths of the buffers of a call
          Offsets,               \* of pread, pwrite and seek
          IovMax,                \* IOV_MAX
          MaxFile,               \* bound: how long the file of the disk grows
          Fd                     \* the descriptors a process may have

ASSUME RuntimeAssumption == /\ Fd \subseteq Nat /\ IsFiniteSet(Fd)
                            /\ IovMax \in Nat \ {0} /\ MaxFile \in Nat
                            /\ Offsets \subseteq Int /\ \A offset \in Offsets : offset <= MaxFile
                            /\ Proc # {} /\ IsFiniteSet(Proc)
                            /\ Zmap \notin Proc \cup {None}

Name == Seq(Nat)
Entries == [name : Name, deflated : BOOLEAN, data : Seq(Nat)]
Handles ==
  [kind : {"anon"}, name : Name, buf : Proc \cup {Zmap}, pos : Nat, fd : Fd \cup {None}]
  \cup [kind : {"file"}, modes : SUBSET {"read", "write", "append", "excl"}, pos : Nat, fd : Fd]

\* None is neither a descriptor nor an open file, neither an entry nor the
\* name of a process; it and Corrupt are not the index of an archive.
ASSUME NoneAssumption ==
  /\ None \notin Fd \cup Handles \cup Proc \cup Entries
  /\ None \notin Seq(Entries) /\ Corrupt \notin Seq(Entries) \cup {None}

\* The callers of the vectored calls give no buffer to read that is empty
\* but in the last places, and not as many empty ones to write as a system
\* call takes before one that is not.
ASSUME IovAssumption ==
  /\ ReadIovs \cup WriteIovs \subseteq Seq(Nat)
  /\ \A lens \in ReadIovs : \A i \in DOMAIN lens : lens[i] > 0 => \A j \in 1 .. i : lens[j] > 0
  /\ \A lens \in WriteIovs : \A i, j \in DOMAIN lens :
       i <= j /\ lens[j] > 0 => \E k \in i .. j : k < i + IovMax /\ lens[k] > 0

Cut(name) == SubSeq(name, 1, Smaller(MaxName, Len(name)))
Token == Seq(Nat \ {Nul})

\* The components of a path have a character and no slash.
ASSUME PathAssumption ==
  \A l \in {x \in Launches : x.entries # None} : \A i \in DOMAIN l.entries :
    LET path == l.entries[i].path
    IN path # <<>> /\ \A j \in DOMAIN path : path[j] \in Seq(Nat \ {Slash}) \ {<<>>}

\* The runtime holds no record that could be the end of an archive behind its
\* last byte, and erl_args is what the compiler makes of the flags.
ASSUME LaunchAssumption ==
  /\ Window \in Nat \ {0} /\ MaxEntries \in Nat /\ MaxName \in Nat /\ MaxSize \in Nat
  /\ Defaults \in Seq(Token) \ {<<>>}
  /\ \A l \in Launches :
       /\ l.code \in Seq(Unit)
       /\ l.argv \in Seq(STRING) \ {<<>>} /\ l.home \in {None} \cup STRING
       /\ IF l.entries = None THEN EndRecords(l.code) = {}
          ELSE /\ l.entries \in Seq([path : Seq(Name), deflated : BOOLEAN, data : Seq(Nat)])
               /\ \A i \in DOMAIN l.entries : Cut(Join(l.entries[i].path)) = ErlArgs =>
                    l.tokens \in Seq(Token) \ {<<>>} /\ l.entries[i].data = Render(l.tokens)

VARIABLES launch, phase, index, argv,
          cached,    \* cached_data of each entry: None, Zmap or who inflated it
          filled,    \* <<name, p>>: the buffer of p holds what the entry holds
          handle,    \* the open file of each process
          op,        \* its call under way
          last,      \* the call it finished last
          mem,       \* the cells its iovec points to
          disk,      \* a file of its own
          fds,       \* what each descriptor is
          sockets    \* descriptors sockets have taken

boot == <<launch, phase, index, argv>>
cache == <<cached, filled>>
calls == <<op, last, mem>>
descriptors == <<fds, sockets>>
vars == <<boot, cache, handle, calls, disk, descriptors>>

\* The lengths of the first buffers together.
Upto(lens) ==
  LET upto[i \in 0 .. Len(lens)] == IF i = 0 THEN 0 ELSE upto[i - 1] + lens[i] IN upto
Total(lens) == Upto(lens)[Len(lens)]

-----------------------------------------------------------------------------
(* Boot.                                                                   *)

Image == IF launch.entries = None THEN launch.code ELSE Release(launch.code, launch.entries)

Init ==
  /\ launch \in Launches /\ phase = "start" /\ index = None /\ argv = None
  /\ cached = <<>> /\ filled = {}
  /\ handle = [p \in Proc |-> None] /\ op = [p \in Proc |-> None]
  /\ last = [p \in Proc |-> None] /\ mem = [p \in Proc |-> <<>>]
  /\ disk = [p \in Proc |-> None]
  /\ fds = [f \in Fd |-> "closed"] /\ sockets = {}

\* The entry erl_args is read, and so cached, before the emulator starts.
\* The buffer it is inflated to has the name of one of the processes.
CachedAtBoot(at) ==
  LET names == IF at = None THEN {} ELSE {at[i].name : i \in DOMAIN at}
      buffer(name) == IF Lookup(at, name).deflated THEN CHOOSE p \in Proc : TRUE ELSE Zmap
  IN [name \in names |-> IF name = ErlArgs /\ ~launch.raw THEN buffer(name) ELSE None]

Boot ==
  LET found == VfsInit(Image)
      args == IF found = Corrupt THEN <<>>
              ELSE Argv(found, launch.raw, launch.argv, launch.home, ErlArgs, Defaults)
      Exits == /\ args = <<>>
               /\ phase' = "exited" /\ UNCHANGED <<index, argv, cache>>
      Starts == /\ args # <<>>
                /\ phase' = "booted" /\ index' = found /\ argv' = args
                /\ cached' = CachedAtBoot(found)
                /\ filled' = {<<name, cached'[name]>> :
                                name \in {n \in DOMAIN cached' : cached'[n] \in Proc}}
  IN /\ phase = "start"
     /\ Exits \/ Starts
     /\ UNCHANGED <<launch, handle, calls, disk, descriptors>>

\* The executable cannot be opened, measured or mapped; or there is no memory
\* for the arguments, or erl_args cannot be inflated.
BootFails ==
  /\ phase = "start" /\ phase' = "failed"
  /\ UNCHANGED <<launch, index, argv, cache, handle, calls, disk, descriptors>>

ErlStart ==
  /\ phase = "booted" /\ phase' = "running"
  /\ UNCHANGED <<launch, index, argv, cache, handle, calls, disk, descriptors>>

-----------------------------------------------------------------------------
(* Opening and closing.                                                    *)

Idle(p) == phase = "running" /\ op[p] = None
Vfs(p) == Idle(p) /\ handle[p] # None /\ handle[p].kind = "anon"
File(p) == Idle(p) /\ handle[p] # None /\ handle[p].kind = "file"

Free == {f \in Fd : fds[f] = "closed"}
Failed == [n |-> -1]
Returns(p, r) == last' = [last EXCEPT ![p] = r]
Handle(p, h) == handle' = [handle EXCEPT ![p] = h]

VfsHandle(name, buf) ==
  [kind |-> "anon", name |-> name, buf |-> buf, pos |-> 0, fd |-> None]

\* efile_open and gleepack_vfs_get_data up to the inflation.
OpenVfs(p, name) ==
  LET entry == IF index = None THEN None ELSE Lookup(index, name)
      Missing == entry = None /\ Returns(p, Failed) /\ UNCHANGED <<handle, op, cached>>
      Cached == /\ entry # None /\ cached[name] # None
                /\ Handle(p, VfsHandle(name, cached[name]))
                /\ Returns(p, None) /\ UNCHANGED <<op, cached>>
      Stored == /\ entry # None /\ cached[name] = None /\ ~entry.deflated
                /\ cached' = [cached EXCEPT ![name] = Zmap]
                /\ Handle(p, VfsHandle(name, Zmap))
                /\ Returns(p, None) /\ UNCHANGED op
      Deflated == /\ entry # None /\ cached[name] = None /\ entry.deflated
                  /\ op' = [op EXCEPT ![p] = [do |-> "inflate", name |-> name]]
                  /\ Returns(p, None) /\ UNCHANGED <<handle, cached>>
  IN /\ Idle(p) /\ handle[p] = None
     /\ Missing \/ Cached \/ Stored \/ Deflated
     /\ UNCHANGED <<boot, filled, mem, disk, descriptors>>

Opening(p, at) == phase = "running" /\ op[p] # None /\ op[p].do = at

Inflate(p) ==
  /\ Opening(p, "inflate")
  /\ filled' = filled \cup {<<op[p].name, p>>}
  /\ op' = [op EXCEPT ![p].do = "publish"]
  /\ UNCHANGED <<boot, cached, handle, last, mem, disk, descriptors>>

\* No memory for the buffer or for zlib, or data it cannot inflate: the whole
\* emulator exits.
InflateFails(p) ==
  /\ Opening(p, "inflate")
  /\ phase' = "failed"
  /\ UNCHANGED <<launch, index, argv, cache, handle, calls, disk, descriptors>>

Publish(p) ==
  /\ Opening(p, "publish")
  /\ cached' = [cached EXCEPT ![op[p].name] = p]
  /\ op' = [op EXCEPT ![p].do = "return"]
  /\ UNCHANGED <<boot, filled, handle, last, mem, disk, descriptors>>

\* What is returned is read again: it may be the buffer of another process.
Return(p) ==
  /\ Opening(p, "return")
  /\ Handle(p, VfsHandle(op[p].name, cached[op[p].name]))
  /\ op' = [op EXCEPT ![p] = None]
  /\ UNCHANGED <<boot, cache, last, mem, disk, descriptors>>

\* get_flags: what open(2) is asked beside the access.
GetFlags(modes) ==
  LET writes == "write" \in modes
      reads == "read" \in modes
  IN ((IF writes THEN {"creat"} ELSE {}) \cup (IF writes /\ ~reads THEN {"trunc"} ELSE {})
       \cup (modes \cap {"append", "excl"})) \ (IF "append" \in modes THEN {"trunc"} ELSE {})

Modes == {{"read"}, {"write"}, {"read", "write"}, {"write", "append"}, {"write", "excl"}}

OpenFile(p, modes) ==
  LET flags == GetFlags(modes)
      fd == Least(Free)
      Refused == /\ \/ disk[p] = None /\ "creat" \notin flags
                    \/ disk[p] # None /\ "excl" \in flags
                    \/ Free = {}
                 /\ Returns(p, Failed) /\ UNCHANGED <<handle, disk, fds>>
      Opened == /\ disk[p] # None \/ "creat" \in flags
                /\ disk[p] = None \/ "excl" \notin flags
                /\ Free # {}
                /\ fds' = [fds EXCEPT ![fd] = "file"]
                /\ disk' = [disk EXCEPT ![p] = IF disk[p] = None \/ "trunc" \in flags THEN <<>> ELSE @]
                /\ Handle(p, [kind |-> "file", modes |-> modes, pos |-> 0, fd |-> fd])
                /\ Returns(p, None)
  IN /\ Idle(p) /\ handle[p] = None
     /\ Refused \/ Opened
     /\ UNCHANGED <<boot, cache, op, mem, sockets>>

\* The descriptor made for sendfile is closed with the file it was made for.
Close(p) ==
  /\ Idle(p) /\ handle[p] # None
  /\ fds' = [f \in Fd |-> IF f = handle[p].fd THEN "closed" ELSE fds[f]]
  /\ Handle(p, None) /\ Returns(p, None)
  /\ mem' = [mem EXCEPT ![p] = <<>>]
  /\ UNCHANGED <<boot, cache, op, disk, sockets>>

-----------------------------------------------------------------------------
(* Descriptors for sendfile.                                               *)

\* vfs_make_anon_fd with the kernel's choice of a number; None if it fails.
MakeAnonFd(free) == (IF free = {} THEN {} ELSE {Least(free)}) \cup {None}

\* Mutation: the descriptor of the call before is forgotten.
GetHandleAgain(p) ==
  /\ Vfs(p)
  /\ Free # {}
  /\ fds' = [fds EXCEPT ![Least(Free)] = "anon"]
  /\ Handle(p, [handle[p] EXCEPT !.fd = Least(Free)])
  /\ Returns(p, None)
  /\ UNCHANGED <<boot, cache, op, mem, disk, sockets>>

\* efile_get_handle: the one of the call before is closed first.
GetHandle(p) ==
  LET closed == [f \in Fd |-> IF f = handle[p].fd THEN "closed" ELSE fds[f]]
  IN /\ Vfs(p)
     /\ \E fd \in MakeAnonFd({f \in Fd : closed[f] = "closed"}) :
          /\ fds' = [f \in Fd |-> IF f = fd THEN "anon" ELSE closed[f]]
          /\ Handle(p, [handle[p] EXCEPT !.fd = fd])
     /\ Returns(p, None)
     /\ UNCHANGED <<boot, cache, op, mem, disk, sockets>>

\* efile_dup_handle: the socket owns what it gets.
DupHandle(p) ==
  /\ Vfs(p) \/ File(p)
  /\ Free # {}
  /\ fds' = [fds EXCEPT ![Least(Free)] = handle[p].kind]
  /\ sockets' = sockets \cup {Least(Free)}
  /\ Returns(p, None)
  /\ UNCHANGED <<boot, cache, handle, op, mem, disk>>

SocketCloses(f) ==
  /\ phase = "running" /\ f \in sockets
  /\ sockets' = sockets \ {f} /\ fds' = [fds EXCEPT ![f] = "closed"]
  /\ UNCHANGED <<boot, cache, handle, calls, disk>>

-----------------------------------------------------------------------------
(* Files of the archive.                                                   *)

\* What the buffer of a handle holds.
Contents(p) ==
  LET h == handle[p]
      data == Lookup(index, h.name).data
  IN IF h.buf = Zmap \/ <<h.name, h.buf>> \in filled THEN data ELSE [i \in DOMAIN data |-> None]

\* The loop over the iovec ends at the first element that takes nothing.
Copied(lens, avail) ==
  LET stops == {i \in 1 .. Len(lens) : lens[i] = 0}
  IN Smaller(avail, IF stops = {} THEN Total(lens) ELSE Upto(lens)[Least(stops) - 1])

Call(p, do, lens, from) ==
  [do |-> do, want |-> Total(lens), from |-> from, pos |-> handle[p].pos, was |-> disk[p]]

Left(data, pos) == IF Len(data) > pos THEN Len(data) - pos ELSE 0

\* efile_readv and efile_preadv.
ReadVfs(p, do, lens, offset) ==
  LET data == Contents(p)
      from == IF do = "read" THEN handle[p].pos ELSE IF offset < 0 THEN 0 ELSE offset
      n == Copied(lens, Left(data, from))
  IN /\ Vfs(p)
     /\ mem' = [mem EXCEPT ![p] = SubSeq(data, from + 1, from + n)]
     /\ handle' = IF do = "read" THEN [handle EXCEPT ![p].pos = from + n] ELSE handle
     /\ Returns(p, [call |-> Call(p, do, lens, from), n |-> n])
     /\ UNCHANGED <<boot, cache, op, disk, descriptors>>

\* Mutation: only the end of the file bounds the position.
SeekVfsBelow(p, base, offset) ==
  LET size == Len(Lookup(index, handle[p].name).data)
      to == offset + (IF base = "bof" THEN 0 ELSE IF base = "cur" THEN handle[p].pos ELSE size)
  IN /\ Vfs(p)
     /\ handle' = [handle EXCEPT ![p].pos = Smaller(to, size)]
     /\ Returns(p, None) /\ mem' = [mem EXCEPT ![p] = <<>>]
     /\ UNCHANGED <<boot, cache, op, disk, descriptors>>

SeekVfs(p, base, offset) ==
  LET size == Len(Lookup(index, handle[p].name).data)
      to == offset + (IF base = "bof" THEN 0 ELSE IF base = "cur" THEN handle[p].pos ELSE size)
  IN /\ Vfs(p)
     /\ handle' = [handle EXCEPT ![p].pos = IF to < 0 THEN 0 ELSE Smaller(to, size)]
     /\ Returns(p, None) /\ mem' = [mem EXCEPT ![p] = <<>>]
     /\ UNCHANGED <<boot, cache, op, disk, descriptors>>

\* Writing, allocating and truncating.
RefuseVfs(p) ==
  /\ Vfs(p) /\ Returns(p, Failed) /\ mem' = [mem EXCEPT ![p] = <<>>]
  /\ UNCHANGED <<boot, cache, handle, op, disk, descriptors>>

-----------------------------------------------------------------------------
(* Files of the system.                                                    *)

Iov(lens) == [i \in DOMAIN lens |-> [base |-> 1 + Upto(lens)[i - 1], len |-> lens[i]]]
Lens(iov) == [i \in DOMAIN iov |-> iov[i].len]

\* The cells the elements point to, one after the other.
Cells(iov) ==
  LET upto == Upto(Lens(iov))
      element(j) == CHOOSE i \in DOMAIN iov : j \in upto[i - 1] + 1 .. upto[i]
  IN [j \in 1 .. upto[Len(iov)] |-> iov[element(j)].base + (j - 1 - upto[element(j) - 1])]

\* How many elements a shift takes whole.
HeadOf(iov, shift) ==
  LET upto == Upto(Lens(iov))
  IN Least({i \in 0 .. Len(iov) : upto[i] = shift \/ (i < Len(iov) /\ upto[i + 1] > shift)})

\* Mutation: the element the shift ends in is started again.
ShiftIovWhole(iov, shift) == SubSeq(iov, HeadOf(iov, shift) + 1, Len(iov))

\* shift_iov: what remains of an iovec behind its first shift cells.
ShiftIov(iov, shift) ==
  LET head == HeadOf(iov, shift)
      cut == shift - Upto(Lens(iov))[head]
      split == [base |-> iov[head + 1].base + cut, len |-> iov[head + 1].len - cut]
  IN IF cut = 0 THEN SubSeq(iov, head + 1, Len(iov))
     ELSE <<split>> \o SubSeq(iov, head + 2, Len(iov))

Source(n) == [i \in 1 .. n |-> 10 + i]

Reads == {"read", "pread"}
Writes == {"write", "pwrite"}

May(p, do) == IF do \in Reads THEN "read" \in handle[p].modes ELSE "write" \in handle[p].modes

\* A vectored call begins: the kernel is asked in steps of their own.
BeginIo(p, do, lens, offset) ==
  LET from == IF do \in {"read", "write"} THEN handle[p].pos ELSE offset
  IN /\ File(p) /\ May(p, do) /\ from >= 0
     /\ do \in Writes => /\ from + Total(lens) <= MaxFile
                         /\ Len(disk[p]) + Total(lens) <= MaxFile \/ "append" \notin handle[p].modes
     /\ op' = [op EXCEPT ![p] = [do |-> do, call |-> Call(p, do, lens, from),
                                 iov |-> Iov(lens), at |-> from, n |-> 0]]
     /\ mem' = [mem EXCEPT ![p] = IF do \in Writes THEN Source(Total(lens))
                                  ELSE [i \in 1 .. Total(lens) |-> None]]
     /\ Returns(p, None)
     /\ UNCHANGED <<boot, cache, handle, disk, descriptors>>

Busy(p) == phase = "running" /\ op[p] # None /\ op[p].do \in Reads \cup Writes

\* What one system call is given.
Given(p) == Cells(SubSeq(op[p].iov, 1, Smaller(IovMax, Len(op[p].iov))))

Room(p) ==
  IF op[p].do \in Writes THEN Len(Given(p))
  ELSE Smaller(Len(Given(p)), Left(disk[p], op[p].at))

\* The result of a system call that moved n > 0 cells.
Advance(p, n, to) ==
  /\ op' = [op EXCEPT ![p].iov = ShiftIov(@, n), ![p].n = @ + n, ![p].at = @ + n]
  /\ handle' = IF op[p].do \in {"read", "write"} THEN [handle EXCEPT ![p].pos = to] ELSE handle

Overwrite(data, at, cells) ==
  [i \in 1 .. (IF Len(data) > at + Len(cells) THEN Len(data) ELSE at + Len(cells)) |->
     IF i \in at + 1 .. at + Len(cells) THEN cells[i - at]
     ELSE IF i <= Len(data) THEN data[i] ELSE 0]

Where(p, at, data) == IF "append" \in handle[p].modes THEN Len(data) ELSE at

ReadSome(p, n) ==
  LET cells == Given(p)
  IN /\ Busy(p) /\ op[p].do \in Reads /\ n \in 1 .. Room(p)
     /\ mem' = [mem EXCEPT ![p] = [c \in DOMAIN @ |->
                  IF \E j \in 1 .. n : cells[j] = c
                  THEN disk[p][op[p].at + (CHOOSE j \in 1 .. n : cells[j] = c)] ELSE @[c]]]
     /\ Advance(p, n, op[p].at + n)
     /\ UNCHANGED <<boot, cache, last, disk, descriptors>>

WriteSome(p, n) ==
  LET cells == Given(p)
      at == Where(p, op[p].at, disk[p])
  IN /\ Busy(p) /\ op[p].do \in Writes /\ n \in 1 .. Room(p)
     /\ disk' = [disk EXCEPT ![p] = Overwrite(@, at, [j \in 1 .. n |-> mem[p][cells[j]]])]
     /\ Advance(p, n, at + n)
     /\ UNCHANGED <<boot, cache, last, mem, descriptors>>

Finish(p, n) ==
  /\ op' = [op EXCEPT ![p] = None]
  /\ Returns(p, [call |-> op[p].call, n |-> n])
  /\ UNCHANGED <<boot, cache, handle, mem, disk, descriptors>>

\* Nothing left to move, or the end of the file.
IoEnds(p) == Busy(p) /\ Room(p) = 0 /\ Finish(p, op[p].n)

\* An error, whatever was moved before it.
IoFails(p) == Busy(p) /\ op[p].iov # <<>> /\ Finish(p, -1)

SeekFile(p, base, offset) ==
  LET to == offset + (IF base = "bof" THEN 0 ELSE IF base = "cur" THEN handle[p].pos ELSE Len(disk[p]))
      Past == to < 0 /\ Returns(p, Failed) /\ UNCHANGED handle
      Sought == to >= 0 /\ handle' = [handle EXCEPT ![p].pos = to] /\ Returns(p, None)
  IN /\ File(p) /\ to <= MaxFile
     /\ Past \/ Sought
     /\ mem' = [mem EXCEPT ![p] = <<>>]
     /\ UNCHANGED <<boot, cache, op, disk, descriptors>>

\* efile_truncate: at the position of the file.
TruncateFile(p) ==
  /\ File(p) /\ May(p, "write")
  /\ disk' = [disk EXCEPT ![p] = [i \in 1 .. handle[p].pos |-> IF i <= Len(@) THEN @[i] ELSE 0]]
  /\ Returns(p, None) /\ mem' = [mem EXCEPT ![p] = <<>>]
  /\ UNCHANGED <<boot, cache, handle, op, descriptors>>

-----------------------------------------------------------------------------
Bases == {"bof", "cur", "eof"}

Files(p) ==
  \/ \E name \in launch.opens[p] \ {Disk} : OpenVfs(p, name)
  \/ Disk \in launch.opens[p] /\ \E modes \in Modes : OpenFile(p, modes)
  \/ Inflate(p) \/ InflateFails(p) \/ Publish(p) \/ Return(p) \/ Close(p)
  \/ GetHandle(p) \/ DupHandle(p)
  \/ RefuseVfs(p) \/ TruncateFile(p)
  \/ \E do \in Reads, lens \in ReadIovs, offset \in Offsets : ReadVfs(p, do, lens, offset)
  \/ \E do \in Reads, lens \in ReadIovs, offset \in Offsets : BeginIo(p, do, lens, offset)
  \/ \E do \in Writes, lens \in WriteIovs, offset \in Offsets : BeginIo(p, do, lens, offset)
  \/ \E n \in 1 .. MaxFile : ReadSome(p, n) \/ WriteSome(p, n)
  \/ IoEnds(p) \/ IoFails(p)
  \/ \E base \in Bases, offset \in Offsets : SeekVfs(p, base, offset) \/ SeekFile(p, base, offset)

Next ==
  \/ Boot \/ BootFails \/ ErlStart
  \/ \E p \in Proc : Files(p)
  \/ \E f \in Fd : SocketCloses(f)

Spec == Init /\ [][Next]_vars

-----------------------------------------------------------------------------
(* Properties.                                                             *)

Size(h) == IF h.kind = "anon" THEN Len(Lookup(index, h.name).data) ELSE MaxFile

\* Descriptors, positions and buffers are what the C types say; a position
\* in an entry is within it, and the others are within the bounds.
TypeOK ==
  /\ phase \in {"start", "booted", "running", "exited", "failed"}
  /\ \A name \in DOMAIN cached : cached[name] \in Proc \cup {None, Zmap}
  /\ handle \in [Proc -> Handles \cup {None}]
  /\ \A p \in Proc :
       /\ handle[p] # None => handle[p].pos \in 0 .. Size(handle[p])
       /\ disk[p] # None => Len(disk[p]) <= MaxFile
       /\ op[p] # None /\ op[p].do \in Reads \cup Writes => op[p].at \in 0 .. MaxFile
  /\ fds \in [Fd -> {"closed", "anon", "file"}]
  /\ sockets \subseteq Fd

EntryName(i) == Join(launch.entries[i].path)

\* What can be loaded at all: the code refuses more entries and larger ones,
\* and loses its place behind a name it cuts.
Loads ==
  /\ Len(launch.entries) <= MaxEntries
  /\ \A i \in DOMAIN launch.entries : Len(launch.entries[i].data) <= MaxSize
  /\ \A i \in 1 .. Len(launch.entries) - 1 : Len(EntryName(i)) <= MaxName

\* Unless the system fails it, boot finds every entry of the release by its
\* name, with the content of the first of that name and nothing else,
\* whatever stands before the archive, and it refuses the archive only when
\* that cannot be loaded; and the emulator gets the tokens of erl_args one by one, the
\* structural flags and the program's own arguments behind them, or what
\* the caller gave when there is no archive or it asks for that
\* (find_eocd, parse_central_directory, parse_erl_args, main).
Booted ==
  LET names == {Cut(EntryName(i)) : i \in DOMAIN launch.entries}
      First(name) == Least({i \in DOMAIN launch.entries : Cut(EntryName(i)) = name})
      tokens == IF ErlArgs \in names THEN launch.tokens ELSE Defaults
  IN /\ phase = "exited" => launch.entries # None /\ ~Loads
     /\ phase = "booted" =>
          IF launch.entries = None THEN index = None /\ argv = launch.argv
          ELSE /\ Loads
               /\ {index[i].name : i \in DOMAIN index} = names
               /\ \A name \in names :
                    Lookup(index, name).data = launch.entries[First(name)].data
               /\ argv = IF launch.raw THEN launch.argv
                         ELSE <<launch.argv[1]>> \o tokens
                              \o Structural(launch.home, launch.argv[1]) \o Tail(launch.argv)

\* The tree the paths of the release span, from their components.
Paths == {launch.entries[i].path : i \in DOMAIN launch.entries}
Nodes == UNION {{SubSeq(path, 1, n) : n \in 0 .. Len(path)} : path \in Paths}
Children(dir) == {path[Len(dir) + 1] : path \in {x \in Paths : IsStrictPrefix(dir, x)}}
Variants(path) == {Join(path), Join(path) \o <<Slash>>}

\* Comparing characters finds that tree: a path is a file when it is an
\* entry, a directory when entries are below it, and each directory lists
\* each of its children once and in order, written with or without a slash
\* at the end (efile_read_info, efile_list_dir).  The root can be listed.
TreeExact ==
  phase = "booted" /\ index # None
  /\ (\A i \in DOMAIN launch.entries : Len(EntryName(i)) <= MaxName) =>
    /\ \A path \in Nodes \ {<<>>} :
         /\ ReadInfo(index, Join(path)) = IF path \in Paths THEN "regular" ELSE "directory"
         /\ path \notin Paths => ReadInfo(index, Join(path) \o <<Slash>>) = "directory"
    /\ \A path \in Nodes, part \in UNION {Children(d) : d \in Nodes} :
         Append(path, part) \notin Nodes =>
           ReadInfo(index, Join(Append(path, part))) = "enoent"
    /\ \A dir \in Nodes \ Paths : \A name \in Variants(dir) :
         LET list == ListDir(index, name)
         IN /\ {list[i] : i \in DOMAIN list} = Children(dir)
            /\ \A i \in 1 .. Len(list) - 1 : list[i] # list[i + 1] /\ Before(list[i], list[i + 1])

Holds(p) == IF handle[p].kind = "anon" THEN Lookup(index, handle[p].name).data ELSE disk[p]

\* A read that ends well returned the bytes of the file from where it began,
\* as many as asked for or all there were, each in its place in the buffers;
\* a write put all of its bytes in the file and changed no other; and the
\* position is behind them, or where it was for pread and pwrite, however
\* the kernel cut the transfer and whoever inflated the entry
\* (efile_readv, efile_writev, efile_preadv, efile_pwritev, shift_iov).
IoExact ==
  \A p \in Proc :
    last[p] # None /\ last[p].n >= 0 =>
      LET call == last[p].call
          n == last[p].n
          at == IF call.do \in Writes THEN Where(p, call.from, call.was) ELSE call.from
      IN /\ call.do \in Reads =>
              /\ n = Smaller(call.want, Left(Holds(p), call.from))
              /\ \A i \in 1 .. n : mem[p][i] = Holds(p)[call.from + i]
         /\ call.do \in Writes =>
              /\ n = call.want
              /\ disk[p] = IF n = 0 THEN call.was ELSE Overwrite(call.was, at, Source(n))
         /\ handle[p].pos = IF call.do \in {"pread", "pwrite"} THEN call.pos
                            ELSE IF n = 0 THEN call.from ELSE at + n

\* Every descriptor is open for one holder: a file, as its own or as the one
\* made for sendfile, or a socket; none is left open behind a file that was
\* closed, and none is closed under its holder (efile_get_handle,
\* efile_dup_handle, efile_close).
FdsAccounted ==
  /\ \A f \in Fd : Cardinality({p \in Proc : handle[p] # None /\ handle[p].fd = f})
                    + (IF f \in sockets THEN 1 ELSE 0) = (IF fds[f] = "closed" THEN 0 ELSE 1)
  /\ \A p \in Proc : handle[p] # None /\ handle[p].fd # None => fds[handle[p].fd] = handle[p].kind
=============================================================================
