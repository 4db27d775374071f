# gleepack in TLA+

gleepack turns a Gleam project into one executable: it compiles the packages of the project with the build tools they
come with, compiles the generated Erlang with a BEAM compiler of its own, packs everything into a zip and appends that
to a patched Erlang runtime, which at start serves the files from memory. This directory holds TLA+ models of the parts
of gleepack in which the order of events matters, the TLC runs that check them and TLAPS proofs about them.

Paths below are relative to the repository.

## The system

| part | code | state | operations | what is hard |
|---|---|---|---|---|
| project compiler | `src/gleepack/project_compiler.gleam` | packages left, the one in flight, the queue of packages whose modules are still being compiled | one loop: start a package, receive, pay the queue | two pipelines overlapped by counting; results out of order; a timeout |
| BEAM compiler client | `src/gleepack/beam_compiler.gleam` | a port, the unfinished line | add_path, compile, stop, handle_msg | chunks that cut lines anywhere |
| BEAM compiler | `priv/gleepack_compiler.erl` | mailbox, number of pending files, code path | reader, dispatcher, workers | three kinds of processes, one mailbox, selective receive, shutdown |
| package cache | `src/gleepack/package_cache.gleam` | a key file per package | check, commit | what a killed or failed build leaves |
| target store | `src/gleepack/target.gleam` | runtime and OTP directories | install, uninstall, installed | several processes, killed halfway, an OTP shared by runtimes |
| release compiler | `src/gleepack/release_compiler.gleam` | none of its own | build: pipeline, entrypoint, assembly | a second protocol on the pipeline's subprocess |
| dependencies | `src/gleepack/dependency.gleam` | none | for_mode: a topological sort | shared dependencies, an explicit stack |
| spawn, fd and forker drivers | `otp/sys_drivers.c` | per port driver data, pid table, self-pipe, output queue, unfinished packet | spawn_start, callbacks, reaping, async writes | signals, scheduler threads, pids that are used again, inherited descriptors, partial reads and writes |
| virtual file system | `otp/gleepack_entry.c`, `otp/unix_prim_file.c`, `otp/gleepack_vfs.h` | index of the zip, inflated files, handles | open, read, seek, list, stat, descriptors for sendfile | a cache filled by several schedulers, directories that are only prefixes of names |
| files of the system | `otp/unix_prim_file.c` | handles | open, vectored reads and writes, seek, truncate | system calls that transfer a part |
| files on Windows | `otp/win_prim_file.c` | a counter for names | rename | one operation out of several calls, on many threads |
| boot | `otp/gleepack_entry.c`, `src/gleepack/emu_args.gleam`, `priv/gleepack_main.erl` | none | find the archive, index it, arguments, start of the applications | rendering and parsing in two languages, another archive in the same file |
| commands, readers, codecs, scripts | the rest of `src/`, `scripts/` | none | | sequential |

How they interact: a command (`build`, `run`, `shell`) reads the project, sorts the dependencies, installs the targets
and calls `release_compiler.build`. That starts one BEAM compiler per target, runs the project compiler on it, compiles
the entrypoint with it and stops it. The project compiler and the BEAM compiler share two pipes and the `ebin`
directories; consecutive builds share the package directories with their key files. Inside a packed program the Erlang
runtime's drivers and file functions are gleepack's: `sys_drivers.c` starts children without the helper process
`erl_child_setup`, and `unix_prim_file.c` serves paths under `/__gleepack__/` from the zip that `gleepack_entry.c` has
found behind the code of the executable and indexed before it started the emulator.

What makes each part correct:

* project compiler: a build that succeeds is complete; a Rebar3 or Mix package never starts too early; no wait is in
  vain; every build ends.
* BEAM compiler: a file sent is answered exactly once, its directory is on the code path when it is compiled, the
  program ends with its client.
* package cache: a hit is a complete package, whatever happened to earlier builds.
* drivers: a port reports the status of its own child, once, after its output; no zombies; messages arrive whole, in
  order and once; a closed port has written what it took; no end of a pipe is kept, and a port's end depends on its own
  child only.
* rename on Windows: it replaces or leaves both paths, its error is the truth, and no contents are lost on the way.
* target store: what `installed` lists can be used; what an installed target needs is never collected.
* dependencies: every package once, after those it needs.
* virtual file system: a path has one content, whoever reads it first; the directories are those the paths span; a read
  or write is exact however the kernel cuts it; every descriptor has one owner.
* boot: index and arguments are those of the release.

`PROJECT.json` lists the hazards behind these, each with its line.

## Modules

| module | models | checked by |
|---|---|---|
| `CompileService` | what the BEAM compiler promises gleepack (abstract) | as part of `ProjectCompiler`; implemented by `BeamCompiler` |
| `ProjectCompiler` | `project_compiler.gleam` with `package_cache.check`/`commit` | `Pipeline` |
| `BuildRuns` | several builds of one project over one disk | `Interrupted`, `RebuildBroken` |
| `ProjectCompilerProofs` | theorems about these two | tlapm |
| `BeamCompiler` | `gleepack_compiler.erl` and its client | `BeamCompiler` |
| `BeamCompilerProofs` | theorems about `BeamCompiler` | tlapm |
| `PortExits` | what a spawned port promises its owner (abstract) | implemented by `Forker` |
| `Forker` | children, signals and statuses in `sys_drivers.c` | `Forker`, `ShortChild` |
| `ForkerProofs` | theorems about `Forker` | tlapm |
| `SpawnPipes` | who holds the ends of the pipes of `spawn_start` | `SpawnPipes`, `SharedEnds` |
| `SpawnPipesProofs` | theorems about `SpawnPipes` | tlapm |
| `MessageQueue` | what a `{packet, N}` port promises its owner (abstract) | implemented by `PortStream` |
| `PortStream` | the bytes of a port in `sys_drivers.c`, both directions | `PortStream` |
| `PortStreamProofs` | theorems about `PortStream` | tlapm |
| `TargetStore` | `target.gleam`: the cache of runtimes and OTPs | `TargetStore` |
| `TargetStoreProofs` | theorems about `TargetStore` | tlapm |
| `Executable` | `gleepack_entry.c` and `emu_args.render`: archive, index, arguments (operators) | as part of `PrimFile` |
| `VfsTree` | stat and list of the archive in `unix_prim_file.c` (operators) | as part of `PrimFile` |
| `PrimFile` | boot, and files through `unix_prim_file.c` | `Runtime` |
| `PrimFileProofs` | theorems about `Executable` and `PrimFile` | tlapm |
| `AtomicRename` | `rename` of Unix (abstract) | implemented by `WinRename` |
| `WinRename` | `efile_rename` of `win_prim_file.c` | `Rename` |
| `WinRenameProofs` | theorems about `WinRename` | tlapm |
| `MC...` | constants of the runs | |

### ProjectCompiler

One behaviour is one call of `compile`. The variables are the fields of `LoopState` (`next` stands for `remaining`,
`inFlight` and `proc` for `in_flight` and its process, `pending`), the position in the loop (`phase`: `start` before
`maybe_start_compile`, `wait` in `selector_receive`, `drain` inside `drain_queue`, or the result) and the disk: `keys`
(packages whose stored key is the current one), `apps` (their `.app` files) and `beams`. Each clause of
`maybe_start_compile` is an action (`StartHit`, `StartMiss`, `StartForeign`, `Finish`, `StartNothing`), each message
another (`GleamFinished`, `ForeignFinished`, `CompileFailed`, `Chatter`, `ReceiveCompiled`, `ReceiveFailed`,
`ReceiveExited`, `Timeout`), and each turn of `drain_queue` a third, since it writes a key. `StartMiss` includes the reset
of the package's directory and `GleamFinished` everything from the `.app` file to the queue.

The BEAM compiler is an INSTANCE of `CompileService`: files sent, lines answered, modules written. `Chatter` stands for
every message that changes nothing (output of the build tool, warnings, a partial line).

`UnfinishedHasNoKey` is about the code's promise that a key is written last: it looks at the files that are out, not at
what the queue believes is owed, and so holds only where at most one package is in the BEAM compiler (it is checked and
proved over several builds, `Interrupted`, and does not hold in `Pipeline`).

`BuildRuns` starts the next build on the disk the last one left. Between builds the BEAM compiler finishes what it was
sent (`drain`); an interrupted build leaves any part of that undone.

### BeamCompiler

`stdin`, `mail` and `work` hold the messages: the pipe, the dispatcher's mailbox and the file each worker has.
`work_please` messages are not in `mail`: the dispatcher takes them selectively, from any waiting worker, so a worker
without a file is one whose request is there (`Assign`). `dispatcher` is the receive the process is in: `loop`, `assign`
(the inner receive for a worker) and `drain`. The module also has the client, since the promise is about both ends.
`Implements` maps files owed an answer to `outstanding`, and hides what workers have written before their answer is out.

### Forker

`port` goes from `new` through `spawned` (posix_spawn has returned, spawn_start has not) and `open` to `eof` (at the end
of its output) or `closed` (by its owner). A port's
callbacks wait for its `spawn_start`, since the emulator holds the port's lock; the reaper, in the forker port, does not.
`mapping` is `forker_hash`; `raised` and `byte` are the pending signal and the self-pipe; `reaper` is where
`forker_ready_input` is, between `waitpid` and the look-up in particular. `alive = -1` of the code is written 2.
Two constants name what the kernel's timing allows: `EarlyExit`, a child may be reaped before its pid is entered, and
`EarlyReuse`, a pid may be given to a new child between `waitpid` and the removal of its entry.

### SpawnPipes

`held` is who has which end of which port's pipes: the emulator, or the child of a port. `step` follows `spawn_start`
through its eight exits: the two `pipe` calls, `stderrfd`, the command line with its checks, `posix_spawn`, and the
closing of the child's ends. A child gets a copy of all the emulator has (`Inherited`), since nothing is close-on-exec,
less what its file actions close. `spawn_start` of different ports interleave freely when `Serial` is FALSE. The returns
of lines 639-674 (step `unprepared`) forget `stderrfd`: `OnlyStderrKept` says that this copy of stderr is what stays
open, there and nowhere else.

### PortStream

One behaviour is one port of the spawn or fd driver and its peer, which sends back what it reads, so that what goes in
can be compared with what comes out. `Output` is `output`/`outputv`: too long, failing, queued behind what is there,
written at once as far as it goes, or left to the async thread. `ReadyOutput`, `FdAsync` (in the async thread) and
`FdReadyAsync` write the rest. `ifd` is what the input side keeps between reads: `pbuf` of a length, `buf` and `remain` of
a message. `ReadyInput` is one `read` of any length with all messages it completes; `InputEnds` is `port_inp_failure`,
`Close` with `Drained` what the emulator and `fd_flush` do with a port that is closed. The queue, the poller and
`driver_async` belong to the emulator, and are modelled by how the drivers use them.

### Executable, VfsTree, PrimFile

`Executable` takes the file for a sequence of units, so that offsets stay offsets: code, local headers, central headers,
the end record. `Release` is what `zip.gleam` and the release compiler make of a list of paths; `FindEocd`,
`ParseCentralDirectory`, `ParseErlArgs` and `Argv` are the functions of `gleepack_entry.c`. Names are sequences of
characters, because stat and list of a directory compare characters (`VfsTree`): `CheckPrefix`, `Child`, `Sort` and
`Dedup` are `check_prefix`, `list_dir_collect`, `qsort` with `cmp_str` and the loop that drops duplicates.

`PrimFile` boots one of the executables of the constant `Launches` in its first step; then processes open entries or a
file of their own. The system may fail `gleepack_vfs_init` (`BootFails`) and inflating (`InflateFails`): the emulator
exits, `phase` is `failed`. A call is one step but in two places. Inflating an entry is four (look up, inflate, store
`cached_data`, read it again), as `cached_data` has no lock: the buffer of one scheduler may be replaced by another's,
also between its store and its second read. Vectored reads and writes of the
system's files are one step per system call, each of which moves any part of what it is given; `ShiftIov` is
`shift_iov`. `fds` has what each descriptor is for, `sockets` those `dup_handle` has given away.

### WinRename

A rename is a sequence of Windows calls of one thread (`pc`), each atomic: the first `MoveFileExW` and what its refusal
means (`Move`, `Classify`), the removal of an empty directory, the three moves over a file with a swap name
(`MakeName`, `Count`, `SwapOut`, `Replace`, and `Tidy` or `Restore`). `Count` is apart from `MakeName` since
`unique_counter` is read and then incremented. Calls that run side by side have no path in common, but may share
folders, where the swap names are made. `Denies` has the calls other programs can make fail. `Implements` hides
the window in which the destination is at its swap name.

### TargetStore

The disk is four variables: which targets have a directory, what their runtime and their `target.json` are (a revision,
half-written, or nothing) and what each OTP directory is. A process goes through the phases of `install` (`check` to
`using`, where the caller uses what was returned) or of `uninstall` (`remove` to `collect`); a phase ends where another
process, a kill or an error can change what the next one finds. Recursive deletion takes files one at a time, in the
order of the directory listing; writing a file and unpacking an archive have a beginning and an end. `Abort` is a kill,
a failed download or hash, a full disk; the constant `AbortIn` says in which phases it may come. The scan of `uninstall`
over all `target.json` files is one step. A removal cut off between the runtime and `target.json` leaves a directory
that `is_stale` takes for current, and install returns without a runtime: `InstalledIsReady` promises what is left to
promise, a `target.json` of the revision asked for, a complete OTP, and no runtime but a complete one of that revision.

## Runs

| run | expects | shows |
|---|---|---|
| `Pipeline` | pass | one build: completeness, order, no vain wait, a key for all that succeeds, termination |
| `Interrupted` | pass | a hit is complete after killed, failed and restarted builds, and what is unfinished has no key, while one package at a time is in the BEAM compiler |
| `BeamCompiler` | pass | no file lost, counts, code path, shutdown, refinement of `CompileService` |
| `Forker` | pass | pid table, zombies, statuses, refinement of `PortExits`, for children that outlive their `spawn_start` |
| `TargetStore` | pass | one process: what is listed is complete and current, what install returns too or, after a removal cut off halfway, without a runtime; the OTP in use is kept; after any sequence of commands and failures outside the OTP |
| `PortStream` | pass | no byte lost, queue served, closed ports flushed, suspended senders let go, refinement of `MessageQueue` |
| `SpawnPipes` | pass | what a failing `spawn_start` keeps is at most its copy of stderr, and when; a port's output ends with its own child, children see the end of their input, for ports opened one after the other |
| `Rename` | pass | no contents vanish, no swap name shared or left, refinement of `AtomicRename`, for threads on paths of their own in folders they share |
| `Runtime` | pass | which archives load, index and arguments of the release, its tree of directories, exact reads and writes, descriptors accounted for |
| `RebuildBroken` | violation | results credited to the front of the queue make a failed build's package a hit |
| `ShortChild` | violation | a child that ends at once loses its exit status and its port hangs |
| `SharedEnds` | violation | a child starts with the emulator's ends of other ports' pipes |

Bounds. `Pipeline` has six packages, chosen so that every case of the queue occurs: two packages in the BEAM compiler at
once (one with two files), one without files, two foreign packages in the middle, the project itself at the end, when
its files are all the loop waits for. Three may be cached, two may fail, files may fail. More packages of the same kinds
repeat these: the proofs below hold for any number. `Interrupted` allows three builds: the state that matters between two builds is the disk, and
two builds already reach every disk a sequence can. Its project is one where no two packages are in the BEAM compiler
together; `RebuildBroken` is the run where they are. `BeamCompiler` has more files than workers, so a command waits for a
worker while results arrive. `Forker` has two ports and two pids: two children at a time, or a pid used twice; two
statuses tell a child's own from another's; one chunk of output is enough to be behind the status.
`TargetStore` has three targets, two of one OTP version, and two revisions: an OTP that is shared and one that is not,
an update and a way back; commands follow each other without limit. `PortStream` sends three messages (`MaxSent`), out
of an empty one, one of a byte, one of two and one too long; with bytes of base 2 and `packet_bytes` 2 a length has two
digits and ends at 3; the watermarks 4 and 2 are passed by one message or by two, and a pipe of 3 bytes does not
take the longest whole. `SpawnPipes` has three ports: one before, one that fails, one after. `Rename` has two threads
over two folders of two names, everything there, absent, empty or full, and lets the counter run to `MaxCounter` 2; threads,
folders and names are interchangeable, and no property singles one out, so `SYMMETRY` is sound (there is no liveness). `Runtime` boots twelve executables: without an archive; with an
older end record in its code; with `erl_args` stored or deflated, started raw or not; with paths that begin like
another, or twice; with too many entries; with an entry too large; with a name too long, last or not. `Window` (64 KiB) is 20 units, `MaxEntries` (10000) 4,
`MaxName` (254) 8, `MaxSize` (100 MB) 16 cells, `IovMax` 2 for an iovec of three, files grow to `MaxFile` 4, and two descriptors are enough for one
that cannot be had. Entries are opened by two processes so that both can inflate one.
In write calls an element of length zero stands among others but never fills a whole window of `IovMax` elements, where
the loop of `efile_writev` would stop early; read calls have none, since the copy from the archive ends at one.

Deadlock is checked for `TargetStore`, where there is always a next command. The other configurations say
`CHECK_DEADLOCK FALSE`: builds end, programs end, ports close, an executable with a broken archive exits and the
counter of `Rename` is at its bound.

Fairness. The Gleam loop is a process that is always scheduled (`WF` on its three kinds of steps), compile processes and
compilations end (they are build tools run on finite input). In `BeamCompiler` every Erlang process that can run runs.
In `Forker` signals are delivered, `spawn_start` returns and the poller calls back every driver with something to do;
nothing says that a child ends, closes its output or is spawned at all. In `PortStream` the poller calls back for what
is ready, async threads run and the emulator closes a drained port; a peer that is there takes what it is sent (one that
never reads keeps its senders suspended, as it should), and answers as fast as the port reads them. In `SpawnPipes` a child ends at the end of its input (the children gleepack's
programs start are filters). `TargetStore`, `Rename` and `Runtime` have no liveness and no fairness.

Where the code keeps a promise only under a condition, the condition is a constant, set in the passing run. What TLC
finds without it:

| constant | set to | otherwise |
|---|---|---|
| `Emits` | one module per file | an `.ex` file with two modules (`TwoModules`) pays for another package, and a Rebar3 package starts too early: `ForeignSeesAllBefore` |
| `ListingMayFail` | FALSE | an unreadable directory of artefacts counts as an empty one: `ForeignSeesAllBefore`, `OkMeansComplete` |
| `Deps` of `BuildRuns` | `SoloDeps`: one package in the BEAM compiler at a time | a package with a file out gets a key: `UnfinishedHasNoKey`, and `HitMeansComplete`, run `RebuildBroken` |
| `EarlyExit` | FALSE | a child reaped before its pid is entered: `StatusArrives`, run `ShortChild` |
| `EarlyReuse` | FALSE | a pid given away before its entry is removed: `TableExact` |
| `AbortIn` | outside the OTP | an OTP half unpacked or half deleted counts as installed: `ListedIsReady`, `InstalledIsReady` |
| `Process` of `TargetStore` | one | an OTP goes under a target another process has just installed, or is taken half unpacked: `ListedIsReady`, `InstalledIsReady`, `NeededIsKept` |
| `Serial` | TRUE | two children hold each other's input open and never end: `ChildrenEnd` |
| `Counted` | TRUE: nobody reads the counter between another's read and increment | two threads use one swap name in one folder (`win_prim_file.c:1672`): `SwapsApart`, `Kept` |
| `Denies` | without `retry`, `remove`, `restore` | a file that cannot be moved back stays at its swap name: `SwapsApart`, `Implements`; a directory is gone though the rename failed, or the error is not its reason: `Implements` |

An `.ex` file that defines no module at all (`Emits[f] = {}`) makes `Pipeline` fail too: its package waits for an answer
that adds nothing, and the build times out (`NoVainWait`).

## Proofs

`ProjectCompilerProofs` proves for every project, any number of packages and files and every order of answers:

* `TypeCorrect`: the types, from the assumptions on the constants alone;
* `PipelineInvariant`: the inductive invariant `IInv`, assuming that every file gives exactly one module and listings
  can be read;
* from it `OkComplete`, `ForeignWaits`, `OkCached` and `NoTimeout`.

`IInv` is needed because the properties speak of modules and the code of counts. Its core says that the files of the
packages in the queue, minus those paid for, are as many as the files under way, answered or in the credit; that
sources under way belong to packages of the queue, once each; and that a package before `next` that is neither in flight
nor owed files has its `.app` file. When the queue is empty the counts leave nothing under way, and everything before is
in place.

About `BuildRuns` it proves `HitsAreTrue`: a hit is given for complete packages only, over any number of builds killed or
failed anywhere, for projects of `.erl` files in which a package that waits for the queue stands between any two with
files; and `UnfinishedUnkeyed`: there no package has a key while it is being compiled, is queued or has a file out.
To `IInv` the invariant `RInv` adds that every stored key is true, also those of this build; that what is in the queue
has had nothing that waits for it started since, and so that the queue has at most one package, which all answers are
of; and that the package a file that is out belongs to has no key (`OutUnkeyed`), since the front of the queue, which
is paid for, is then its only one.

`BeamCompilerProofs` proves for any files, workers and directories, and with no assumption beyond those of the module,
all safety properties of its run (`CompilerTypes`, `PathsAreAdded`, `PendingAgrees`, `NoFileIsLost`) and that every
step is one of `CompileService` (`CompilerImplements`). The invariant (`ServiceInvariant`) says that each file is in one
place (pipe, mailbox, dispatcher's hand, worker), that `count` is the cardinality of what is with the workers or in
results, what of this still holds while draining, and that gleepack is owed just those files. For the code path it is
an order in the two queues: a directory is on the path or before the first file that needs it. The refinement also needs
that what a worker has written is in `beams` before its answer is out.

`ForkerProofs` proves for any ports and pids, with `EarlyExit` and `EarlyReuse` FALSE: the types, that the pid table is
exact (`TableCorrect`), and that every step of the drivers is a step of `PortExits` or leaves it alone
(`ForkerImplements`): a port reports only its own child's status, once, and only after its output. The invariant adds to
the table where the status of a reaped child is: with the reaper, in a control call on its way, or in the driver data.

`SpawnPipesProofs` proves `SpawnKeepsStderrOnly` and `OutputEndsWithChild` for any number of ports, with `Serial` TRUE
and every step of `spawn_start` free to fail. The invariant (`EndsInvariant`) says which ends the emulator can have in each step of
`spawn_start`, that one `spawn_start` runs at a time, and that no child has the writing end of another's output, which
is only there to be inherited while its own `spawn_start` runs.

`PortStreamProofs` proves for any messages, base, packet size and watermarks all safety properties of its run. The code
checks the length of a message for `packet_bytes` 1 and 2 only; `LengthAssumption` says that with 4 none has 4 GiB, which
would go out with its length cut. On the
output side (`StreamInvariant`) what is queued has one writer and senders are suspended between the watermarks
(`AlwaysServed`), and a closed port has written everything (`ClosedIsFlushed`); the invariant adds what the result of
the async thread can be beside the queue. On both sides (`DeliveryInvariant`) the messages given are the first of those
taken, and while the port is open and the peer answers, the bytes of those taken are the bytes given, then what `ifd`
holds of a message, then the pipe, then what is to be written. From this follow the types (`PortTypes`: what has come
of a message is shorter than it), `NoByteLost`, and that every step is one of `MessageQueue` (`PortIsQueue`). The core is that
what `ReadyInput` takes out of any first part of the bytes of some messages are the first of those messages (`ScanExact`,
`BytesBegin`), which rests on a length being what its digits say (`HeaderOfValue`, `ValueOfHeader`).

`PrimFileProofs` proves for any launches, any processes and descriptors and any buffers:

* `RuntimeInvariant`, the inductive invariant `IInv` of files, and from it `TransfersExact` and `RuntimeTypes`. A call
  under way has moved the cells before those its iovec points to, each between the place of the buffers and the place
  of the file where it belongs; what is left is a chain, one element beginning at the cell where the one before ends,
  and `ShiftIov` keeps it one (`ShiftOfChain`). A read that stops early has met the end of the file, a write never stops
  early. An open entry has a name of the index, a position within it and a buffer that was filled before it was
  published.
* `DescriptorInvariant` (a descriptor is open for one holder, which takes it for what it is) and from it
  `DescriptorsAccounted`.
* `BootExact`, where the system lets the program run (`phase` is not `failed`). The end record of the archive is the last unit, so that no record before it is found; from there the
  offsets lead to the central headers and the local ones (`VfsOfRelease`); after each header the index has the first
  entry of each name so far (`IndexOf`); and `ParseErlArgs` undoes `Render`, since the i-th NUL ends the i-th token
  (`ParseIs`).
* `TreeIsExact`: stat and list find in the characters of the names the tree their components span, for any paths. The
  name of a path is its components laid out one after the other, with a slash where one ends and the next begins
  (`JoinIs`); as no component has a slash, a name followed by a slash or by nothing at the beginning of another is a
  path whose components are the first of the other's (`JoinPrefix`, `PrefixJoin`, together `BelowIs`), and what is between
  there and the next slash is one component (`ChildIs`). `strcmp` is a strict order in which one of two different names
  is first (`BeforeTotal`, `BeforeTrans`, `BeforeStrict`), so names can be sorted (`SortExists`), and then those that
  are equal stand together: comparing with the one kept last drops every copy, and nothing else (`DedupIs`). That
  comparison is only of the beginning; it is the order that makes it enough.

An archive is refused exactly for more than `MaxEntries` entries or one larger than `MaxSize`, and lost behind a name
that is cut (`Loads`).

Assumed are, by name: `NoneAssumption`, that the model values are apart from the data; `RuntimeAssumption`, that the sets are
what they are meant to be and offsets are within the bound; `IovAssumption`, that callers leave no empty buffer before one
to read into, and not `IovMax` empty ones in a row before one to write; and `LaunchAssumption`, that the runtime without
an archive has no unit that could be an end record, and that `erl_args`, where there is one, is what `emu_args.render`
made of tokens without a NUL; and `PathAssumption`, that the components of a path have a character and no slash, as the
release compiler makes them of the names of files and packages.
`IovAssumption` is about callers outside the repository (`prim_file_nif.c` of OTP reads into one buffer), and it is
needed: `efile_readv` of an entry stops at an empty buffer, and a `writev` of nothing but empty ones returns 0, which
ends the loop.

`TargetStoreProofs` proves for any targets, versions and revisions and any order of deletion, for one process with
`AbortIn` outside the OTP, the types, `ListingIsTrue`, `InstallIsComplete` and `CollectSpares`. The invariant
(`StoreInvariant`) says per phase what the ones before it have established, that a readable `target.json` names the
runtime beside it if there is one, and that an incomplete OTP is being worked on.

`WinRenameProofs` proves for any threads, folders and names, with `Counted` TRUE: unless the move back is refused, swap
names are not shared or left behind (`SwapNamesApart`) and no contents vanish (`ContentsKept`; TLC finds the latter to
hold even then); unless the second move or the removal
of a directory is refused either, `efile_rename` is `AtomicRename` (`RenameIsAtomic`, the whole refinement: neither side
has fairness). The invariant says what each thread knows of the two paths at each call, that threads are on paths of
their own, that a swap name in use is of a count already passed or its thread is the one about to increment, and that
a file at a swap name is one its thread has moved there.

Only model-checked: everything about liveness (`EveryBuildEnds`, `EndsWithClient`, `NoZombies`, `StatusArrives`,
`NeverStuck`, `ChildrenEnd`, the fairness part of the refinements of `Forker`, `BeamCompiler` and `PortStream`), which
TLAPS does not reach. Every safety property a passing run checks is a theorem.
Induction is no obstacle: the theorems of the library take predicates, but the least element of a set of
numbers follows from well-founded orders on finite sets (`LeastNat`), induction from that for sets (`NatInduct`), and
with it that a function defined by recursion exists and is what its definition says (`RecursionExists`). The modules
write recursion as functions for that reason.

## Not modelled

The flag handling of the commands, the readers of project files, the codecs and the toolchain scripts: sequential, and
tested where they are more than glue. Within the modelled parts: wording, the texts of compiler diagnostics, the contents of
files. Further:

* `sys_drivers.c`: `packet_bytes` 0 in `PortStream` (`Forker` has chunks), read errors and soft eof, a low watermark
  of 0 with an async writer, and the lifetime of driver data an async thread may still use after its port has failed.
* `gleepack_entry.c`: the bytes of zip headers (a header is a unit), compression methods but the two `zip.gleam` writes
  (the code exits on others), and CPUs that reorder stores: the pointer to an
  inflated entry is published without a lock or barrier, and the model lets others see it only after its contents.
* `unix_prim_file.c`: fsync, allocate, advise, links, owners, times, current directory: one system call each.
* `win_prim_file.c`: its archive branches, which repeat those of `unix_prim_file.c`; the other single calls; renames side by
  side that share a path, or read the counter together.
* `release_compiler.gleam`, `dependency.gleam`, `gleepack_main.erl`, `package_cache.gleam` beyond check and commit: see
  the plan.

Where docs and comments differ from the code without a run for it:

* `unix_prim_file.c:108` says the descriptor made for sendfile is positioned at 0; where it is a memfd the write leaves it at
  the end (sendfile is given an offset, so nothing depends on it).
* `gleepack_entry.c:441` says that without an archive all reads return ENOENT; `open` does, stat and list go through an
  index that is NULL.
* A name of 255 bytes or more is cut, and the next entry is then looked for in the wrong place; too many entries end
  the program, this does so only by chance (`Booted` is stated for what loads).
* A removal cut off between the runtime and `target.json` leaves a directory `is_stale` takes for current: install
  returns, and the runtime is missing (`InstalledIsReady` allows it).
* `sys_drivers.c:639-674`: a command that cannot be prepared leaves the copy of stderr open (`OnlyStderrKept` says when).
* `win_prim_file.c:1672`: `unique_counter` is read and incremented without a lock; two dirty I/O threads can make one swap name
  in one folder (excluded by `Counted`).
* The root of the archive can be listed, stat says it does not exist (`TreeExact` leaves it out for stat).
* `open` of an entry for writing succeeds; the first write fails.
* `sys_drivers.c:714-716` speaks of half-connected pipes to the forker, which this version does not make.

## Plan

Done, in this order:

1. `CompileService`, `ProjectCompiler`, `BuildRuns`, `BeamCompiler`: the pipeline, its subprocess, and their proofs.
2. `PortExits`, `Forker`: spawning and reaping, and its proofs.
3. `TargetStore`: install, uninstall and garbage collection, killed anywhere, and its proofs.
4. `MessageQueue`, `PortStream`, `SpawnPipes`: bytes and descriptors of ports, and their proofs.
5. `Executable`, `VfsTree`, `PrimFile`: boot and files; `AtomicRename`, `WinRename` with its proofs.

Left:

6. `PackageCache`: several versions of a package, builds killed in the reset, and the old version coming back; composed
   with `BuildRuns`.
7. `Entrypoint`: chunks, partial lines and warnings on the pipe, and the single receive of `compile_entrypoint`.
8. `Dependency`: the stack loop against the definition of a topological order, as the source of `Deps`.
9. Two runs of `gleepack run` over one directory of temporary executables.
