------------------------------- MODULE Forker -------------------------------
(***************************************************************************)
(* The spawn and forker drivers of sys_drivers.c, which replace            *)
(* erl_child_setup: spawn_start starts a child with posix_spawn and enters *)
(* its pid in a hash table, SIGCHLD wakes the forker port through a pipe,  *)
(* and forker_ready_input reaps every child that ended and sends its       *)
(* status to the port the table names.  spawn_start runs on the opener's   *)
(* scheduler thread, forker_ready_input on another; a port's own callbacks *)
(* wait for its spawn_start to return.                                     *)
(***************************************************************************)
EXTENDS Naturals, Sequences, FiniteSets

CONSTANTS Port, Pid, Status,
          MaxChunks,    \* bound on the unread output in a port's pipe
          EarlyExit,    \* may a child be reaped before its pid is entered?
          EarlyReuse,   \* may a pid be used again before it is taken out?
          None

ASSUME ForkerAssumption ==
  /\ MaxChunks \in Nat
  /\ EarlyExit \in BOOLEAN /\ EarlyReuse \in BOOLEAN
  /\ None \notin Port \cup Pid \cup Status
  /\ {"idle", "reaping"} \cap Port = {}

VARIABLES port,      \* port[p]: "new", "spawned", "open", "eof" or "closed"
          wants,     \* ports opened with exit_status
          pid,       \* pid[p]: its child
          life,      \* life[p]: "none", "running", "zombie" or "reaped"
          ended,     \* ended[p]: what its child ended with, or None
          unread,    \* unread[p]: chunks of output in ifd
          hungUp,    \* ports whose ifd has no writer left
          selected,  \* ports whose ifd is polled for reading
          alive,     \* driver_data->alive
          status,    \* driver_data->status
          control,   \* control[p]: spawn_control calls under way to p
          told,      \* told[p]: the status driver_report_exit gave, or None
          mapping,   \* forker_hash: from pids to ports
          raised,    \* SIGCHLD is pending
          byte,      \* forker_pipe is not empty
          reaper     \* the port whose child was reaped, "reaping" or "idle"

child == <<pid, life, ended>>
pipes == <<unread, hungUp>>
driver == <<selected, alive, status, told>>
signal == <<raised, byte>>
vars == <<port, wants, child, pipes, driver, control, mapping, signal, reaper>>

Init ==
  /\ port = [p \in Port |-> "new"]
  /\ wants = {}
  /\ pid = [p \in Port |-> None]
  /\ life = [p \in Port |-> "none"]
  /\ ended = [p \in Port |-> None]
  /\ unread = [p \in Port |-> 0] /\ hungUp = {}
  /\ selected = {}
  /\ alive = [p \in Port |-> 0] /\ status = [p \in Port |-> None]
  /\ control = [p \in Port |-> <<>>]
  /\ told = [p \in Port |-> None]
  /\ mapping = [i \in Pid |-> None]
  /\ raised = FALSE /\ byte = FALSE
  /\ reaper = "idle"
-----------------------------------------------------------------------------
(* spawn_start                                                             *)

\* The kernel does not give away the pid of a child that was not waited for.
Unused(i) == \A p \in Port : pid[p] = i => life[p] = "reaped"

\* Sooner than any pid comes round again the reaper has removed its entry.
Removed(i) == reaper \in Port => pid[reaper] # i

Spawn(p) ==
  /\ port[p] = "new"
  /\ \E i \in Pid :
       /\ Unused(i) /\ (EarlyReuse \/ Removed(i))
       /\ pid' = [pid EXCEPT ![p] = i]
  /\ life' = [life EXCEPT ![p] = "running"]
  /\ port' = [port EXCEPT ![p] = "spawned"]
  /\ wants' \in {wants, wants \cup {p}}
  /\ UNCHANGED <<ended, pipes, driver, control, mapping, signal, reaper>>

\* No descriptors, no such program, or posix_spawn fails: there is no port.
SpawnFails(p) ==
  /\ port[p] = "new"
  /\ port' = [port EXCEPT ![p] = "closed"]
  /\ UNCHANGED <<wants, child, pipes, driver, control, mapping, signal, reaper>>

\* create_driver_data, then the table: hash_put keeps an entry it finds.
Register(p) ==
  /\ port[p] = "spawned"
  /\ port' = [port EXCEPT ![p] = "open"]
  /\ selected' = selected \cup {p}
  /\ alive' = [alive EXCEPT ![p] = IF p \in wants THEN 1 ELSE 0]
  /\ mapping' = IF p \in wants /\ mapping[pid[p]] = None
                THEN [mapping EXCEPT ![pid[p]] = p] ELSE mapping
  /\ UNCHANGED <<wants, child, pipes, status, told, control, signal, reaper>>
-----------------------------------------------------------------------------
(* The child, its output, and the kernel.                                  *)

Write(p) ==
  /\ port[p] \in {"spawned", "open"} /\ p \notin hungUp
  /\ unread[p] < MaxChunks
  /\ unread' = [unread EXCEPT ![p] = @ + 1]
  /\ UNCHANGED <<port, wants, child, hungUp, driver, control, mapping, signal,
                 reaper>>

\* Its output may be closed before the child ends, or held open after that
\* by a process the child has started.
HangUp(p) ==
  /\ port[p] \in {"spawned", "open"} /\ p \notin hungUp
  /\ hungUp' = hungUp \cup {p}
  /\ UNCHANGED <<port, wants, child, unread, driver, control, mapping, signal,
                 reaper>>

Exit(p, s) ==
  /\ life[p] = "running"
  /\ EarlyExit \/ port[p] # "spawned"
  /\ life' = [life EXCEPT ![p] = "zombie"]
  /\ ended' = [ended EXCEPT ![p] = s]
  /\ raised' = TRUE
  /\ UNCHANGED <<port, wants, pid, pipes, driver, control, mapping, byte,
                 reaper>>

\* sigchld_handler; a full pipe keeps the bytes it has.
Handler ==
  /\ raised
  /\ raised' = FALSE
  /\ byte' = TRUE
  /\ UNCHANGED <<port, wants, child, pipes, driver, control, mapping, reaper>>
-----------------------------------------------------------------------------
(* forker_ready_input: empty the pipe, then reap until waitpid has nobody  *)
(* left, routing each status through the table.                            *)

Drain ==
  /\ reaper = "idle" /\ byte
  /\ byte' = FALSE
  /\ reaper' = "reaping"
  /\ UNCHANGED <<port, wants, child, pipes, driver, control, mapping, raised>>

WaitPid(p) ==
  /\ reaper = "reaping" /\ life[p] = "zombie"
  /\ life' = [life EXCEPT ![p] = "reaped"]
  /\ reaper' = p
  /\ UNCHANGED <<port, wants, pid, ended, pipes, driver, control, mapping,
                 signal>>

\* A control call to such a port is dropped.
Gone(p) == port[p] \in {"eof", "closed"}

\* Mutation: the entry stays in the table.
RouteKeeps ==
  /\ reaper \in Port
  /\ LET q == mapping[pid[reaper]]
     IN  control' = IF q = None \/ Gone(q) THEN control
                    ELSE [control EXCEPT ![q] = Append(@, ended[reaper])]
  /\ reaper' = "reaping"
  /\ UNCHANGED <<port, wants, child, pipes, driver, mapping, signal>>

\* remove_os_pid_mapping and forker_sigchld
Route ==
  /\ reaper \in Port
  /\ LET q == mapping[pid[reaper]]
     IN  control' = IF q = None \/ Gone(q) THEN control
                    ELSE [control EXCEPT ![q] = Append(@, ended[reaper])]
  /\ mapping' = [mapping EXCEPT ![pid[reaper]] = None]
  /\ reaper' = "reaping"
  /\ UNCHANGED <<port, wants, child, pipes, driver, signal>>

\* Mutation: one child is reaped per signal.
ReapedOne ==
  /\ reaper = "reaping"
  /\ reaper' = "idle"
  /\ UNCHANGED <<port, wants, child, pipes, driver, control, mapping, signal>>

ReapedAll ==
  /\ reaper = "reaping" /\ \A p \in Port : life[p] # "zombie"
  /\ reaper' = "idle"
  /\ UNCHANGED <<port, wants, child, pipes, driver, control, mapping, signal>>
-----------------------------------------------------------------------------
(* The port's callbacks.                                                   *)

\* stop: the descriptors and the driver data go, the table is left alone.
Free(p) ==
  /\ unread' = [unread EXCEPT ![p] = 0] /\ hungUp' = hungUp \ {p}
  /\ selected' = selected \ {p}
  /\ alive' = [alive EXCEPT ![p] = 0] /\ status' = [status EXCEPT ![p] = None]
  /\ control' = [control EXCEPT ![p] = <<>>]

\* Mutation: a read is taken for data without looking at what it returned.
ReadDataAlways(p) ==
  /\ port[p] = "open" /\ p \in selected
  /\ unread' = [unread EXCEPT ![p] = @ - 1]
  /\ UNCHANGED <<port, wants, child, hungUp, driver, control, mapping, signal,
                 reaper>>

ReadData(p) ==
  /\ port[p] = "open" /\ p \in selected /\ unread[p] > 0
  /\ unread' = [unread EXCEPT ![p] = @ - 1]
  /\ UNCHANGED <<port, wants, child, hungUp, driver, control, mapping, signal,
                 reaper>>

AtEof(p) == /\ port[p] = "open" /\ p \in selected
            /\ unread[p] = 0 /\ p \in hungUp

\* Mutation: the status is not waited for.
ReadEofAtOnce(p) ==
  /\ AtEof(p)
  /\ Free(p) /\ port' = [port EXCEPT ![p] = "eof"]
  /\ told' = IF alive[p] # 0 THEN [told EXCEPT ![p] = status[p]] ELSE told
  /\ UNCHANGED <<wants, child, mapping, signal, reaper>>

\* port_inp_failure(dd, 0)
ReadEof(p) ==
  /\ AtEof(p)
  /\ IF alive[p] = 1
     THEN /\ selected' = selected \ {p}
          /\ UNCHANGED <<port, pipes, alive, status, control, told>>
     ELSE /\ Free(p) /\ port' = [port EXCEPT ![p] = "eof"]
          /\ told' = IF alive[p] = 2 THEN [told EXCEPT ![p] = status[p]]
                                     ELSE told
  /\ UNCHANGED <<wants, child, mapping, signal, reaper>>

\* Mutation: the descriptor is not polled again.
SpawnControlUnselected(p) ==
  /\ port[p] = "open" /\ control[p] # <<>>
  /\ status' = [status EXCEPT ![p] = Head(control[p])]
  /\ alive' = [alive EXCEPT ![p] = 2]
  /\ control' = [control EXCEPT ![p] = Tail(@)]
  /\ UNCHANGED <<port, wants, child, pipes, selected, told, mapping, signal,
                 reaper>>

\* spawn_control; alive is -1 in the code.
SpawnControl(p) ==
  /\ port[p] = "open" /\ control[p] # <<>>
  /\ status' = [status EXCEPT ![p] = Head(control[p])]
  /\ alive' = [alive EXCEPT ![p] = 2]
  /\ selected' = selected \cup {p}
  /\ control' = [control EXCEPT ![p] = Tail(@)]
  /\ UNCHANGED <<port, wants, child, pipes, told, mapping, signal, reaper>>

\* The owner closes the port or dies.
Stop(p) ==
  /\ port[p] = "open"
  /\ Free(p) /\ port' = [port EXCEPT ![p] = "closed"]
  /\ UNCHANGED <<wants, child, told, mapping, signal, reaper>>

SpawnStart(p) == Spawn(p) \/ SpawnFails(p) \/ Register(p)
Kernel(p) == Write(p) \/ HangUp(p) \/ \E s \in Status : Exit(p, s)
Callback(p) == ReadData(p) \/ ReadEof(p) \/ SpawnControl(p)
ReadyInput == Drain \/ (\E p \in Port : WaitPid(p)) \/ Route \/ ReapedAll

Next == \/ \E p \in Port : SpawnStart(p) \/ Kernel(p) \/ Callback(p) \/ Stop(p)
        \/ Handler \/ ReadyInput

\* spawn_start returns, signals are handled, and the poller calls back every
\* driver whose descriptor or mailbox has something for it.
Fairness ==
  /\ WF_vars(Handler) /\ WF_vars(ReadyInput)
  /\ \A p \in Port : /\ WF_vars(Register(p)) /\ WF_vars(Callback(p))

Spec == Init /\ [][Next]_vars /\ Fairness
-----------------------------------------------------------------------------
(* Properties.                                                             *)

TypeOK ==
  /\ wants \in SUBSET Port
  /\ port \in [Port -> {"new", "spawned", "open", "eof", "closed"}]
  /\ pid \in [Port -> Pid \cup {None}]
  /\ life \in [Port -> {"none", "running", "zombie", "reaped"}]
  /\ ended \in [Port -> Status \cup {None}]
  /\ unread \in [Port -> 0 .. MaxChunks] /\ hungUp \in SUBSET Port
  /\ selected \in SUBSET Port
  /\ alive \in [Port -> 0 .. 2] /\ status \in [Port -> Status \cup {None}]
  /\ control \in [Port -> Seq(Status)]
  /\ told \in [Port -> Status \cup {None}]
  /\ mapping \in [Pid -> Port \cup {None}]
  /\ raised \in BOOLEAN /\ byte \in BOOLEAN
  /\ reaper \in Port \cup {"idle", "reaping"}

\* The table leads from the pid of every child not yet routed to its own
\* port and from no other pid anywhere: entering and removing pids on two
\* threads loses no child and leaves no entry for a later one to inherit.
Unrouted(p) == life[p] \in {"running", "zombie"} \/ reaper = p
Registered(p) == p \in wants /\ port[p] \notin {"new", "spawned"}
TableExact ==
  /\ \A p \in Port : Registered(p) /\ Unrouted(p) => mapping[pid[p]] = p
  /\ \A i \in Pid : mapping[i] # None =>
       pid[mapping[i]] = i /\ Unrouted(mapping[i])

\* Every child that ends is reaped, whatever signals are merged and however
\* they fall into forker_ready_input: no zombies stay.
NoZombies == \A p \in Port : life[p] = "zombie" ~> life[p] = "reaped"

\* "We have eof and want to report exit status, but the process hasn't
\* exited yet.  When it does [...] we get back here with dd->alive == -1 and
\* dd->status set": a port that is not closed by its owner reports the
\* status of a child that ended and closed its output.
StatusArrives ==
  \A p \in Port :
    port[p] = "open" /\ ended[p] # None /\ p \in hungUp ~> Gone(p)

\* The drivers keep the promises of PortExits.
opened == [p \in Port |-> CASE port[p] = "new" -> "no"
                            [] port[p] \in {"spawned", "open"} -> "yes"
                            [] OTHER -> port[p]]
Exits == INSTANCE PortExits
Implements == Exits!Spec
=============================================================================
