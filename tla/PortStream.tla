----------------------------- MODULE PortStream -----------------------------
(***************************************************************************)
(* The bytes of one port of sys_drivers.c, spawned or opened on two        *)
(* descriptors: messages are framed, written at once as far as the kernel  *)
(* takes them and queued for the rest; the queue is emptied by the poller  *)
(* or by an async thread; what comes back arrives in chunks that end       *)
(* anywhere and is cut into messages again.  The peer returns what it      *)
(* reads, so pipe is both directions.                                      *)
(***************************************************************************)
EXTENDS Integers, Sequences

CONSTANTS
  Message,   \* the messages processes send: sequences of bytes
  MaxSent,   \* how many are sent: bounds the run
  Base,      \* bytes are 0 .. Base - 1
  PB,        \* packet_bytes: 1, 2 or 4
  High, Low, \* the watermarks of opts
  PipeSize,  \* what the kernel buffers
  Modes      \* how ports are opened: subset of {"in", "out", "in_out"}

ASSUME PortStreamAssumption ==
  /\ Base \in Nat \ {0, 1} /\ PB \in {1, 2, 4}
  /\ Low \in Nat \ {0} /\ High \in Nat /\ Low <= High
  /\ PipeSize \in Nat \ {0} /\ MaxSent \in Nat
  /\ Message \subseteq Seq(0 .. Base - 1)
  /\ Modes \subseteq {"in", "out", "in_out"}

VARIABLES
  drv,         \* "spawn" or "fd"
  mode,        \* how it was opened
  blocking,    \* dd->blocking is there: written by the async thread
  port,        \* "open", "closing" or how it ended: "normal", "eof", "failed"
  terminating, \* dd->terminating: 0 "no", 1 "normal", 2 "eof"
  q,           \* the driver queue
  busy,        \* dd->busy: senders are suspended
  writing,     \* the poller is asked to call ready_output
  job,         \* driver_async: "none", "queued" or "done", and fd_async's result
  pipe,        \* bytes in the kernel
  peer,        \* "there", "silent" (has closed its output) or "gone"
  ifd,         \* pbuf, buf and remain of the input side
  sent, got    \* messages taken from and given to processes

opts == <<drv, mode, blocking>>
out == <<q, busy, writing, job>>
vars == <<opts, port, terminating, out, pipe, peer, ifd, sent, got>>

Failed == -1  \* fd_async's result if the peer has gone

Least(a, b) == IF a < b THEN a ELSE b
Take(s, n) == SubSeq(s, 1, n)
Drop(s, n) == SubSeq(s, n + 1, Len(s))

-----------------------------------------------------------------------------
(* Framing.                                                                *)

Pow[n \in 0 .. PB] == IF n = 0 THEN 1 ELSE Base * Pow[n - 1]

\* With four bytes of length the length is not looked at: no message here is
\* longer than they can say (4 GiB).
ASSUME LengthAssumption == PB = 4 => \A m \in Message : Len(m) < Pow[PB]

\* put_int32 and lbp: the low PB bytes of the length, the highest first.
Header(len) == [i \in 1 .. PB |-> (len \div Pow[PB - i]) % Base]
Frame(m) == Header(Len(m)) \o m

\* get_int8, get_int16, get_uint32.
Value(b) == LET v[i \in 0 .. Len(b)] == IF i = 0 THEN 0 ELSE v[i - 1] * Base + b[i]
            IN v[Len(b)]

Clean == [pbuf |-> <<>>, buf |-> <<>>, remain |-> 0]

\* The messages in s, and what stays in ifd of the one it ends in.
Scan(s) ==
  LET from[i \in 1 .. Len(s) + 1] ==
        LET left == Len(s) + 1 - (i + PB)
            h == Value(SubSeq(s, i, i + PB - 1))
            rest == from[i + PB + h]
        IN IF left < 0 THEN [msgs |-> <<>>, ifd |-> [Clean EXCEPT !.pbuf = SubSeq(s, i, Len(s))]]
           ELSE IF h <= left
             THEN [rest EXCEPT !.msgs = <<SubSeq(s, i + PB, i + PB + h - 1)>> \o @]
             ELSE [msgs |-> <<>>,
                   ifd |-> [pbuf |-> <<>>, buf |-> SubSeq(s, i + PB, Len(s)), remain |-> h - left]]
  IN from[1]

-----------------------------------------------------------------------------
(* Opening.                                                                *)

\* fd_start: only a terminal is made non-blocking, and if the input is not
\* one too only after it could be opened again.
NonBlocking(otty, itty, reopened) == mode = "in_out" /\ otty /\ (itty \/ reopened)

Init ==
  /\ mode \in Modes /\ drv \in {"spawn", "fd"}
  /\ blocking \in IF drv = "spawn" \/ mode = "in" THEN {FALSE}
                  ELSE {b \in BOOLEAN : \E o, i, r \in BOOLEAN : b = ~NonBlocking(o, i, r)}
  /\ port = "open" /\ terminating = "no"
  /\ q = <<>> /\ busy = FALSE /\ writing = FALSE
  /\ job = [at |-> "none", n |-> 0]
  /\ pipe = <<>> /\ peer = "there" /\ ifd = Clean
  /\ sent = <<>> /\ got = <<>>

\* stop and fd_stop, or the port is gone because its driver reported a
\* failure.  What is still in the queue is dropped with it.
Ends(why) == port' = why /\ UNCHANGED <<opts, terminating, pipe, peer, ifd, sent, got>>
End(why) == Ends(why) /\ UNCHANGED out

-----------------------------------------------------------------------------
(* Output.                                                                 *)

\* Mutation: pushed in front of what is queued.
EnqueueFront(bytes) ==
  /\ q' = bytes \o q
  /\ busy' = (busy \/ Len(q') >= High)

Enqueue(bytes) ==
  /\ q' = q \o bytes
  /\ busy' = (busy \/ Len(q') >= High)

\* Mutation: the low watermark is not looked at.
DequeueBusy(n) == q' = Drop(q, n) /\ UNCHANGED busy

Dequeue(n) ==
  /\ q' = Drop(q, n)
  /\ busy' = (busy /\ Len(q') >= Low)

\* A peer that still answers sends back what it reads.
Returns == peer = "there" /\ mode = "in_out"

\* What writev may take of len bytes, and what becomes of it.
Taken(len) == 0 .. (IF Returns THEN Least(len, PipeSize - Len(pipe)) ELSE len)
Written(bytes) == pipe' = IF Returns THEN pipe \o bytes ELSE pipe

\* The check of output and outputv, for one and two bytes of length only.
TooLong(m) == PB \in {1, 2} /\ Len(m) >= Pow[PB]

\* driver_failure_posix(EINVAL): the length does not fit the header.
OutputTooLong(m) == TooLong(m) /\ End("failed")

\* A port opened with "in" has a negative ofd; nobody reads what a peer that
\* has gone is sent.
OutputFails == q = <<>> /\ ~blocking /\ (mode = "in" \/ peer = "gone") /\ End("failed")

\* Behind what is queued.
OutputQueued(m) == q # <<>> /\ Enqueue(Frame(m)) /\ UNCHANGED <<writing, job, pipe>>

\* At once as far as the kernel takes it, then the poller's turn.
\* Mutation: after a partial write the whole frame is queued.
OutputDirectAgain(m) ==
  /\ q = <<>> /\ ~blocking /\ mode # "in" /\ peer # "gone"
  /\ \E n \in Taken(Len(Frame(m))) :
       /\ Written(Take(Frame(m), n))
       /\ IF n = Len(Frame(m)) THEN UNCHANGED <<q, busy, writing>>
          ELSE Enqueue(Frame(m)) /\ writing' = TRUE
  /\ UNCHANGED job

OutputDirect(m) ==
  /\ q = <<>> /\ ~blocking /\ mode # "in" /\ peer # "gone"
  /\ \E n \in Taken(Len(Frame(m))) :
       /\ Written(Take(Frame(m), n))
       /\ IF n = Len(Frame(m)) THEN UNCHANGED <<q, busy, writing>>
          ELSE Enqueue(Drop(Frame(m), n)) /\ writing' = TRUE
  /\ UNCHANGED job

OutputAsync(m) ==
  /\ q = <<>> /\ blocking
  /\ Enqueue(Frame(m))
  /\ job' = [at |-> "queued", n |-> 0]
  /\ UNCHANGED <<writing, pipe>>

\* output and outputv; the emulator suspends who sends to a busy port.
Output(m) ==
  /\ port = "open" /\ ~busy /\ Len(sent) < MaxSent
  /\ \/ OutputTooLong(m)
     \/ ~TooLong(m) /\ OutputFails
     \/ /\ ~TooLong(m)
        /\ OutputQueued(m) \/ OutputDirect(m) \/ OutputAsync(m)
        /\ sent' = Append(sent, m)
        /\ UNCHANGED <<opts, port, terminating, peer, ifd, got>>

Up == port \in {"open", "closing"}

\* The poller found ofd writable.
ReadyOutput ==
  /\ Up /\ writing
  /\ \/ /\ q = <<>> /\ terminating # "no" /\ End("normal")
     \/ /\ q = <<>> /\ terminating = "no"
        /\ busy' = FALSE /\ writing' = FALSE
        /\ UNCHANGED <<opts, port, terminating, q, job, pipe, peer, ifd, sent, got>>
     \/ /\ q # <<>> /\ peer # "gone"
        /\ \E n \in Taken(Len(q)) \ {0} : Written(Take(q, n)) /\ Dequeue(n)
        /\ UNCHANGED <<opts, port, terminating, writing, job, peer, ifd, sent, got>>
     \/ q # <<>> /\ peer = "gone" /\ End("failed")

\* In an async thread: a snapshot of the queue, written without the lock.
FdAsync ==
  /\ Up /\ job.at = "queued"
  /\ \/ /\ peer # "gone"
        /\ \E n \in Taken(Len(q)) :
             /\ n = 0 => Taken(Len(q)) = {0}
             /\ Written(Take(q, n)) /\ job' = [at |-> "done", n |-> n]
     \/ peer = "gone" /\ job' = [at |-> "done", n |-> Failed] /\ UNCHANGED pipe
  /\ UNCHANGED <<opts, port, terminating, q, busy, writing, peer, ifd, sent, got>>

\* Mutation: what the thread did not write is not given to it again.
FdReadyAsyncOnce ==
  /\ Up /\ job.at = "done"
  /\ \/ job.n = Failed /\ End("failed")
     \/ /\ job.n # Failed /\ Dequeue(job.n) /\ UNCHANGED writing
        /\ job' = [at |-> "none", n |-> 0]
        /\ Ends(IF q' = <<>> /\ terminating # "no" THEN terminating ELSE port)

\* The port again, with the result.  "Normal" and "eof" wait for the queue.
FdReadyAsync ==
  /\ Up /\ job.at = "done"
  /\ \/ job.n = Failed /\ End("failed")
     \/ /\ job.n # Failed /\ Dequeue(job.n) /\ UNCHANGED writing
        /\ job' = [at |-> IF q' = <<>> THEN "none" ELSE "queued", n |-> 0]
        /\ Ends(IF q' = <<>> /\ terminating # "no" THEN terminating ELSE port)

\* The owner closes the port: the emulator keeps it until its queue is empty
\* and tells the fd driver through fd_flush.
Close ==
  /\ port = "open"
  /\ \/ q = <<>> /\ End("normal")
     \/ /\ q # <<>> /\ port' = "closing"
        /\ terminating' = IF drv = "fd" /\ terminating = "no" THEN "normal" ELSE terminating
        /\ UNCHANGED <<opts, out, pipe, peer, ifd, sent, got>>

Drained == port = "closing" /\ q = <<>> /\ job.at = "none" /\ End("normal")

-----------------------------------------------------------------------------
(* Input.                                                                  *)

\* create_driver_data selects ifd whatever a spawned port was opened with.
Reading == Up /\ terminating # "eof" /\ (drv = "spawn" \/ mode # "out")

\* driver_output: a closing port delivers nothing.
Give(msgs) == got' = IF port = "closing" THEN got ELSE got \o msgs

\* Mutation: a read for the rest of a message is not bounded by it.
ReadyInputAll ==
  /\ Reading /\ pipe # <<>>
  /\ \E n \in 1 .. Len(pipe) :
       /\ pipe' = Drop(pipe, n)
       /\ IF ifd.remain = 0
          THEN LET r == Scan(ifd.pbuf \o Take(pipe, n))
               IN Give(r.msgs) /\ ifd' = r.ifd
          ELSE IF n = ifd.remain
          THEN Give(<<ifd.buf \o Take(pipe, n)>>) /\ ifd' = Clean
          ELSE /\ ifd' = [ifd EXCEPT !.buf = @ \o Take(pipe, n), !.remain = @ - n]
               /\ UNCHANGED got
  /\ UNCHANGED <<opts, port, terminating, out, peer, sent>>

\* A read ends anywhere: in a header, in a message, after several.
ReadyInput ==
  /\ Reading /\ pipe # <<>>
  /\ \E n \in 1 .. Len(pipe) :
       /\ ifd.remain > 0 => n <= ifd.remain
       /\ pipe' = Drop(pipe, n)
       /\ IF ifd.remain = 0
          THEN LET r == Scan(ifd.pbuf \o Take(pipe, n))
               IN Give(r.msgs) /\ ifd' = r.ifd
          ELSE IF n = ifd.remain
          THEN Give(<<ifd.buf \o Take(pipe, n)>>) /\ ifd' = Clean
          ELSE /\ ifd' = [ifd EXCEPT !.buf = @ \o Take(pipe, n), !.remain = @ - n]
               /\ UNCHANGED got
  /\ UNCHANGED <<opts, port, terminating, out, peer, sent>>

\* Mutation: the end of the input is the end of the port.
InputEndsAtOnce == Reading /\ pipe = <<>> /\ peer # "there" /\ End("eof")

\* port_inp_failure: what the async thread has not written keeps the port.
InputEnds ==
  /\ Reading /\ pipe = <<>> /\ peer # "there"
  /\ \/ /\ blocking /\ q # <<>>
        /\ terminating' = "eof" /\ ifd' = Clean
        /\ UNCHANGED <<opts, port, out, pipe, peer, sent, got>>
     \/ ~(blocking /\ q # <<>>) /\ End("eof")

\* The peer closes its output, with any part of it unsent, or both ends.
PeerEnds ==
  /\ Up
  /\ \/ /\ peer = "there" /\ peer' \in {"silent", "gone"}
        /\ \E n \in 0 .. Len(pipe) : pipe' = Take(pipe, n)
     \/ peer = "silent" /\ peer' = "gone" /\ UNCHANGED pipe
  /\ UNCHANGED <<opts, port, terminating, out, ifd, sent, got>>

-----------------------------------------------------------------------------
Poll == ReadyOutput \/ FdAsync \/ FdReadyAsync \/ ReadyInput \/ InputEnds \/ Drained

Next == (\E m \in Message : Output(m)) \/ Poll \/ Close \/ PeerEnds

Fairness ==
  /\ WF_vars(ReadyOutput) /\ WF_vars(FdAsync) /\ WF_vars(FdReadyAsync)
  /\ WF_vars(ReadyInput) /\ WF_vars(InputEnds) /\ WF_vars(Drained)

Spec == Init /\ [][Next]_vars /\ Fairness

-----------------------------------------------------------------------------
(* Properties.                                                             *)

\* The values the variables take: at most one write by the async thread, the
\* part of a message that has come is shorter than the message.
TypeOK ==
  /\ drv \in {"spawn", "fd"} /\ mode \in Modes /\ blocking \in BOOLEAN
  /\ port \in {"open", "closing", "normal", "eof", "failed"}
  /\ terminating \in {"no", "normal", "eof"} /\ peer \in {"there", "silent", "gone"}
  /\ q \in Seq(0 .. Base - 1) /\ busy \in BOOLEAN /\ writing \in BOOLEAN
  /\ job.at \in {"none", "queued", "done"} /\ job.n \in {Failed} \cup 0 .. Len(q)
  /\ Len(pipe) <= PipeSize
  /\ Len(ifd.pbuf) < PB /\ ifd.remain \in Nat /\ (ifd.remain = 0 => ifd.buf = <<>>)
  /\ sent \in Seq(Message) /\ Len(got) <= Len(sent)

Bytes(msgs) ==
  LET b[i \in 0 .. Len(msgs)] == IF i = 0 THEN <<>> ELSE b[i - 1] \o Frame(msgs[i])
  IN b[Len(msgs)]

\* What the input side has of the message it is in.
Begun == IF ifd.remain = 0 THEN ifd.pbuf
         ELSE Header(Len(ifd.buf) + ifd.remain) \o ifd.buf

\* No byte is lost, doubled or out of place between the two ends, whoever
\* writes (output, ready_output, fd_async between its write and the dequeue)
\* and however writes and reads are cut.
NothingLost ==
  port = "open" /\ Returns =>
    Bytes(sent) = Bytes(got) \o Begun \o pipe \o Drop(q, IF job.n = Failed THEN 0 ELSE job.n)

\* What is queued has somebody who will write it, only one of poller and
\* async thread, and senders are suspended exactly between the watermarks:
\* neither is a queue above High unsuspended nor a sender asleep below Low.
QueueServed ==
  Up => /\ q # <<>> => (IF blocking THEN job.at # "none" ELSE writing)
        /\ job.at # "none" => blocking /\ q # <<>>
        /\ Len(q) >= High => busy
        /\ busy => Len(q) >= Low

\* A port its owner closed, and one of the fd driver that met the end of its
\* input while the async thread was behind, has written everything first.
Flushed == port = "normal" \/ (port = "eof" /\ blocking) => q = <<>>

\* A suspended sender is let go or the port ends, and a closed port ends.
NeverStuck ==
  /\ (Up /\ busy) ~> (~Up \/ ~busy)
  /\ (port = "closing") ~> ~Up

\* What arrives are the messages sent, whole and in order, and all of them
\* while peer and port stay up.
Line == IF port # "open" \/ terminating # "no" THEN "down"
        ELSE IF Returns THEN "answers" ELSE "ending"
Queue == INSTANCE MessageQueue WITH line <- Line
Implements == Queue!Spec
=============================================================================
