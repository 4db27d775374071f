----------------------------- MODULE PortExits -----------------------------
(***************************************************************************)
(* What a spawned port promises to the process that opened it: the output  *)
(* of its own child, all of it, and then, if it was opened with            *)
(* exit_status, that child's status.  How the status finds its way from    *)
(* SIGCHLD to the port is module Forker, which implements this one.        *)
(***************************************************************************)
EXTENDS Naturals

CONSTANTS Port, Status, MaxChunks, None

VARIABLES opened,  \* opened[p]: "no", "yes", "eof" or "closed"
          wants,   \* ports opened with exit_status
          ended,   \* ended[p]: the status p's child ended with, or None
          unread,  \* unread[p]: chunks of output in the pipe
          hungUp,  \* ports whose pipe has no writer left
          told     \* told[p]: the status p reported, or None

vars == <<opened, wants, ended, unread, hungUp, told>>

Init ==
  /\ opened = [p \in Port |-> "no"]
  /\ wants = {}
  /\ ended = [p \in Port |-> None]
  /\ unread = [p \in Port |-> 0]
  /\ hungUp = {}
  /\ told = [p \in Port |-> None]

Open(p) ==
  /\ opened[p] = "no"
  /\ opened' = [opened EXCEPT ![p] = "yes"]
  /\ wants' \in {wants, wants \cup {p}}
  /\ UNCHANGED <<ended, unread, hungUp, told>>

\* Output nobody read is lost with the port.
Discard(p) ==
  /\ unread' = [unread EXCEPT ![p] = 0]
  /\ hungUp' = hungUp \ {p}

\* The owner closes the port, or it could not be opened.
Close(p) ==
  /\ opened[p] \in {"no", "yes"}
  /\ opened' = [opened EXCEPT ![p] = "closed"]
  /\ Discard(p)
  /\ UNCHANGED <<wants, ended, told>>

\* The child, or one it has started.
Write(p) ==
  /\ opened[p] = "yes" /\ p \notin hungUp /\ unread[p] < MaxChunks
  /\ unread' = [unread EXCEPT ![p] = @ + 1]
  /\ UNCHANGED <<opened, wants, ended, hungUp, told>>

HangUp(p) ==
  /\ opened[p] = "yes" /\ p \notin hungUp
  /\ hungUp' = hungUp \cup {p}
  /\ UNCHANGED <<opened, wants, ended, unread, told>>

End(p, s) ==
  /\ opened[p] # "no" /\ ended[p] = None
  /\ ended' = [ended EXCEPT ![p] = s]
  /\ UNCHANGED <<opened, wants, unread, hungUp, told>>

Read(p) ==
  /\ opened[p] = "yes" /\ unread[p] > 0
  /\ unread' = [unread EXCEPT ![p] = @ - 1]
  /\ UNCHANGED <<opened, wants, ended, hungUp, told>>

AtEnd(p) == opened[p] = "yes" /\ p \in hungUp /\ unread[p] = 0

\* End of output: a port that wants the status reports it once, then closes.
Tell(p) ==
  /\ AtEnd(p)
  /\ IF p \in wants
     THEN ended[p] # None /\ told' = [told EXCEPT ![p] = ended[p]]
     ELSE UNCHANGED told
  /\ opened' = [opened EXCEPT ![p] = "eof"]
  /\ Discard(p)
  /\ UNCHANGED <<wants, ended>>

Next == \E p \in Port :
  \/ Open(p) \/ Close(p) \/ Write(p) \/ HangUp(p) \/ Read(p) \/ Tell(p)
  \/ \E s \in Status : End(p, s)

Fairness == \A p \in Port : WF_vars(Read(p)) /\ WF_vars(Tell(p))

Spec == Init /\ [][Next]_vars /\ Fairness
=============================================================================
