------------------------------ MODULE Listener ------------------------------
(***************************************************************************)
(* sshd's listening process (server_accept_loop in sshd.c): it accepts     *)
(* connections, starts a process for each, sends it the configuration and  *)
(* host keys over a socket pair, and tracks it in a slot until it has      *)
(* authenticated its user or exited.  SIGHUP restarts the listener.        *)
(*                                                                         *)
(* The loop is single-threaded: each handler of one event is a step.  The  *)
(* processes it started and the signals run concurrently.  A process is    *)
(* what sshd-session.c shows of itself on its socket pair: it says 0 when  *)
(* it has received its state, 1 when its user is authenticated, and closes *)
(* its end then or when it exits.                                          *)
(***************************************************************************)
EXTENDS SrcLimit, Sequences, SequencesExt

CONSTANTS
    Begin,      \* MaxStartups begin and rate: early random drop
    Rate,
    Pids,       \* bound: process ids that may be in use at a time
    Statuses    \* bound: how a process may exit, as a penalty type or "none"

Slots == 1..MaxStartups
Fds == 1..(MaxStartups + 1)
None == 0

ASSUME StartAssumption == /\ Begin \in 0..MaxStartups /\ Rate \in 1..100
                          /\ None \notin Pids
                          /\ Statuses \subseteq PenaltyTypes \cup {"none"}

VARIABLES
    slot,       \* slot[i]: struct early_child
    active,     \* children_active
    listening,  \* children that may still hold the listening sockets
    src,        \* srclimit.c: unauthenticated connections per source
    tab,        \* srclimit.c: penalties
    flags,      \* signals received, and "lameduck"
    sock,       \* sock[fd]: what the child's end of the pair has done
    proc,       \* proc[pid]: the processes started
    fault       \* a fatal() or an impossible message

vars == <<slot, active, listening, src, tab, flags, sock, proc, fault>>
world == <<sock, proc>>

FreeSlot == [pipe |-> None, early |-> FALSE, stage |-> "done",
             pid |-> None, host |-> NoHost]
NoProc == [st |-> "none", fd |-> None, host |-> NoHost, status |-> "none",
           authed |-> FALSE, ours |-> FALSE]
Closed == [open |-> FALSE, got |-> 0, said |-> <<>>]

Init ==
    /\ slot = [i \in Slots |-> FreeSlot]
    /\ active = 0 /\ listening = 0
    /\ src = {} /\ tab = <<>> /\ flags = {}
    /\ sock = [f \in Fds |-> Closed]
    /\ proc = [p \in Pids |-> NoProc]
    /\ fault = "none"

----------------------------------------------------------------------------
(* The children array.                                                     *)

\* child_register's test for a slot in use.
Used(s) == s.pipe # None \/ s.stage # "done" \/ s.pid # None
UsedSlots == {i \in Slots : Used(slot[i])}

\* close() of the listener's end: the number may be used again, and the
\* child on the other side is cut off.
Hangup(fd) ==
    /\ sock' = IF fd = None THEN sock ELSE [sock EXCEPT ![fd] = Closed]
    /\ proc' = [p \in Pids |->
                  IF fd # None /\ proc[p].fd = fd THEN [proc[p] EXCEPT !.fd = None]
                                                  ELSE proc[p]]

\* Mutant: the per-source entry is not given back.
ForgetfulClose(i, force_final) ==
    LET s == slot[i]
        final == s.pid = None \/ force_final
    IN  /\ slot' = [slot EXCEPT ![i] = IF final THEN FreeSlot ELSE [s EXCEPT !.pipe = None]]
        /\ active' = IF final THEN active - 1 ELSE active
        /\ src' = src

\* child_close and child_finish: the slot of a child that has not exited yet
\* is kept, unless force_final.
child_close(i, force_final) ==
    LET s == slot[i]
        final == s.pid = None \/ force_final
    IN  /\ slot' = [slot EXCEPT ![i] = IF final THEN FreeSlot ELSE [s EXCEPT !.pipe = None]]
        /\ active' = IF final THEN active - 1 ELSE active
        /\ src' = srclimit_done(src, s.pipe)

Running == fault = "none"

----------------------------------------------------------------------------
(* Accepting a connection.                                                 *)

\* Mutant: drops one connection too late.
LateDropProbability(startups) ==
    CASE startups < Begin -> 0
      [] startups > MaxStartups \/ Rate = 100 -> 100
      [] OTHER -> Rate

\* The percentage of connections should_drop_connection drops.
DropProbability(startups) ==
    CASE startups < Begin -> 0
      [] startups >= Begin /\ (startups >= MaxStartups \/ Rate = 100) -> 100
      [] OTHER -> ((100 - Rate) * (startups - Begin)) \div (MaxStartups - Begin) + Rate

\* Mutant: the per-source limit is not looked at.
DropForPenalty(h, r) == Penalised(tab, h) \/ r < DropProbability(active)

\* r stands for arc4random_uniform(100).
drop_connection(h, r) ==
    \/ Penalised(tab, h)
    \/ r < DropProbability(active)
    \/ ~srclimit_check_allow(src, h)

DropConnection(h, r) ==
    /\ Running /\ "lameduck" \notin flags
    /\ drop_connection(h, r)
    /\ tab' = AfterCheck(tab, h)
    /\ UNCHANGED <<slot, active, listening, src, flags, world, fault>>

\* The listener's end of the socketpair(): some number not in use.
NewFd == CHOOSE fd \in Fds : \A i \in Slots : slot[i].pipe # fd
\* The first slot child_register finds free.
NewSlot == CHOOSE i \in Slots \ UsedSlots : \A j \in Slots \ UsedSlots : i <= j

\* The connection is accepted: child_register, then fork() gives pid, or
\* None when it fails and with it the child's end of the pair is closed.
AcceptConnection(h, r, pid) ==
    /\ Running /\ "lameduck" \notin flags
    /\ ~drop_connection(h, r)
    /\ pid # None => proc[pid].st = "none"
    /\ tab' = AfterCheck(tab, h)
    /\ src' = Stored(src, h, NewFd)
    /\ IF UsedSlots = Slots \/ active >= MaxStartups
       THEN /\ fault' = "slots"
            /\ UNCHANGED <<slot, active, listening, world>>
       ELSE /\ slot' = [slot EXCEPT ![NewSlot] =
                          [pipe |-> NewFd, early |-> TRUE, stage |-> "config",
                           pid |-> pid, host |-> h]]
            /\ active' = active + 1 /\ listening' = listening + 1
            /\ sock' = [sock EXCEPT ![NewFd] = [Closed EXCEPT !.open = (pid # None)]]
            /\ proc' = IF pid = None THEN proc
                       ELSE [proc EXCEPT ![pid] = [NoProc EXCEPT !.st = "waiting",
                                !.fd = NewFd, !.host = h, !.ours = TRUE]]
            /\ UNCHANGED fault
    /\ UNCHANGED flags

----------------------------------------------------------------------------
(* Events on a child's pipe.                                               *)

\* Mutants: the child is counted out although it already reported, or never.
EagerSubtract(i) == 1
NeverSubtract(i) == 0

\* An early child that goes away no longer holds the listening sockets.
WasListening(i) == IF slot[i].early THEN 1 ELSE 0

\* POLLOUT: configuration first, host keys next.  A short write changes
\* nothing that matters here; writing to a closed pair fails.
WriteState(i) ==
    /\ Running /\ slot[i].pipe # None /\ slot[i].stage # "done"
    /\ LET fd == slot[i].pipe
       IN  IF sock[fd].open
           THEN /\ slot' = [slot EXCEPT ![i].stage = IF @ = "config" THEN "keys" ELSE "done"]
                /\ sock' = [sock EXCEPT ![fd].got = @ + 1]
                /\ UNCHANGED <<active, listening, src, proc>>
           ELSE /\ listening' = listening - WasListening(i)
                /\ child_close(i, FALSE)
                /\ Hangup(fd)
    /\ UNCHANGED <<tab, flags, fault>>

\* The child closed the pipe, having said everything.
PipeClosed(i) ==
    /\ Running /\ slot[i].pipe # None
    /\ LET fd == slot[i].pipe
       IN  /\ sock[fd].said = <<>> /\ ~sock[fd].open
           /\ Hangup(fd)
    /\ listening' = listening - WasListening(i)
    /\ child_close(i, FALSE)
    /\ UNCHANGED <<tab, flags, fault>>

\* The child says 0: it has its state and no listening socket; or 1: its
\* user is authenticated.  Anything else is a problem child, killed by the
\* code; here it is a fault, which NoFault shows cannot happen.
PipeMessage(i) ==
    /\ Running /\ slot[i].pipe # None
    /\ LET fd == slot[i].pipe
           s == slot[i]
       IN  /\ sock[fd].said # <<>>
           /\ CASE s.stage # "config" /\ s.early /\ Head(sock[fd].said) = 0 ->
                     /\ slot' = [slot EXCEPT ![i].early = FALSE]
                     /\ listening' = listening - 1
                     /\ sock' = [sock EXCEPT ![fd].said = Tail(@)]
                     /\ UNCHANGED <<active, src, proc, fault>>
                [] s.stage # "config" /\ ~s.early /\ Head(sock[fd].said) = 1 ->
                     /\ child_close(i, TRUE)
                     /\ Hangup(fd)
                     /\ UNCHANGED <<listening, fault>>
                [] OTHER ->
                     /\ fault' = "problem"
                     /\ UNCHANGED <<slot, active, listening, src, world>>
    /\ UNCHANGED <<tab, flags>>

----------------------------------------------------------------------------
(* Signals.                                                                *)

\* Mutant: waits for one child per SIGCHLD, which may stand for many.
OneZombie == LET dead == {p \in Pids : proc[p].st = "zombie"}
             IN  IF dead = {} THEN {} ELSE {CHOOSE p \in dead : TRUE}

Zombies == {p \in Pids : proc[p].st = "zombie"}
Reaped == {i \in Slots : slot[i].pid \in Zombies}

\* The penalties of all reaped children, in the order of their slots.
Punished ==
    FoldLeft(LAMBDA t, i : IF i \in Reaped
                           THEN srclimit_penalise(t, slot[i].host, proc[slot[i].pid].status)
                           ELSE t,
             tab, [i \in Slots |-> i])

\* child_reap_all_exited: every exited child is waited for, its exit status
\* punished, and its slot freed if its pipe is closed.
ChildReapAllExited ==
    LET finished == {i \in Reaped : slot[i].pipe = None}
    IN  /\ Running /\ "SIGCHLD" \in flags
        /\ flags' = flags \ {"SIGCHLD"}
        /\ slot' = [i \in Slots |-> CASE i \in finished -> FreeSlot
                                      [] i \in Reaped \ finished -> [slot[i] EXCEPT !.pid = None]
                                      [] OTHER -> slot[i]]
        /\ active' = active - Cardinality(finished)
        /\ tab' = Punished
        /\ proc' = [p \in Pids |-> IF p \in Zombies THEN NoProc ELSE proc[p]]
        /\ fault' = IF Cardinality(finished) > active THEN "underflow" ELSE fault
        /\ UNCHANGED <<listening, src, sock>>

ReceiveSighup ==
    /\ Running /\ "SIGHUP" \notin flags
    /\ flags' = flags \cup {"SIGHUP"}
    /\ UNCHANGED <<slot, active, listening, src, tab, world, fault>>

\* Mutant: off by one, restarts while a child may be waiting.
HastyRestart == listening <= 1

\* No child holds the listening sockets or waits for its state.
MayRestart == listening <= 0

\* After SIGHUP no connection is accepted any more; when no child is left
\* that may hold the listening sockets, sighup_restart closes the pipes and
\* executes sshd anew, which knows nothing of the old children.
HandleSighup ==
    /\ Running /\ "SIGHUP" \in flags
    /\ IF ~MayRestart
       THEN /\ flags' = flags \cup {"lameduck"}
            /\ UNCHANGED <<slot, active, listening, src, tab, world>>
       ELSE /\ slot' = [i \in Slots |-> FreeSlot]
            /\ active' = 0 /\ listening' = 0
            /\ src' = {} /\ tab' = <<>> /\ flags' = {}
            /\ sock' = [f \in Fds |-> Closed]
            /\ proc' = [p \in Pids |-> [proc[p] EXCEPT !.fd = None, !.ours = FALSE]]
    /\ UNCHANGED fault

----------------------------------------------------------------------------
(* The processes, and time.                                                *)

Say(p, c) ==
    sock' = IF proc[p].fd = None THEN sock
            ELSE [sock EXCEPT ![proc[p].fd].said = Append(@, c),
                              ![proc[p].fd].open = (c = 0)]

ChildReady(p) ==
    /\ Running /\ proc[p].st = "waiting" /\ proc[p].fd # None
    /\ sock[proc[p].fd].got = 2
    /\ Say(p, 0)
    /\ proc' = [proc EXCEPT ![p].st = "ready"]
    /\ UNCHANGED <<slot, active, listening, src, tab, flags, fault>>

ChildAuthenticated(p) ==
    /\ Running /\ proc[p].st = "ready" /\ ~proc[p].authed
    /\ Say(p, 1)
    /\ proc' = [proc EXCEPT ![p].authed = TRUE, ![p].fd = None]
    /\ UNCHANGED <<slot, active, listening, src, tab, flags, fault>>

\* What the exit status of a process says: an authentication can only have
\* been refused before one succeeded, and once the process is ready.
Sayable(p) ==
    {"none", "noauth", "crash"}
        \cup IF proc[p].st = "ready" /\ ~proc[p].authed THEN PenaltyTypes ELSE {}

ChildExits(p, status) ==
    /\ Running /\ proc[p].st \in {"waiting", "ready"}
    /\ status \in Sayable(p)
    /\ proc' = [proc EXCEPT ![p].st = "zombie", ![p].status = status, ![p].fd = None]
    /\ sock' = IF proc[p].fd = None THEN sock
               ELSE [sock EXCEPT ![proc[p].fd].open = FALSE]
    /\ flags' = flags \cup {"SIGCHLD"}
    /\ UNCHANGED <<slot, active, listening, src, tab, fault>>

Tick ==
    /\ Running /\ \E b \in DOMAIN tab : tab[b].left >= 0
    /\ tab' = [b \in DOMAIN tab |->
                 [tab[b] EXCEPT !.left = IF @ < 0 THEN @ ELSE @ - 1]]
    /\ UNCHANGED <<slot, active, listening, src, flags, world, fault>>

----------------------------------------------------------------------------

Connect(h) ==
    \E r \in {0, 99} : \/ DropConnection(h, r)
                       \/ \E pid \in Pids \cup {None} : AcceptConnection(h, r, pid)

Next ==
    \/ \E h \in Hosts \cup {NoHost} : Connect(h)
    \/ \E i \in Slots : WriteState(i) \/ PipeClosed(i) \/ PipeMessage(i)
    \/ ChildReapAllExited
    \/ ReceiveSighup
    \/ HandleSighup
    \/ \E p \in Pids : \/ ChildReady(p) \/ ChildAuthenticated(p)
                       \/ \E status \in Statuses : ChildExits(p, status)
    \/ Tick

Spec == Init /\ [][Next]_vars

\* The loop serves every event in the end, and a process starts up, and
\* authenticates its user or exits (LoginGraceTime).  Time passes.
Fairness ==
    /\ \A i \in Slots : WF_vars(WriteState(i)) /\ WF_vars(PipeClosed(i)) /\ WF_vars(PipeMessage(i))
    /\ WF_vars(ChildReapAllExited) /\ WF_vars(HandleSighup) /\ WF_vars(Tick)
    /\ \A p \in Pids : /\ WF_vars(ChildReady(p))
                       /\ WF_vars(ChildAuthenticated(p)
                                  \/ \E status \in Statuses : ChildExits(p, status))

FairSpec == Spec /\ Fairness

----------------------------------------------------------------------------
(* Properties.                                                             *)

\* Type invariant.
TypeOK ==
    /\ slot \in [Slots -> [pipe : Fds \cup {None}, early : BOOLEAN,
                            stage : {"config", "keys", "done"},
                            pid : Pids \cup {None}, host : Hosts \cup {NoHost}]]
    /\ active \in Nat /\ listening \in Nat
    /\ src \in SUBSET (Fds \X Blocks)
    /\ flags \in SUBSET {"SIGCHLD", "SIGHUP", "lameduck"}
    /\ sock \in [Fds -> [open : BOOLEAN, got : 0..2, said : Seq({0, 1})]]
    /\ proc \in [Pids -> [st : {"none", "waiting", "ready", "zombie"},
                           fd : Fds \cup {None}, host : Hosts \cup {NoHost},
                           status : PenaltyTypes \cup {"none"},
                           authed : BOOLEAN, ours : BOOLEAN]]
    /\ fault \in {"none", "slots", "underflow", "problem"}

\* The listener never runs out of slots it has promised, never frees one
\* twice, and never hears an unexpected message from its children (the
\* fatal() calls of child_register and child_finish, problem_child).
NoFault == fault = "none"

\* MaxStartups and PerSourceMaxStartups limit what they are meant to: the
\* processes that have not authenticated, however their pipes, exits and
\* the listener's bookkeeping interleave (child_close, child_reap,
\* srclimit_done).
Unauthenticated ==
    {p \in Pids : proc[p].ours /\ proc[p].st \in {"waiting", "ready"} /\ ~proc[p].authed}
StartupsLimited ==
    /\ Cardinality(Unauthenticated) <= MaxStartups
    /\ \A b \in Blocks :
          Cardinality({p \in Unauthenticated : proc[p].host # NoHost /\ Block[proc[p].host] = b})
              <= MaxPersource

\* The per-source list holds one entry for every open pipe and no other,
\* although its key, the number of the pipe, is used again as soon as the
\* pipe is closed (srclimit_done in child_close and child_finish).
SourcesTracked ==
    src = {<<slot[i].pipe, Block[slot[i].host]>> :
             i \in {j \in Slots : slot[j].pipe # None /\ slot[j].host # NoHost}}

\* A process that waits for its configuration and keys always has a listener
\* that will send them, also across SIGHUP (the listening counter).
NeverStranded ==
    \A p \in Pids : proc[p].st = "waiting" =>
        \E i \in Slots : /\ slot[i].pid = p /\ slot[i].pipe = proc[p].fd
                         /\ slot[i].pipe # None

\* No slot is lost: every slot is free again and again, in whatever order
\* the pipe's end, the exit and the authentication of its child are noticed
\* (child_close, child_reap, child_finish).
SlotsRecycled == \A i \in Slots : []<>(~Used(slot[i]) \/ fault # "none")

\* A restart that was asked for takes place: no child leaves the count of
\* those that may hold the listening sockets too high (listening).
SighupCompletes == "SIGHUP" \in flags ~> "SIGHUP" \notin flags

\* Nobody is refused for ever: with no penalties but those of connections
\* already accepted, a penalty ends.
LockoutEnds == \A h \in Hosts : []<>(~Penalised(tab, h))
=====
