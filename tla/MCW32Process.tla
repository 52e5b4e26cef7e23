---------------------------- MODULE MCW32Process ----------------------------
(***************************************************************************)
(* Situations for W32Process: the loop of sshd-session, reading a socket   *)
(* or a pipe, with SIGCHLD handled or ignored; and blocking copies.        *)
(***************************************************************************)
EXTENDS W32Process

Loop(socket, ignore, bytes, pids, signals, fragile) ==
    [blocking |-> FALSE, socket |-> socket, ignore |-> ignore, bytes |-> bytes,
     pids |-> pids, signals |-> signals, fragile |-> fragile]
Blocking(socket, bytes, pids, signals) ==
    [blocking |-> TRUE, socket |-> socket, ignore |-> FALSE, bytes |-> bytes,
     pids |-> pids, signals |-> signals, fragile |-> FALSE]

\* Copying with a child and a signal to interrupt it, with the sink lost,
\* with many children, and blocking with nothing to interrupt a write.
Copies == {Loop(TRUE, FALSE, 3, 1, {}, FALSE), Loop(FALSE, FALSE, 2, 1, {"INT"}, FALSE),
           Loop(FALSE, FALSE, 3, 0, {}, TRUE),
           Loop(FALSE, FALSE, 0, 4, {}, FALSE), Loop(FALSE, TRUE, 0, 4, {}, FALSE)}
          \cup {Blocking(socket, 3, 0, {"ALRM"}) : socket \in BOOLEAN}
          \cup {Blocking(socket, 0, 0, {"INT"}) : socket \in BOOLEAN}

SendsWithChild == {Blocking(FALSE, 1, 1, {})}
LoopWithSignal == {Loop(FALSE, FALSE, 1, 0, {"INT"}, FALSE)}
=====
