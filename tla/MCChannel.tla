----------------------------- MODULE MCChannel -----------------------------
(***************************************************************************)
(* Model checking of Channel: the channels the runs put to work.  A        *)
(* behaviour belongs to one scenario, chosen at the start; the constants   *)
(* of Channel in the .cfg are those of the scenario "session".             *)
(***************************************************************************)
EXTENDS Channel

\* How many bytes each application has to say.
Says(n, m) == [p \in Peers |-> IF p = "client" THEN n ELSE m]
OneEach == Says(1, 1)
ServerTwo == Says(1, 2)
OnlyServer == Says(0, 2)
ClientThree == Says(3, 1)

----------------------------------------------------------------------------
(* The other scenarios: a session of a mux client, one whose applications  *)
(* read to the end, one on a pty, and a forwarded TCP connection.          *)

CONSTANT Scenarios
VARIABLE scenario

Mux == INSTANCE Channel WITH
    Kind <- "session", DetachClose <- TRUE, Bytes <- OnlyServer, StderrBytes <- 0,
    ErrorText <- 1, Expiring <- Peers, WriteFails <- {"client"}
Read == INSTANCE Channel WITH
    Kind <- "session", DetachClose <- FALSE, Bytes <- OneEach, StderrBytes <- 1,
    Expiring <- {}, WriteFails <- {}
Tty == INSTANCE Channel WITH
    Kind <- "tty", DetachClose <- FALSE, Bytes <- ServerTwo, StderrBytes <- 0,
    Expiring <- {}, WriteFails <- {"server"}
Tcp == INSTANCE Channel WITH
    Kind <- "tcp", DetachClose <- FALSE, Bytes <- ClientThree, StderrBytes <- 0,
    Expiring <- Peers, WriteFails <- Peers

MCVars == <<ch, child, moved, fault, scenario>>

MCInit ==
    /\ scenario \in Scenarios
    /\ CASE scenario = "session" -> Init
         [] scenario = "mux" -> Mux!Init
         [] scenario = "read" -> Read!Init
         [] scenario = "tty" -> Tty!Init
         [] scenario = "tcp" -> Tcp!Init

MCNext ==
    /\ UNCHANGED scenario
    /\ \/ scenario = "session" /\ Next
       \/ scenario = "mux" /\ Mux!Next
       \/ scenario = "read" /\ Read!Next
       \/ scenario = "tty" /\ Tty!Next
       \/ scenario = "tcp" /\ Tcp!Next

MCSpec == MCInit /\ [][MCNext]_MCVars

\* The fairness of Channel, scenario by scenario (a mux session is only
\* checked for safety).
In(session, read, tty, tcp) ==
    \/ scenario = "session" /\ session
    \/ scenario = "read" /\ read
    \/ scenario = "tty" /\ tty
    \/ scenario = "tcp" /\ tcp

MCFairness ==
    /\ WF_vars(In(DispatchClient, Read!DispatchClient, Tty!DispatchClient, Tcp!DispatchClient))
    /\ WF_vars(In(DispatchServer, Read!DispatchServer, Tty!DispatchServer, Tcp!DispatchServer))
    /\ WF_vars(In(HandleConnecting, Read!HandleConnecting, Tty!HandleConnecting, Tcp!HandleConnecting))
    /\ WF_vars(In(CollectChildren, Read!CollectChildren, Tty!CollectChildren, Tcp!CollectChildren))
    /\ \A p \in Peers :
        /\ WF_vars(In(ChannelOutputPoll(p), Read!ChannelOutputPoll(p),
                      Tty!ChannelOutputPoll(p), Tcp!ChannelOutputPoll(p)))
        /\ WF_vars(In(HandleOpen(p, 0, 0, 0), Read!HandleOpen(p, 0, 0, 0),
                      Tty!HandleOpen(p, 0, 0, 0), Tcp!HandleOpen(p, 0, 0, 0)))
        /\ WF_vars(In(HandleOther(p), Read!HandleOther(p), Tty!HandleOther(p), Tcp!HandleOther(p)))
        /\ WF_vars(In(Reads(p), Read!Reads(p), Tty!Reads(p), Tcp!Reads(p)))
    /\ WF_vars(In(ReadsStderr, Read!ReadsStderr, Tty!ReadsStderr, Tcp!ReadsStderr))
    /\ WF_vars(In(ChildExit, Read!ChildExit, Tty!ChildExit, Tcp!ChildExit))
    /\ WF_vars(In(FinishesWriting("client"), Read!FinishesWriting("client"),
                  Tty!FinishesWriting("client"), Tcp!FinishesWriting("client")))
    /\ WF_vars(In(FinishesWriting("server"), Read!FinishesWriting("server"),
                  FALSE, Tcp!FinishesWriting("server")))
    /\ WF_vars(In(FinishesStderr, Read!FinishesStderr, Tty!FinishesStderr, Tcp!FinishesStderr))

MCFairSpec == MCSpec /\ MCFairness

\* Every channel is freed in the end at both ends, in the scenarios whose
\* applications go on reading (channel_garbage_collect); a session whose
\* client stops reading may get stuck.
FreedInTheEnd == scenario \in {"read", "tty", "tcp"} => EventuallyFreed
=====
