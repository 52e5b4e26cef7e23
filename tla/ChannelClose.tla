---------------------------- MODULE ChannelClose ----------------------------
(***************************************************************************)
(* What the close handshake of a channel promises, without its states,     *)
(* buffers or windows (RFC 4254, section 5.3, as nchan.c implements it):   *)
(* each end sends CLOSE at most once; an end that received one answers it; *)
(* an end forgets the channel only when it has both sent and received      *)
(* CLOSE, or when the channel never came to exist.                         *)
(***************************************************************************)
CONSTANTS Ends, Peer(_)

VARIABLES
    up,         \* the open was confirmed
    sent,       \* the ends that sent CLOSE
    rcvd,       \* the ends that received CLOSE
    gone        \* the ends that forgot the channel

cvars == <<up, sent, rcvd, gone>>

Init == up = FALSE /\ sent = {} /\ rcvd = {} /\ gone = {}

Establish ==
    /\ ~up /\ gone = {}
    /\ up' = TRUE
    /\ UNCHANGED <<sent, rcvd, gone>>

\* The open was refused: an end drops a channel nobody ever used.
Refuse(p) ==
    /\ ~up /\ sent = {} /\ p \notin gone
    /\ gone' = gone \cup {p}
    /\ UNCHANGED <<up, sent, rcvd>>

SendClose(p) ==
    /\ p \notin sent /\ p \notin gone
    /\ sent' = sent \cup {p}
    /\ UNCHANGED <<up, rcvd, gone>>

ReceiveClose(p) ==
    /\ Peer(p) \in sent /\ p \notin rcvd /\ p \notin gone
    /\ rcvd' = rcvd \cup {p}
    /\ UNCHANGED <<up, sent, gone>>

Forget(p) ==
    /\ p \in sent /\ p \in rcvd /\ p \notin gone
    /\ gone' = gone \cup {p}
    /\ UNCHANGED <<up, sent, rcvd>>

\* The answering end sends its CLOSE and forgets the channel in one step.
AnswerAndForget(p) ==
    /\ p \in rcvd /\ p \notin sent /\ p \notin gone
    /\ sent' = sent \cup {p} /\ gone' = gone \cup {p}
    /\ UNCHANGED <<up, rcvd>>

Finish(p) == Forget(p) \/ AnswerAndForget(p)

Next ==
    \/ Establish
    \/ \E p \in Ends : Refuse(p) \/ SendClose(p) \/ ReceiveClose(p) \/ Finish(p)

Spec == Init /\ [][Next]_cvars
=====
