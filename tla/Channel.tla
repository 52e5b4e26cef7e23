------------------------------ MODULE Channel ------------------------------
(***************************************************************************)
(* One SSH channel seen from both ends: the per-channel state machine of   *)
(* nchan.c, the flow control and event handlers of channels.c, and the     *)
(* session a server keeps beside the channel (session.c, serverloop.c).    *)
(*                                                                         *)
(* Both ends are OpenSSH processes.  Each is a single-threaded loop, so a  *)
(* handler is one atomic step; the ends interleave freely and only talk    *)
(* through two reliable FIFO links (the encrypted transport).  The link    *)
(* from p is the field out of p's record: the nchan.c functions, which     *)
(* change a Channel and queue packets, are then functions on that record.  *)
(* Data are byte counts; their contents are never looked at by this code.  *)
(***************************************************************************)
EXTENDS Integers, Sequences, FiniteSets

CONSTANTS
    Kind,           \* "session" (pipes), "tty" (session on a pty) or "tcp"
    DetachClose,    \* the client's channel_register_cleanup(.., do_close):
                    \* FALSE for ssh's own session, TRUE for a mux session
    WindowMax,      \* local_window_max of both ends
    MaxPacket,      \* local_maxpacket of both ends
    Bytes,          \* bound: Bytes[p] bytes may be read from p's application
    StderrBytes,    \* bound: bytes the command may write to its stderr
    ErrorText,      \* bytes of the message a refused request adds to the
                    \* stderr of a mux session
    Expiring,       \* the ends configured with a ChannelTimeout
    WriteFails      \* the sinks that may refuse data: an end's application, or
                    \* "stderr" for the client's stderr

Peers == {"client", "server"}
Other(p) == IF p = "client" THEN "server" ELSE "client"

ASSUME KindAssumption == Kind \in {"session", "tty", "tcp"}
ASSUME FlagAssumption == DetachClose \in BOOLEAN
ASSUME SizeAssumption == /\ WindowMax \in Nat \ {0}
                         /\ MaxPacket \in Nat \ {0}
                         /\ Bytes \in [Peers -> Nat]
                         /\ StderrBytes \in Nat /\ ErrorText \in Nat
ASSUME EventsAssumption == /\ Expiring \subseteq Peers
                           /\ WriteFails \subseteq Peers \cup {"stderr"}

VARIABLES
    ch,         \* ch[p]: the Channel record of end p
    child,      \* the server's child: "none", "running", "exited", "reaped"
    moved,      \* history: bytes read from / written to the applications
                \* (rd and wr, on stderr erd and ewr), and told, the bytes of
                \* the texts put on the client's stderr
    fault       \* a disconnect or fatal() some handler raised

vars == <<ch, child, moved, fault>>

IsSession == Kind \in {"session", "tty"}

Types == {"none", "opening", "larval", "connecting", "open", "abandoned",
          "zombie", "freed"}
States == {"open", "drain", "closed"}
Flags == {"EOF_SENT", "EOF_RCVD", "CLOSE_SENT", "CLOSE_RCVD"}

\* EXEC is the request to run the command and X11REQ one whose refusal is
\* only reported.  Replies come in the order of the requests, so the request
\* a reply is for is known: REFUSED is the CHANNEL_FAILURE of X11REQ, FAILURE
\* that of EXEC.
PacketTypes == {"OPEN", "CONFIRM", "OPENFAIL", "DATA", "EXT", "EOF", "CLOSE", "ADJUST",
                "EOW", "X11REQ", "EXEC", "SUCCESS", "REFUSED", "FAILURE", "EXIT"}
Packet == [t : PacketTypes, n : Nat]

Pkt(t, n) == [t |-> t, n |-> n]
Lesser(m, n) == IF m <= n THEN m ELSE n

----------------------------------------------------------------------------
(* nchan.c: the channel state machine.                                     *)

Send(c, t, n) == [c EXCEPT !.out = Append(@, Pkt(t, n))]
Has(c, f) == f \in c.flags

\* The client's stderr is an extended stream it writes, the server's one it
\* reads (extended_usage).
EfdRead(c) == c.extusage = "read"
EfdWrite(c) == c.extusage = "write"
EFD_INPUT_ACTIVE(c) == EfdRead(c) /\ (c.efd \/ c.extended > 0)
EFD_OUTPUT_ACTIVE(c) ==
    /\ EfdWrite(c) /\ c.efd
    /\ \/ c.flags \cap {"EOF_RCVD", "CLOSE_RCVD"} = {}
       \/ c.extended > 0

chan_read_failed(c) ==
    IF c.istate = "open" THEN [c EXCEPT !.istate = "drain"] ELSE c

chan_send_eof2(c) ==
    [Send(c, "EOF", 0) EXCEPT !.flags = @ \cup {"EOF_SENT"}]

chan_ibuf_empty(c) ==
    IF c.input > 0 \/ c.istate # "drain" THEN c
    ELSE [(IF Has(c, "CLOSE_SENT") THEN c ELSE chan_send_eof2(c))
            EXCEPT !.istate = "closed"]

\* chan_shutdown_write empties the output buffer and closes the descriptor.
chan_obuf_empty(c) ==
    IF c.output > 0 \/ c.ostate # "drain" THEN c
    ELSE [c EXCEPT !.output = 0, !.ostate = "closed"]

chan_rcvd_eow(c) ==
    IF c.istate = "open" THEN [c EXCEPT !.istate = "closed"] ELSE c

chan_send_close2(c) ==
    [Send(c, "CLOSE", 0) EXCEPT !.flags = @ \cup {"CLOSE_SENT"}]

\* Mutant: does not wait for the client's stderr.
HastyIeof(c) ==
    LET d == [c EXCEPT !.flags = @ \cup {"EOF_RCVD"},
                       !.ostate = IF @ = "open" THEN "drain" ELSE @]
    IN  IF d.ostate = "drain" THEN [d EXCEPT !.output = 0, !.ostate = "closed"] ELSE d

chan_rcvd_ieof(c) ==
    LET d == [c EXCEPT !.flags = @ \cup {"EOF_RCVD"},
                       !.ostate = IF @ = "open" THEN "drain" ELSE @]
    IN  IF d.ostate = "drain" /\ d.output = 0 /\ ~EFD_OUTPUT_ACTIVE(d)
        THEN chan_obuf_empty(d) ELSE d

chan_shutdown_extended_read(c) ==
    IF c.type # "larval" /\ c.extusage \in {"read", "ignore"}
    THEN [c EXCEPT !.efd = FALSE] ELSE c

chan_rcvd_oclose(c) ==
    LET d == [c EXCEPT !.flags = @ \cup {"CLOSE_RCVD"}]
        e == [d EXCEPT !.ostate = IF @ = "open" THEN "drain" ELSE @]
        f == IF e.istate = "drain" THEN chan_send_eof2(e) ELSE e
    IN  IF c.type = "larval"
        THEN [d EXCEPT !.ostate = "closed", !.istate = "closed"]
        ELSE IF e.istate = "closed" THEN e
        ELSE [chan_shutdown_extended_read(f) EXCEPT !.istate = "closed"]

chan_write_failed(c) ==
    IF c.ostate = "closed" THEN c
    ELSE [(IF IsSession THEN Send(c, "EOW", 0) ELSE c)
            EXCEPT !.output = 0, !.ostate = "closed"]

\* chan_is_dead(c, do_send) may queue the CLOSE, then answers whether the
\* channel is finished: WithClose is the effect and IsDead the answer, which
\* the code computes from the state the effect leaves.
\* Mutant: sends CLOSE although the user has not agreed to it.
RashClose(c, do_send) ==
    IF /\ c.type # "zombie"
       /\ c.istate = "closed" /\ c.ostate = "closed"
       /\ ~Has(c, "CLOSE_SENT")
    THEN chan_send_close2(c) ELSE c

WithClose(c, do_send) ==
    IF /\ do_send
       /\ c.type # "zombie"
       /\ c.istate = "closed" /\ c.ostate = "closed"
       /\ ~Has(c, "CLOSE_SENT")
    THEN chan_send_close2(c) ELSE c

\* Mutant: does not wait for the peer's CLOSE.
ImpatientIsDead(c, do_send) ==
    \/ c.type = "zombie"
    \/ /\ c.istate = "closed" /\ c.ostate = "closed"
       /\ Has(c, "CLOSE_SENT") \/ ~do_send

IsDead(c, do_send) ==
    \/ c.type = "zombie"
    \/ /\ c.istate = "closed" /\ c.ostate = "closed"
       /\ Has(c, "CLOSE_RCVD")
       /\ Has(c, "CLOSE_SENT") \/ ~do_send

----------------------------------------------------------------------------
(* session.c and clientloop.c: the users of the channel, called back when  *)
(* it dies.  detach is the registered callback with its do_close flag;     *)
(* HasChild is the server's s->pid # 0.                                    *)

NoUser == [user |-> "none", close |-> FALSE]
Registered(c) == c.detach.user # "none"
channel_cancel_cleanup(c) == [c EXCEPT !.detach = NoUser]

\* session_close_by_channel keeps the session while its child runs (unless
\* forced); client_channel_closed and the mux callback let go at once.
DetachUser(c, hasChild, force) ==
    IF c.detach.user = "session" /\ hasChild /\ ~force
    THEN c ELSE channel_cancel_cleanup(c)

\* Mutant: frees a dead channel that still has a user.
EagerCollect(c, hasChild) ==
    LET f == WithClose(c, ~Registered(c) \/ c.detach.close \/ Has(c, "CLOSE_RCVD"))
    IN  IF IsDead(f, TRUE) THEN [f EXCEPT !.type = "freed"] ELSE f

channel_garbage_collect(c, hasChild) ==
    LET d == IF Registered(c) THEN WithClose(c, c.detach.close) ELSE c
        e == IF Registered(d) /\ IsDead(d, d.detach.close)
             THEN DetachUser(d, hasChild, FALSE) ELSE d
        f == WithClose(e, TRUE)
    IN  IF Registered(e) THEN e
        ELSE IF IsDead(f, TRUE) THEN [f EXCEPT !.type = "freed"] ELSE f

channel_force_close(c, hasChild) ==
    LET d == chan_read_failed(c)
        e == chan_ibuf_empty([d EXCEPT !.input = IF d.istate = "drain" THEN 0 ELSE @])
        f == chan_write_failed(e)
        g == DetachUser(f, hasChild, TRUE)
    IN  [g EXCEPT !.efd = FALSE, !.type = "abandoned"]

----------------------------------------------------------------------------
(* channels.c: flow control and the event handlers of an open channel.     *)

\* io_want, computed by channel_pre_open.
WantRead(c) == c.istate = "open" /\ c.input < c.rwin
WantWrite(c) == c.ostate # "closed" /\ c.output > 0
WantExtended(c) ==
    /\ c.efd /\ ~(c.istate = "closed" /\ c.ostate = "closed")
    /\ \/ EfdWrite(c) /\ c.extended > 0
       \/ EfdRead(c) /\ ~Has(c, "EOF_SENT") /\ c.extended < c.rwin

channel_pre_open(c) ==
    IF c.ostate = "drain" /\ c.output = 0 /\ ~EFD_OUTPUT_ACTIVE(c)
    THEN chan_obuf_empty(c) ELSE c

\* Mutant: a pty held open by a background process is never given up.
NeverForceRead(c) == FALSE

\* Once the child of a pty session has exited, a read that would block
\* counts as a failure: processes left in the background cannot keep the
\* channel open.
ForceRead(c) ==
    Kind = "tty" /\ c.detach.user = "session" /\ c.detach.close /\ c.istate # "closed"

\* The outcome of an I/O call: n > 0 bytes moved, 0 not ready or would
\* block, Failed for end of file or an error.
Failed == -1

channel_handle_rfd(c, r) ==
    IF (r = 0 /\ ~ForceRead(c)) \/ c.input >= c.rwin THEN c
    ELSE IF r > 0 THEN [c EXCEPT !.input = @ + r]
    ELSE chan_read_failed(c)

channel_handle_wfd(c, w) ==
    IF w = 0 \/ c.output = 0 THEN c
    ELSE IF w > 0 THEN [c EXCEPT !.output = @ - w, !.cons = @ + w]
    ELSE chan_write_failed(c)

channel_handle_efd(c, x) ==
    IF x = 0 \/ ~c.efd THEN c
    ELSE IF x = Failed THEN [c EXCEPT !.efd = FALSE]
    ELSE IF EfdWrite(c) THEN [c EXCEPT !.extended = @ - x, !.cons = @ + x]
    ELSE IF EfdRead(c) THEN [c EXCEPT !.extended = @ + x]
    ELSE c

\* Mutants: an update after CLOSE; the credit is given twice.
LateCheckWindow(c) ==
    IF c.type = "open" /\ c.lwin < WindowMax \div 2 + 1 /\ c.cons > 0
    THEN [Send(c, "ADJUST", c.cons) EXCEPT !.lwin = @ + c.cons, !.cons = 0]
    ELSE c
DoubleCheckWindow(c) ==
    IF /\ c.type = "open"
       /\ c.flags \cap {"CLOSE_SENT", "CLOSE_RCVD"} = {}
       /\ c.cons > 0
    THEN [Send(c, "ADJUST", c.cons) EXCEPT !.lwin = @ + c.cons]
    ELSE c

channel_check_window(c) ==
    IF /\ c.type = "open"
       /\ c.flags \cap {"CLOSE_SENT", "CLOSE_RCVD"} = {}
       /\ \/ WindowMax - c.lwin > MaxPacket * 3
          \/ c.lwin < WindowMax \div 2
       /\ c.cons > 0
    THEN [Send(c, "ADJUST", c.cons) EXCEPT !.lwin = @ + c.cons, !.cons = 0]
    ELSE c

\* Mutant: the peer's window is not looked at.
GreedyChunk(c, len) == Lesser(len, MaxPacket)

\* Bytes the next DATA or EXTENDED_DATA packet may carry.
Chunk(c, len) == Lesser(len, Lesser(c.rwin, MaxPacket))

channel_output_poll_input_open(c) ==
    LET n == Chunk(c, c.input)
    IN  IF c.input = 0
        THEN IF c.istate = "drain" /\ ~EFD_INPUT_ACTIVE(c)
             THEN chan_ibuf_empty(c) ELSE c
        ELSE IF n = 0 THEN c
        ELSE [Send(c, "DATA", n) EXCEPT !.input = @ - n, !.rwin = @ - n]

channel_output_poll_extended_read(c) ==
    LET n == Chunk(c, c.extended)
    IN  IF n = 0 THEN c
        ELSE [Send(c, "EXT", n) EXCEPT !.extended = @ - n, !.rwin = @ - n]

channel_output_poll(c) ==
    LET d == IF c.istate # "closed" THEN channel_output_poll_input_open(c) ELSE c
    IN  IF ~Has(d, "EOF_SENT") /\ EfdRead(d)
        THEN channel_output_poll_extended_read(d) ELSE d

----------------------------------------------------------------------------
(* channels.c: the packet handlers.                                        *)

channel_input_data(c, n) ==
    IF c.type # "open" THEN c
    ELSE IF c.ostate # "open"
    THEN [c EXCEPT !.lwin = IF n > @ THEN 0 ELSE @ - n, !.cons = @ + n]
    ELSE IF n > MaxPacket THEN c
    ELSE [c EXCEPT !.lwin = IF n > @ THEN 0 ELSE @ - n, !.output = @ + n]

\* The peer went past the window it was given: counted against it, and the
\* connection is dropped beyond a tenth of the window.
WindowExceeded(c, n) ==
    /\ c.type = "open" /\ c.ostate = "open" /\ n <= MaxPacket
    /\ n > c.lwin /\ n - c.lwin > WindowMax \div 10

channel_input_extended_data(c, n) ==
    IF c.type # "open" \/ ~c.efd \/ ~EfdWrite(c) \/ n > c.lwin THEN c
    ELSE [c EXCEPT !.extended = @ + n, !.lwin = @ - n]

channel_input_window_adjust(c, n) == [c EXCEPT !.rwin = @ + n]

\* The confirmation of the open triggers ssh_session2_setup or
\* mux_session_confirm, which asks for the command to be run.  A mux session
\* asks for X11 forwarding first; so may ssh's own, where a refusal is only
\* logged.
channel_input_open_confirmation(c, n) ==
    LET d == [c EXCEPT !.rwin = n, !.type = "open"]
        e == IF DetachClose THEN Send(d, "X11REQ", 0) ELSE d
    IN  IF IsSession THEN Send(e, "EXEC", 0) ELSE d

channel_input_open_failure(c) == [c EXCEPT !.type = "zombie"]

\* client_status_confirm for a refused request: the stderr of a mux session
\* gets a text, which no window was charged for.  Only a refused command has
\* consequences: ssh exits if it is its own session's (fault "exit"), a mux
\* session is closed.
client_status_confirm(c, t, text) ==
    LET d == [c EXCEPT !.extended = @ + text]
    IN  IF t = "FAILURE" THEN chan_write_failed(chan_read_failed(d)) ELSE d

----------------------------------------------------------------------------
(* Initial state: the client has queued its CHANNEL_OPEN.                  *)

NewChannel(type, window, extusage, detach) ==
    [type |-> type, istate |-> "open", ostate |-> "open", flags |-> {},
     input |-> 0, output |-> 0, extended |-> 0,
     lwin |-> window, cons |-> 0, rwin |-> 0,
     efd |-> FALSE, extusage |-> extusage, detach |-> detach, out |-> <<>>]

\* ssh_session2_open and mux_master_process_new_session, or the channel made
\* for a connection accepted on a forwarded port; then channel_send_open.
ClientChannel ==
    LET c == NewChannel("opening", WindowMax,
                        IF IsSession THEN "write" ELSE "ignore",
                        IF IsSession THEN [user |-> "client", close |-> DetachClose]
                                     ELSE NoUser)
    IN  [Send(c, "OPEN", WindowMax) EXCEPT !.efd = IsSession]

Init ==
    /\ ch = [p \in Peers |-> IF p = "client" THEN ClientChannel
                             ELSE NewChannel("none", 0, "ignore", NoUser)]
    /\ child = "none"
    /\ moved = [rd |-> [p \in Peers |-> 0], wr |-> [p \in Peers |-> 0],
                erd |-> 0, ewr |-> 0, told |-> 0, exit |-> FALSE, lossy |-> FALSE]
    /\ fault = "none"

----------------------------------------------------------------------------
(* Packet dispatch: one action per packet type.                            *)

Live(p) == ch[p].type \notin {"none", "zombie", "freed"}
HasChild == child \in {"running", "exited"}
Msg(p) == Head(ch[Other(p)].out)
Receives(p, t) ==
    /\ fault = "none"
    /\ ch[Other(p)].out # <<>>
    /\ Msg(p).t = t

\* p takes the packet, becomes c and raises f; bad: the handler disconnects.
Outcome(bad) == IF bad THEN "disconnect" ELSE "none"
Handled(p, c, f) ==
    /\ ch' = [ch EXCEPT ![p] = c, ![Other(p)].out = Tail(@)]
    /\ fault' = f

\* A packet for a channel that is gone ends the connection, except where the
\* handler looks the channel up itself and shrugs.
ForChannel(p, c) == Handled(p, IF Live(p) THEN c ELSE ch[p], Outcome(~Live(p)))
IfChannel(p, c) == Handled(p, IF Live(p) THEN c ELSE ch[p], "none")

ServerInputChannelOpen ==
    /\ Receives("server", "OPEN")
    /\ \E accept \in BOOLEAN :
         LET old == ch["server"]
             new == IF IsSession
                    THEN NewChannel("larval", 0, "ignore",
                                    [user |-> "session", close |-> FALSE])
                    ELSE NewChannel("connecting", WindowMax, "ignore", NoUser)
             set == [new EXCEPT !.rwin = Msg("server").n, !.out = old.out]
         IN  Handled("server",
                 CASE ~accept   -> Send(old, "OPENFAIL", 0)
                   [] IsSession -> Send(set, "CONFIRM", 0)
                   [] OTHER     -> set,
                 "none")
    /\ UNCHANGED <<child, moved>>

InputOpenConfirmation ==
    /\ Receives("client", "CONFIRM")
    /\ LET c == ch["client"]
       IN  Handled("client", channel_input_open_confirmation(c, Msg("client").n),
                   Outcome(c.type # "opening"))
    /\ UNCHANGED <<child, moved>>

InputOpenFailure ==
    /\ Receives("client", "OPENFAIL")
    /\ LET c == ch["client"]
       IN  Handled("client", channel_input_open_failure(c),
                   Outcome(c.type # "opening"))
    /\ UNCHANGED <<child, moved>>

InputData(p) ==
    /\ Receives(p, "DATA")
    /\ LET c == ch[p]
           n == Msg(p).n
       IN  Handled(p, IF Live(p) THEN channel_input_data(c, n) ELSE c,
                   CASE ~Live(p) -> "disconnect"
                     [] Live(p) /\ WindowExceeded(c, n) -> "window"
                     [] OTHER -> "none")
    /\ UNCHANGED <<child, moved>>

\* Only the server sends extended data.
InputExtendedData ==
    /\ Receives("client", "EXT")
    /\ LET c == ch["client"]
           live == Live("client")
       IN  Handled("client",
               IF live THEN channel_input_extended_data(c, Msg("client").n) ELSE c,
               Outcome(~live \/ (c.type = "open" /\ Has(c, "EOF_RCVD"))))
    /\ UNCHANGED <<child, moved>>

InputIeof(p) ==
    /\ Receives(p, "EOF")
    /\ ForChannel(p, chan_rcvd_ieof(ch[p]))
    /\ UNCHANGED <<child, moved>>

InputOclose(p) ==
    /\ Receives(p, "CLOSE")
    /\ ForChannel(p, chan_rcvd_oclose(ch[p]))
    /\ UNCHANGED <<child, moved>>

InputWindowAdjust(p) ==
    /\ Receives(p, "ADJUST")
    /\ IfChannel(p, channel_input_window_adjust(ch[p], Msg(p).n))
    /\ UNCHANGED <<child, moved>>

\* An unknown channel is an error to the server and only logged by the client.
InputEow(p) ==
    /\ Receives(p, "EOW")
    /\ IF p = "server" THEN ForChannel(p, chan_rcvd_eow(ch[p]))
                       ELSE IfChannel(p, chan_rcvd_eow(ch[p]))
    /\ UNCHANGED <<child, moved>>

\* server_input_channel_req answers a request unless a CLOSE was sent.
Replied(c, t) == IF Has(c, "CLOSE_SENT") THEN c ELSE Send(c, t, 0)

\* session_x11_req: the forwarding is set up or refused; the channel itself
\* does not change.
SessionX11Req ==
    /\ Receives("server", "X11REQ")
    /\ \E granted \in BOOLEAN :
         LET c == ch["server"]
             ok == granted /\ c.type = "larval" /\ c.detach.user = "session"
         IN  ForChannel("server", Replied(c, IF ok THEN "SUCCESS" ELSE "REFUSED"))
    /\ UNCHANGED <<child, moved>>

\* session_input_channel_req: a larval session runs the command (do_exec
\* forks, session_set_fds opens the channel and its window) or refuses it.
SessionInputChannelReq ==
    /\ Receives("server", "EXEC")
    /\ \E granted \in BOOLEAN :
         LET c == ch["server"]
             ok == granted /\ c.type = "larval" /\ c.detach.user = "session"
             d == IF ok
                  THEN [Send(c, "ADJUST", WindowMax) EXCEPT
                          !.type = "open", !.lwin = WindowMax,
                          !.efd = (Kind = "session"),
                          !.extusage = IF Kind = "session" THEN "read" ELSE "ignore"]
                  ELSE c
         IN  /\ ForChannel("server", Replied(d, IF ok THEN "SUCCESS" ELSE "FAILURE"))
             /\ child' = IF ok THEN "running" ELSE child
    /\ UNCHANGED moved

\* There is no text for ssh's own session, with LogLevel QUIET, and once the
\* mux client is gone; one that finds the output closed is lost.
InputStatusConfirm ==
    /\ \E t \in {"SUCCESS", "REFUSED", "FAILURE"} :
         /\ Receives("client", t)
         /\ \E text \in {0, IF DetachClose /\ EfdWrite(ch["client"]) THEN ErrorText ELSE 0} :
              LET c == ch["client"]
                  refused == Live("client") /\ t # "SUCCESS"
                  closes == Live("client") /\ t = "FAILURE"
              IN  /\ Handled("client",
                             IF refused THEN client_status_confirm(c, t, text) ELSE c,
                             IF closes /\ ~DetachClose THEN "exit" ELSE "none")
                  /\ moved' = [moved EXCEPT
                                  !.lossy = @ \/ closes \/ (refused /\ c.ostate = "closed"),
                                  !.told = IF refused THEN @ + text ELSE @]
    /\ UNCHANGED child

InputExitStatus ==
    /\ Receives("client", "EXIT")
    /\ IfChannel("client", ch["client"])
    /\ moved' = [moved EXCEPT !.exit = @ \/ Live("client")]
    /\ UNCHANGED child

----------------------------------------------------------------------------
(* The rest of the loop: channel_output_poll, channel_handler (the PRE     *)
(* handlers, poll() and the POST handlers, between which nothing else      *)
(* runs), collect_children, and the events of the world outside.           *)

Step(p, c) == ch' = [ch EXCEPT ![p] = c]

ChannelOutputPoll(p) ==
    /\ fault = "none" /\ ch[p].type = "open"
    /\ ch[p].flags \cap {"CLOSE_SENT", "CLOSE_RCVD"} = {}
    /\ Step(p, channel_output_poll(ch[p]))
    /\ UNCHANGED <<child, moved, fault>>

\* r, w and x are the outcomes on the channel's three descriptors: data only
\* where channel_pre_open asked for it, and no more than asked.  A client on
\* a tty reads through the escape filter, which is not limited by the window.
IOChoice(p, r, w, x) ==
    LET c == ch[p]
    IN  /\ r # 0 => WantRead(c)
        /\ r > c.rwin - c.input => p = "client" /\ Kind = "tty"
        /\ r > 0 => moved.rd[p] + r <= Bytes[p]
        /\ w # 0 => WantWrite(c)
        /\ w <= c.output
        /\ x # 0 => WantExtended(channel_pre_open(c))
        /\ x > 0 => IF EfdWrite(c) THEN x <= c.extended
                                   ELSE moved.erd + x <= StderrBytes
        /\ w = Failed => p \in WriteFails
        /\ x = Failed /\ p = "client" => "stderr" \in WriteFails

Moved(p, r, w, x) ==
    [moved EXCEPT !.rd[p] = IF r > 0 THEN @ + r ELSE @,
                  !.wr[p] = IF w > 0 THEN @ + w ELSE @,
                  !.erd = IF p = "server" /\ x > 0 THEN @ + x ELSE @,
                  !.ewr = IF p = "client" /\ x > 0 THEN @ + x ELSE @,
                  !.lossy = @ \/ (p = "client" /\ Failed \in {w, x})]

\* channel_handler on an open channel: channel_pre_open, then
\* channel_post_open on the descriptors that are ready, each followed by
\* channel_garbage_collect.  The nested quantifiers only name, in the order
\* of the calls, what each call makes of the channel.
HandleOpen(p, r, w, x) ==
    /\ fault = "none" /\ ch[p].type = "open"
    /\ IOChoice(p, r, w, x)
    /\ \E pre \in {channel_pre_open(ch[p])} :
       \E c \in {channel_garbage_collect(pre, HasChild)} :
       \E a \in {channel_handle_rfd(c, r)} :
       \E b \in {channel_handle_wfd(a, w)} :
       \E e \in {channel_handle_efd(b, x)} :
       \E post \in {channel_check_window(e)} :
         Step(p, IF c.type = "open" THEN channel_garbage_collect(post, HasChild) ELSE c)
    /\ moved' = Moved(p, r, w, x)
    /\ UNCHANGED <<child, fault>>

\* channel_handler on the types that have no handlers.
HandleOther(p) ==
    /\ fault = "none" /\ ch[p].type \in {"opening", "larval", "abandoned", "zombie"}
    /\ Step(p, channel_garbage_collect(ch[p], HasChild))
    /\ UNCHANGED <<child, moved, fault>>

\* channel_handler when the inactivity deadline has passed.
HandleExpired(p) ==
    /\ fault = "none" /\ ch[p].type = "open" /\ p \in Expiring
    /\ Step(p, channel_garbage_collect(channel_force_close(ch[p], HasChild), HasChild))
    /\ moved' = [moved EXCEPT !.lossy = TRUE]
    /\ UNCHANGED <<child, fault>>

\* channel_post_connecting: the connection is up, or every address failed.
HandleConnecting ==
    /\ fault = "none" /\ ch["server"].type = "connecting"
    /\ LET c == ch["server"]
       IN  \/ Step("server", Send([c EXCEPT !.type = "open"], "CONFIRM", c.lwin))
           \/ Step("server", channel_garbage_collect(
                   Send([c EXCEPT !.type = "zombie"], "OPENFAIL", 0), HasChild))
    /\ UNCHANGED <<child, moved, fault>>

ChildExit ==
    /\ fault = "none" /\ child = "running"
    /\ child' = "exited"
    /\ UNCHANGED <<ch, moved, fault>>

\* collect_children, session_close_by_pid and session_exit_message.
CollectChildren ==
    /\ fault = "none" /\ child = "exited"
    /\ LET c == ch["server"]
           d == [Send(c, "EXIT", 0) EXCEPT !.detach.close = TRUE]
       IN  /\ Step("server", IF c.detach.user = "session" /\ Live("server")
                             THEN chan_write_failed(d) ELSE c)
           /\ fault' = IF c.detach.user = "session" /\ ~Live("server")
                       THEN "fatal" ELSE "none"
    /\ child' = "reaped"
    /\ UNCHANGED moved

\* mux_master_control_cleanup_cb: the mux client behind the session is gone.
MuxClientGone ==
    /\ fault = "none" /\ IsSession /\ DetachClose
    /\ ch["client"].type = "open" /\ ch["client"].detach.user = "client"
    /\ LET c == chan_read_failed(ch["client"])
       IN  Step("client", IF c.ostate = "open" THEN chan_write_failed(c) ELSE c)
    /\ moved' = [moved EXCEPT !.lossy = TRUE]
    /\ UNCHANGED <<child, fault>>

\* No read or write moves more than the applications and the texts of two
\* refused requests will ever produce.
IOResults == Failed .. (Bytes["client"] + Bytes["server"] + StderrBytes + 2 * ErrorText)

Dispatch(p) ==
    \/ InputData(p) \/ InputIeof(p) \/ InputOclose(p)
    \/ InputWindowAdjust(p) \/ InputEow(p)
DispatchClient ==
    \/ Dispatch("client") \/ InputExtendedData \/ InputOpenConfirmation \/ InputOpenFailure
    \/ InputStatusConfirm \/ InputExitStatus
DispatchServer ==
    \/ Dispatch("server") \/ ServerInputChannelOpen
    \/ SessionX11Req \/ SessionInputChannelReq

Next ==
    \/ DispatchClient
    \/ DispatchServer
    \/ \E p \in Peers : \/ ChannelOutputPoll(p)
                        \/ \E r, w, x \in IOResults : HandleOpen(p, r, w, x)
                        \/ HandleOther(p)
                        \/ HandleExpired(p)
    \/ HandleConnecting
    \/ ChildExit
    \/ CollectChildren
    \/ MuxClientGone

Spec == Init /\ [][Next]_vars

\* What the loops and the applications are assumed to keep doing.  The loops
\* never stop running their handlers.  The applications in the end read what
\* they are sent, finish writing, and the command exits; but a process left
\* behind on a pty may hold it open for ever, so nothing is assumed to end
\* the server's reads there.
Positive == {n \in IOResults : n > 0}
Reads(p) == \E w \in Positive : HandleOpen(p, 0, w, 0)
ReadsStderr == \E x \in Positive : HandleOpen("client", 0, 0, x)
FinishesWriting(p) == HandleOpen(p, Failed, 0, 0)
FinishesStderr == HandleOpen("server", 0, 0, Failed)

Fairness ==
    /\ WF_vars(DispatchClient) /\ WF_vars(DispatchServer)
    /\ WF_vars(HandleConnecting) /\ WF_vars(CollectChildren)
    /\ \A p \in Peers : /\ WF_vars(ChannelOutputPoll(p))
                        /\ WF_vars(HandleOpen(p, 0, 0, 0))
                        /\ WF_vars(HandleOther(p))
                        /\ WF_vars(Reads(p))
    /\ WF_vars(ReadsStderr) /\ WF_vars(ChildExit)
    /\ WF_vars(FinishesWriting("client"))
    /\ Kind # "tty" => WF_vars(FinishesWriting("server"))
    /\ WF_vars(FinishesStderr)

FairSpec == Spec /\ Fairness

----------------------------------------------------------------------------
(* Properties.                                                             *)

ChannelRecord ==
    [type : Types, istate : States, ostate : States, flags : SUBSET Flags,
     input : Nat, output : Nat, extended : Nat, lwin : Nat, cons : Nat, rwin : Nat,
     efd : BOOLEAN, extusage : {"ignore", "read", "write"},
     detach : [user : {"none", "client", "session"}, close : BOOLEAN],
     out : Seq(Packet)]

\* Type invariant: buffer lengths and windows never go negative (they are
\* unsigned in the code, where a negative value would wrap).
TypeOK ==
    /\ ch \in [Peers -> ChannelRecord]
    /\ child \in {"none", "running", "exited", "reaped"}
    /\ moved \in [rd : [Peers -> Nat], wr : [Peers -> Nat], erd : Nat, ewr : Nat,
                  told : Nat, exit : BOOLEAN, lossy : BOOLEAN]
    /\ fault \in {"none", "disconnect", "window", "fatal", "exit"}

\* Two OpenSSH ends never make each other drop the connection or die: no
\* packet arrives for a channel that was freed, no extended data after EOF,
\* no confirmation out of turn, and a child that exits still finds its
\* session's channel (channel_from_packet_id, channel_input_extended_data,
\* channel_input_open_confirmation, session_exit_message).
NoFault == fault \notin {"disconnect", "fatal"}

\* CLOSE is the last packet an end ever sends on a channel, and EOF the last
\* word on its data (chan_send_close2, chan_ibuf_empty, channel_output_poll).
QuietAfterClose ==
    \A p \in Peers :
        \A i \in 1..Len(ch[p].out) :
            /\ ch[p].out[i].t = "CLOSE" => i = Len(ch[p].out)
            /\ ch[p].out[i].t = "EOF" =>
                 \A j \in (i+1)..Len(ch[p].out) :
                     ch[p].out[j].t \notin {"DATA", "EXT", "EOF"}

\* A channel that was open is freed only after both CLOSE messages crossed,
\* so its number cannot be reused while packets for it are under way
\* (chan_is_dead, channel_garbage_collect).
FreedAfterClose ==
    \A p \in Peers :
        ch[p].type = "freed" /\ ch[p].flags # {} =>
            /\ {"CLOSE_SENT", "CLOSE_RCVD"} \subseteq ch[p].flags
            /\ ch[Other(p)].out = <<>>

\* Bytes carried by the packets of the given types in a link.
Carried(s, types) ==
    LET sum[i \in 0..Len(s)] ==
            IF i = 0 THEN 0 ELSE sum[i - 1] + (IF s[i].t \in types THEN s[i].n ELSE 0)
    IN  sum[Len(s)]

\* The window p still has to offer: what q thinks it may send, plus what is
\* on its way in either direction, plus what p buffers or has not yet
\* credited.
Promised(p) ==
    LET q == Other(p)
    IN  ch[q].rwin + Carried(ch[q].out, {"DATA", "EXT"})
        + Carried(ch[p].out, {"ADJUST", "CONFIRM", "OPEN"})

\* Bytes the end credits without having been charged for them: the texts of
\* client_status_confirm, which channel_handle_efd_write counts like the rest.
Uncharged(p) == IF p = "client" THEN moved.told ELSE 0

\* Flow control: the sender never believes in more window than the receiver
\* granted, so it never overruns it; and with what is buffered that is never
\* more than local_window_max and the uncharged bytes (channel_output_poll,
\* channel_input_data, channel_check_window, channel_handle_efd_write).
WindowAgreement ==
    /\ fault # "window"
    /\ \A p \in Peers :
        ch[p].type \in {"larval", "open"} =>
            /\ Promised(p) <= ch[p].lwin
            /\ ch[p].lwin + ch[p].cons + ch[p].output
               + (IF EfdWrite(ch[p]) THEN ch[p].extended ELSE 0) <= WindowMax + Uncharged(p)

\* Everything the command wrote, and on stderr the texts of refused requests,
\* reaches the client's stdout and stderr, whatever order EOF, CLOSE, window
\* updates and the child's exit come in, unless the client's own side gave up
\* (chan_obuf_empty waiting for stderr, chan_ibuf_empty for the buffers).
OutputComplete ==
    ~moved.lossy =>
        /\ ch["client"].ostate = "closed" => moved.wr["client"] = moved.rd["server"]
        /\ ch["client"].type = "freed" => moved.ewr = moved.erd + moved.told

\* ssh knows the exit status of its command before the channel closes: the
\* session keeps its channel until the child was reaped
\* (session_close_by_channel, session_exit_message).
ExitStatusBeforeClose ==
    child # "none" /\ Has(ch["client"], "CLOSE_RCVD") /\ ~moved.lossy => moved.exit

\* The close handshake is the one ChannelClose promises.
Close == INSTANCE ChannelClose WITH
    Ends <- Peers,
    Peer <- Other,
    up   <- \/ ch["client"].type \in {"open", "abandoned"}
            \/ ch["client"].flags # {},
    sent <- {p \in Peers : Has(ch[p], "CLOSE_SENT")},
    rcvd <- {p \in Peers : Has(ch[p], "CLOSE_RCVD")},
    gone <- {p \in Peers : ch[p].type = "freed"}

\* The channel code implements the close handshake of ChannelClose: CLOSE is
\* sent once, answered, and a channel outlives it until both have crossed
\* (chan_rcvd_oclose, chan_is_dead, channel_garbage_collect).
CloseHandshake == Close!Spec

\* Once the applications are done, both ends free the channel: the EOF and
\* CLOSE handshake of two ends that wait for each other never gets stuck.
EventuallyFreed ==
    <>(fault # "none" \/ \A p \in Peers : ch[p].type \in {"none", "freed"})
=====
