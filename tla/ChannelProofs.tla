--------------------------- MODULE ChannelProofs ---------------------------
(***************************************************************************)
(* Proofs about Channel, for every window, packet size, amount of data and *)
(* choice of failures.                                                     *)
(*                                                                         *)
(* The argument follows the code.  Each function of nchan.c and channels.c *)
(* is shown to make a small step of one channel: it only appends to the    *)
(* link, never after CLOSE, and no data after EOF (Evolves, Calm, Takes).  *)
(* The inductive invariant IInv joins what such a step keeps of one end    *)
(* (Sane), of the two links (LinkOK), of the open handshake (Phase) and of *)
(* the session the server holds for its child (SessionOK).                 *)
(*                                                                         *)
(* The second half is about bytes: flow control and the command's output.  *)
(* Both rest on what a link carries, a sum over its packets.               *)
(*                                                                         *)
(* Flow control.  FlowInv says that what an end sent or may still send,    *)
(* together with what the other is granting, is within the window the      *)
(* other offers, and that an end never owes more than local_window_max.    *)
(* Each function of the code is shown to keep both (Quiescent, Still,      *)
(* Flows), then each action.                                               *)
(*                                                                         *)
(* Output.  OutInv keeps the books: every byte the server read is written  *)
(* by the client, buffered at one of the two ends, or in the link (Books); *)
(* the server says EOF only with empty buffers (ServerGood), and the       *)
(* client closes only after that and with empty buffers (ClientGood).      *)
(* FlowInv is needed for it: data beyond the window would be dropped.      *)
(***************************************************************************)
EXTENDS Channel, SequenceTheorems, WellFoundedInduction, TLAPS

DataTypes == {"DATA", "EXT", "EOF"}
OpenTypes == {"OPEN", "CONFIRM", "OPENFAIL"}

\* The packet at i of u is one that code running with the flags f may add.
Fresh(f, g, u, i) ==
    /\ "CLOSE_SENT" \notin f
    /\ u[i].t \notin OpenTypes
    /\ u[i].t = "CLOSE" => i = Len(u) /\ "CLOSE_SENT" \in g
    /\ u[i].t \in DataTypes => "EOF_SENT" \notin f
    /\ u[i].t = "EOF" =>
         /\ "EOF_SENT" \in g
         /\ \A j \in (i+1)..Len(u) : u[j].t \notin DataTypes

Grows(f, s, g, u, F) ==
    /\ f \subseteq g
    /\ g \subseteq f \cup {"EOF_SENT", "CLOSE_SENT"} \cup F
    /\ Len(s) <= Len(u)
    /\ \A i \in 1..Len(s) : u[i] = s[i]
    /\ \A i \in (Len(s)+1)..Len(u) : Fresh(f, g, u, i)

Evolves(c, d, F) == Grows(c.flags, c.out, d.flags, d.out, F)

\* The fields a closing channel keeps consistent.
Sane(c) ==
    /\ c \in ChannelRecord
    /\ "CLOSE_SENT" \in c.flags => c.istate = "closed" /\ c.ostate = "closed"
    /\ "EOF_SENT" \in c.flags => c.istate = "closed"
    /\ c.type \in {"none", "opening", "connecting"} =>
         c.istate = "open" /\ c.ostate = "open"

\* A step of the channel code that neither closes nor frees the channel.
Calm(c, d) ==
    /\ Sane(d) /\ Evolves(c, d, {})
    /\ d.type = c.type /\ d.detach = c.detach
    /\ "CLOSE_SENT" \in d.flags => "CLOSE_SENT" \in c.flags

\* The same for a packet handler, which may also set the flags F.
Takes(c, d, F) ==
    /\ Sane(d) /\ Evolves(c, d, F)
    /\ d.type = c.type /\ d.detach = c.detach
    /\ "CLOSE_SENT" \in d.flags => "CLOSE_SENT" \in c.flags

\* Code that runs in two parts adds to a link what each part adds.
LEMMA GrowsTrans ==
    ASSUME NEW f, NEW g, NEW h, NEW F,
           NEW s \in Seq(Packet), NEW u \in Seq(Packet), NEW v \in Seq(Packet),
           Grows(f, s, g, u, F), Grows(g, u, h, v, F)
    PROVE  Grows(f, s, h, v, F)
<1>1. /\ f \subseteq h
      /\ h \subseteq f \cup {"EOF_SENT", "CLOSE_SENT"} \cup F
      /\ Len(s) <= Len(v)
      /\ \A i \in 1..Len(s) : v[i] = s[i]
  BY DEF Grows
<1>2. ASSUME NEW i \in (Len(s)+1)..Len(v) PROVE Fresh(f, h, v, i)
  <2>1. CASE i <= Len(u)
    <3>1. Fresh(f, g, u, i) /\ v[i] = u[i]
      BY <2>1 DEF Grows
    <3>2. v[i].t = "CLOSE" => i = Len(v) /\ "CLOSE_SENT" \in h
      <4>1. SUFFICES ASSUME v[i].t = "CLOSE" PROVE i = Len(v) /\ "CLOSE_SENT" \in h
        OBVIOUS
      <4>2. i = Len(u) /\ "CLOSE_SENT" \in g
        BY <3>1, <4>1 DEF Fresh
      <4>3. Len(v) = Len(u)
        BY <4>2 DEF Grows, Fresh
      <4> QED BY <4>2, <4>3 DEF Grows
    <3>3. ASSUME v[i].t = "EOF"
          PROVE "EOF_SENT" \in h /\ \A j \in (i+1)..Len(v) : v[j].t \notin DataTypes
      <4>1. "EOF_SENT" \in g /\ \A j \in (i+1)..Len(u) : u[j].t \notin DataTypes
        BY <3>1, <3>3 DEF Fresh
      <4> QED BY <4>1 DEF Grows, Fresh
    <3> QED BY <3>1, <3>2, <3>3 DEF Fresh
  <2>2. CASE i > Len(u)
    BY <2>2 DEF Grows, Fresh
  <2> QED BY <2>1, <2>2
<1> QED BY <1>1, <1>2 DEF Grows

\* The same for the channels whose links grow.
LEMMA EvolvesTrans ==
    ASSUME NEW c, NEW d, NEW e, NEW F,
           Sane(c), Sane(d), Sane(e), Evolves(c, d, F), Evolves(d, e, F)
    PROVE  Evolves(c, e, F)
<1>1. c.out \in Seq(Packet) /\ d.out \in Seq(Packet) /\ e.out \in Seq(Packet)
  BY DEF Sane, ChannelRecord
<1> QED BY <1>1, GrowsTrans DEF Evolves

\* Code that does nothing is a (trivial) step of the channel.
LEMMA EvolvesRefl ==
    ASSUME NEW c, NEW F, Sane(c) PROVE Evolves(c, c, F)
BY DEF Evolves, Grows, Sane, ChannelRecord

\* Calm steps compose.
LEMMA CalmTrans ==
    ASSUME NEW c, NEW d, NEW e, Sane(c), Calm(c, d), Calm(d, e)
    PROVE  Calm(c, e)
BY EvolvesTrans DEF Calm

\* Doing nothing is a calm step.
LEMMA CalmRefl == ASSUME NEW c, Sane(c) PROVE Calm(c, c)
BY EvolvesRefl DEF Calm

----------------------------------------------------------------------------

\* Queueing one packet that is no part of the open or close handshake.
LEMMA SendGrows ==
    ASSUME NEW c, Sane(c), "CLOSE_SENT" \notin c.flags,
           NEW t \in PacketTypes \ (OpenTypes \cup {"CLOSE", "EOF"}), NEW n \in Nat,
           t \in DataTypes => "EOF_SENT" \notin c.flags
    PROVE  Grows(c.flags, c.out, c.flags, Append(c.out, Pkt(t, n)), {})
<1>1. c.out \in Seq(Packet)
  BY DEF Sane, ChannelRecord
<1>2. Pkt(t, n) \in Packet /\ Pkt(t, n).t = t
  BY DEF Pkt, Packet
<1> QED BY <1>1, <1>2 DEF Grows, Fresh

\* What the channel code leaves alone in all its smaller steps.
Keeps(c, d) ==
    /\ d \in ChannelRecord
    /\ d.type = c.type /\ d.detach = c.detach
    /\ c.istate = "closed" => d.istate = "closed"
    /\ c.ostate = "closed" => d.ostate = "closed"
    /\ c.type \in {"none", "opening", "connecting"} =>
         d.istate = "open" /\ d.ostate = "open"

\* Code that sends nothing and touches no flag is a calm step.
LEMMA KeepsQuiet ==
    ASSUME NEW c, Sane(c), NEW d, Keeps(c, d), d.flags = c.flags, d.out = c.out
    PROVE  Calm(c, d)
<1>1. Sane(d)
  BY DEF Sane, Keeps
<1>2. Evolves(c, d, {})
  BY EvolvesRefl DEF Evolves
<1> QED BY <1>1, <1>2 DEF Calm, Keeps

\* So is code that also queues one packet of no handshake before CLOSE.
LEMMA KeepsSends ==
    ASSUME NEW c, Sane(c), NEW d, Keeps(c, d), d.flags = c.flags,
           "CLOSE_SENT" \notin c.flags,
           NEW t \in PacketTypes \ (OpenTypes \cup {"CLOSE", "EOF"}), NEW n \in Nat,
           t \in DataTypes => "EOF_SENT" \notin c.flags,
           d.out = Append(c.out, Pkt(t, n))
    PROVE  Calm(c, d)
<1>1. Sane(d)
  BY DEF Sane, Keeps
<1>2. Evolves(c, d, {})
  BY SendGrows DEF Evolves
<1> QED BY <1>1, <1>2 DEF Calm, Keeps

\* A channel with one more packet queued is still a channel.
LEMMA Appended ==
    ASSUME NEW c, Sane(c), NEW t \in PacketTypes, NEW n \in Nat
    PROVE  /\ Append(c.out, Pkt(t, n)) \in Seq(Packet)
           /\ Send(c, t, n) \in ChannelRecord
           /\ Send(c, t, n) = [c EXCEPT !.out = Append(c.out, Pkt(t, n))]
<1>1. Append(c.out, Pkt(t, n)) \in Seq(Packet)
  BY DEF Sane, ChannelRecord, Pkt, Packet
<1>2. Send(c, t, n) = [c EXCEPT !.out = Append(c.out, Pkt(t, n))]
  BY DEF Send
<1>3. c \in ChannelRecord
  BY DEF Sane
<1> QED BY <1>1, <1>2, <1>3 DEF ChannelRecord

\* The packets that are no part of a handshake.
LEMMA PlainPackets ==
    /\ {"ADJUST", "EOW", "EXIT", "SUCCESS", "REFUSED", "FAILURE", "X11REQ", "EXEC"}
         \subseteq (PacketTypes \ (OpenTypes \cup {"CLOSE", "EOF"})) \ DataTypes
    /\ {"DATA", "EXT"} \subseteq PacketTypes \ (OpenTypes \cup {"CLOSE", "EOF"})
BY DEF PacketTypes, OpenTypes, DataTypes

\* Records stay channel records under the updates the code makes.
LEMMA Updates ==
    ASSUME NEW e \in ChannelRecord, NEW m \in Nat, NEW n \in Nat
    PROVE  /\ [e EXCEPT !.output = 0, !.ostate = "closed"] \in ChannelRecord
           /\ [e EXCEPT !.lwin = m, !.cons = n] \in ChannelRecord
           /\ [e EXCEPT !.output = m, !.cons = n] \in ChannelRecord
           /\ [e EXCEPT !.extended = m, !.cons = n] \in ChannelRecord
           /\ [e EXCEPT !.input = m, !.rwin = n] \in ChannelRecord
           /\ [e EXCEPT !.extended = m, !.rwin = n] \in ChannelRecord
           /\ [e EXCEPT !.lwin = m, !.output = n] \in ChannelRecord
           /\ [e EXCEPT !.extended = m, !.lwin = n] \in ChannelRecord
           /\ [e EXCEPT !.input = m] \in ChannelRecord
           /\ [e EXCEPT !.extended = m] \in ChannelRecord
           /\ [e EXCEPT !.rwin = m] \in ChannelRecord
<1> "closed" \in States
  BY DEF States
<1> QED BY DEF ChannelRecord

\* chan_read_failed is a calm step.
LEMMA ReadFailed ==
    ASSUME NEW c, Sane(c), c.type \notin {"none", "opening", "connecting"}
    PROVE  Calm(c, chan_read_failed(c))
<1> DEFINE d == chan_read_failed(c)
<1>1. Keeps(c, d) /\ d.flags = c.flags /\ d.out = c.out
  BY DEF Keeps, Sane, ChannelRecord, chan_read_failed, States
<1> QED BY <1>1, KeepsQuiet

\* chan_ibuf_empty sends EOF at most once, and never after CLOSE.
LEMMA IbufEmpty ==
    ASSUME NEW c, Sane(c)
    PROVE  Calm(c, chan_ibuf_empty(c))
<1> DEFINE d == chan_ibuf_empty(c)
<1>1. CASE c.input > 0 \/ c.istate # "drain"
  BY <1>1, CalmRefl DEF chan_ibuf_empty
<1>2. CASE ~(c.input > 0 \/ c.istate # "drain")
  <2>1. "CLOSE_SENT" \notin c.flags /\ "EOF_SENT" \notin c.flags
    BY <1>2 DEF Sane
  <2>2. d = [c EXCEPT !.out = Append(c.out, Pkt("EOF", 0)),
                      !.flags = c.flags \cup {"EOF_SENT"}, !.istate = "closed"]
    BY <1>2, <2>1 DEF chan_ibuf_empty, chan_send_eof2, Send, Has, Sane, ChannelRecord
  <2>3. Append(c.out, Pkt("EOF", 0)) \in Seq(Packet)
    BY Appended DEF PacketTypes
  <2>4. c.flags \cup {"EOF_SENT"} \in SUBSET Flags /\ "closed" \in States
    BY DEF Sane, ChannelRecord, Flags, States
  <2>5. d \in ChannelRecord
    BY <2>2, <2>3, <2>4 DEF Sane, ChannelRecord
  <2>6. /\ d.out = Append(c.out, Pkt("EOF", 0)) /\ d.flags = c.flags \cup {"EOF_SENT"}
        /\ d.type = c.type /\ d.detach = c.detach /\ d.istate = "closed"
    BY <2>2 DEF Sane, ChannelRecord
  <2>7. Sane(d)
    BY <1>2, <2>1, <2>5, <2>6 DEF Sane
  <2>8. Evolves(c, d, {})
    <3>1. c.out \in Seq(Packet) /\ Pkt("EOF", 0).t = "EOF"
      BY DEF Sane, ChannelRecord, Pkt
    <3> QED BY <2>1, <2>6, <3>1 DEF Evolves, Grows, Fresh, OpenTypes
  <2> QED BY <2>1, <2>6, <2>7, <2>8 DEF Calm
<1> QED BY <1>1, <1>2

\* chan_obuf_empty is a calm step.
LEMMA ObufEmpty ==
    ASSUME NEW c, Sane(c)
    PROVE  Calm(c, chan_obuf_empty(c))
<1> DEFINE d == chan_obuf_empty(c)
<1>1. Keeps(c, d) /\ d.flags = c.flags /\ d.out = c.out
  BY ZenonT(60) DEF Keeps, Sane, ChannelRecord, chan_obuf_empty, States
<1> QED BY <1>1, KeepsQuiet

\* chan_rcvd_eow is a calm step.
LEMMA RcvdEow ==
    ASSUME NEW c, Sane(c), c.type \notin {"none", "opening", "connecting"}
    PROVE  Calm(c, chan_rcvd_eow(c))
<1> DEFINE d == chan_rcvd_eow(c)
<1>1. Keeps(c, d) /\ d.flags = c.flags /\ d.out = c.out
  BY DEF Keeps, Sane, ChannelRecord, chan_rcvd_eow, States
<1> QED BY <1>1, KeepsQuiet

\* chan_write_failed sends its eow@openssh.com before any CLOSE.
LEMMA WriteFailed ==
    ASSUME NEW c, Sane(c), c.type \notin {"none", "opening", "connecting"}
    PROVE  Calm(c, chan_write_failed(c))
<1> DEFINE d == chan_write_failed(c)
<1>1. CASE c.ostate = "closed"
  BY <1>1, CalmRefl DEF chan_write_failed
<1>2. CASE c.ostate # "closed" /\ ~IsSession
  <2>1. Keeps(c, d) /\ d.flags = c.flags /\ d.out = c.out
    BY <1>2 DEF Keeps, Sane, ChannelRecord, chan_write_failed, States
  <2> QED BY <2>1, KeepsQuiet
<1>3. CASE c.ostate # "closed" /\ IsSession
  <2>1. d = [Send(c, "EOW", 0) EXCEPT !.output = 0, !.ostate = "closed"]
    BY <1>3 DEF chan_write_failed
  <2>2. d \in ChannelRecord
    BY <2>1, Appended, PlainPackets, Updates
  <2>3. /\ d.type = c.type /\ d.detach = c.detach /\ d.istate = c.istate
        /\ d.ostate = "closed" /\ d.flags = c.flags
        /\ d.out = Append(c.out, Pkt("EOW", 0))
    BY <2>1 DEF Send, Sane, ChannelRecord
  <2>4. "CLOSE_SENT" \notin c.flags /\ Keeps(c, d)
    BY <1>3, <2>2, <2>3 DEF Sane, Keeps
  <2> QED BY <2>3, <2>4, KeepsSends, PlainPackets
<1> QED BY <1>1, <1>2, <1>3

\* channel_pre_open is a calm step that leaves the buffers alone.
LEMMA PreOpen ==
    ASSUME NEW c, Sane(c)
    PROVE  Calm(c, channel_pre_open(c)) /\ channel_pre_open(c).output = c.output
           /\ channel_pre_open(c).extended = c.extended
<1>1. channel_pre_open(c) \in {c, chan_obuf_empty(c)}
  BY DEF channel_pre_open
<1>2. /\ channel_pre_open(c).output = c.output
      /\ channel_pre_open(c).extended = c.extended
  BY DEF channel_pre_open, chan_obuf_empty, Sane, ChannelRecord
<1> QED BY <1>1, <1>2, CalmRefl, ObufEmpty

\* channel_handle_rfd is a calm step.
LEMMA HandleRfd ==
    ASSUME NEW c, Sane(c), c.type = "open", NEW r \in Int
    PROVE  /\ Calm(c, channel_handle_rfd(c, r))
           /\ channel_handle_rfd(c, r).output = c.output
           /\ channel_handle_rfd(c, r).extended = c.extended
<1> DEFINE d == channel_handle_rfd(c, r)
<1>1. CASE d = c
  BY <1>1, CalmRefl
<1>2. CASE d = chan_read_failed(c)
  <2>1. d.output = c.output /\ d.extended = c.extended
    BY <1>2 DEF chan_read_failed, Sane, ChannelRecord
  <2> QED BY <1>2, <2>1, ReadFailed
<1>3. CASE r > 0 /\ d = [c EXCEPT !.input = @ + r]
  <2>0. c \in ChannelRecord /\ c.input + r \in Nat
    BY <1>3 DEF Sane, ChannelRecord
  <2>1. /\ d \in ChannelRecord /\ d.type = c.type /\ d.detach = c.detach
        /\ d.istate = c.istate /\ d.ostate = c.ostate
        /\ d.flags = c.flags /\ d.out = c.out
        /\ d.output = c.output /\ d.extended = c.extended
    BY <1>3, <2>0 DEF ChannelRecord
  <2>2. Keeps(c, d)
    BY <2>1 DEF Keeps, Sane
  <2> QED BY <2>1, <2>2, KeepsQuiet
<1> QED BY <1>1, <1>2, <1>3 DEF channel_handle_rfd

\* channel_handle_wfd takes no more from the output buffer than it holds.
LEMMA HandleWfd ==
    ASSUME NEW c, Sane(c), c.type = "open", NEW w \in Int, w <= c.output
    PROVE  /\ Calm(c, channel_handle_wfd(c, w))
           /\ channel_handle_wfd(c, w).extended = c.extended
<1> DEFINE d == channel_handle_wfd(c, w)
<1>1. CASE d = c
  BY <1>1, CalmRefl
<1>2. CASE d = chan_write_failed(c)
  <2>1. d.extended = c.extended
    BY <1>2 DEF chan_write_failed, Send, Sane, ChannelRecord
  <2> QED BY <1>2, <2>1, WriteFailed
<1>3. CASE w > 0 /\ d = [c EXCEPT !.output = @ - w, !.cons = @ + w]
  <2>1. c \in ChannelRecord /\ c.output - w \in Nat /\ c.cons + w \in Nat
    BY <1>3 DEF Sane, ChannelRecord
  <2>2. d \in ChannelRecord
    BY <1>3, <2>1 DEF ChannelRecord
  <2>3. /\ d.flags = c.flags /\ d.out = c.out /\ d.extended = c.extended
        /\ d.type = c.type /\ d.detach = c.detach /\ d.istate = c.istate /\ d.ostate = c.ostate
    BY <1>3, <2>1 DEF ChannelRecord
  <2>4. Keeps(c, d)
    BY <2>2, <2>3 DEF Keeps
  <2> QED BY <2>3, <2>4, KeepsQuiet
<1> QED BY <1>1, <1>2, <1>3 DEF channel_handle_wfd

\* channel_handle_efd takes no more from the extended buffer than it holds.
LEMMA HandleEfd ==
    ASSUME NEW c, Sane(c), c.type = "open", NEW x \in Int,
           x < 0 => x = Failed, EfdWrite(c) => x <= c.extended
    PROVE  Calm(c, channel_handle_efd(c, x))
<1> DEFINE d == channel_handle_efd(c, x)
<1>1. CASE d = c
  BY <1>1, CalmRefl
<1>2. CASE d = [c EXCEPT !.efd = FALSE]
  <2>1. Keeps(c, d) /\ d.flags = c.flags /\ d.out = c.out
    BY <1>2 DEF Keeps, Sane, ChannelRecord
  <2> QED BY <2>1, KeepsQuiet
<1>3. CASE x > 0 /\ EfdWrite(c) /\ d = [c EXCEPT !.extended = @ - x, !.cons = @ + x]
  <2>1. c \in ChannelRecord /\ c.extended - x \in Nat /\ c.cons + x \in Nat
    BY <1>3 DEF Sane, ChannelRecord
  <2>2. d \in ChannelRecord
    BY <1>3, <2>1 DEF ChannelRecord
  <2>3. /\ d.flags = c.flags /\ d.out = c.out
        /\ d.type = c.type /\ d.detach = c.detach /\ d.istate = c.istate /\ d.ostate = c.ostate
    BY <1>3, <2>1 DEF ChannelRecord
  <2>4. Keeps(c, d)
    BY <2>2, <2>3 DEF Keeps
  <2> QED BY <2>3, <2>4, KeepsQuiet
<1>4. CASE x > 0 /\ d = [c EXCEPT !.extended = @ + x]
  <2>1. c \in ChannelRecord /\ c.extended + x \in Nat
    BY <1>4 DEF Sane, ChannelRecord
  <2>2. d \in ChannelRecord
    BY <1>4, <2>1, Updates
  <2>3. /\ d.flags = c.flags /\ d.out = c.out
        /\ d.type = c.type /\ d.detach = c.detach /\ d.istate = c.istate /\ d.ostate = c.ostate
    BY <1>4, <2>1 DEF ChannelRecord
  <2>4. Keeps(c, d)
    BY <2>2, <2>3 DEF Keeps
  <2> QED BY <2>3, <2>4, KeepsQuiet
<1> QED BY <1>1, <1>2, <1>3, <1>4 DEF channel_handle_efd, Failed

\* channel_check_window sends no window update after CLOSE.
LEMMA CheckWindow ==
    ASSUME NEW c, Sane(c)
    PROVE  Calm(c, channel_check_window(c))
<1> DEFINE d == channel_check_window(c)
<1>1. CASE d = c
  BY <1>1, CalmRefl
<1>2. CASE /\ c.flags \cap {"CLOSE_SENT", "CLOSE_RCVD"} = {}
           /\ d = [Send(c, "ADJUST", c.cons) EXCEPT !.lwin = @ + c.cons, !.cons = 0]
  <2>1. c \in ChannelRecord /\ c.lwin + c.cons \in Nat /\ c.cons \in Nat
    BY DEF Sane, ChannelRecord
  <2>2. d \in ChannelRecord
    <3>1. Send(c, "ADJUST", c.cons) \in ChannelRecord
      BY <2>1, Appended, PlainPackets
    <3>2. ASSUME NEW e \in ChannelRecord
          PROVE  [e EXCEPT !.lwin = @ + c.cons, !.cons = 0] \in ChannelRecord
      <4>1. e.lwin + c.cons \in Nat
        BY <2>1, SMTT(30) DEF ChannelRecord
      <4>2. [e EXCEPT !.lwin = e.lwin + c.cons, !.cons = 0] \in ChannelRecord
        BY <4>1, Updates
      <4> QED BY <4>2
    <3> QED BY <1>2, <3>1, <3>2
  <2>3. /\ d.flags = c.flags /\ d.out = Append(c.out, Pkt("ADJUST", c.cons))
        /\ d.type = c.type /\ d.detach = c.detach /\ d.istate = c.istate /\ d.ostate = c.ostate
    BY <1>2, <2>1 DEF Send, ChannelRecord
  <2>4. Keeps(c, d)
    BY <2>2, <2>3 DEF Keeps, Sane
  <2>5. "CLOSE_SENT" \notin c.flags
    BY <1>2
  <2> QED BY <2>1, <2>3, <2>4, <2>5, KeepsSends, PlainPackets
<1> QED BY <1>1, <1>2 DEF channel_check_window

\* The effect of chan_is_dead: CLOSE is sent at most once, by a channel whose
\* two directions are closed.
LEMMA WithCloseLemma ==
    ASSUME NEW c, Sane(c), NEW do_send
    PROVE  LET d == WithClose(c, do_send)
           IN  /\ Sane(d) /\ Evolves(c, d, {})
               /\ d.type = c.type /\ d.detach = c.detach
               /\ d.istate = c.istate /\ d.ostate = c.ostate
               /\ d.output = c.output /\ d.extended = c.extended /\ d.extusage = c.extusage
               /\ ~do_send => d = c
               /\ c.istate # "closed" => d = c
               /\ c.type = "zombie" => d = c
               /\ d.flags = c.flags \/ d.flags = c.flags \cup {"CLOSE_SENT"}
               /\ /\ do_send /\ c.type # "zombie"
                  /\ c.istate = "closed" /\ c.ostate = "closed"
                  => "CLOSE_SENT" \in d.flags
<1> DEFINE d == WithClose(c, do_send)
<1>1. CASE d = c
  BY <1>1, EvolvesRefl DEF WithClose, Has, chan_send_close2, Send, Sane, ChannelRecord
<1>2. CASE /\ d = chan_send_close2(c) /\ do_send
           /\ c.istate = "closed" /\ c.ostate = "closed" /\ c.type # "zombie"
           /\ "CLOSE_SENT" \notin c.flags
  <2>1. Send(c, "CLOSE", 0) \in ChannelRecord
    BY Appended DEF PacketTypes
  <2>2. ASSUME NEW e \in ChannelRecord
        PROVE  [e EXCEPT !.flags = @ \cup {"CLOSE_SENT"}] \in ChannelRecord
    BY DEF ChannelRecord, Flags
  <2>3. d \in ChannelRecord
    BY <1>2, <2>1, <2>2 DEF chan_send_close2
  <2>4. /\ d.flags = c.flags \cup {"CLOSE_SENT"} /\ d.out = Append(c.out, Pkt("CLOSE", 0))
        /\ d.type = c.type /\ d.detach = c.detach /\ d.istate = c.istate /\ d.ostate = c.ostate
        /\ d.output = c.output /\ d.extended = c.extended /\ d.extusage = c.extusage
    BY <1>2 DEF chan_send_close2, Send, Sane, ChannelRecord
  <2> HIDE DEF d
  <2>5. Sane(d)
    BY <1>2, <2>3, <2>4 DEF Sane
  <2>6. Evolves(c, d, {})
    <3>1. c.out \in Seq(Packet) /\ Pkt("CLOSE", 0).t = "CLOSE"
      BY DEF Sane, ChannelRecord, Pkt
    <3>2. /\ Len(d.out) = Len(c.out) + 1 /\ Len(c.out) \in Nat
          /\ \A i \in 1..Len(c.out) : d.out[i] = c.out[i]
          /\ d.out[Len(c.out) + 1] = Pkt("CLOSE", 0)
      BY <2>4, <3>1
    <3>3. \A i \in (Len(c.out)+1)..Len(d.out) : i = Len(d.out) /\ d.out[i].t = "CLOSE"
      BY <3>1, <3>2
    <3>4. ASSUME NEW i \in (Len(c.out)+1)..Len(d.out)
          PROVE  Fresh(c.flags, d.flags, d.out, i)
      BY <1>2, <2>4, <3>3 DEF Fresh, OpenTypes, DataTypes
    <3>5. /\ c.flags \subseteq d.flags
          /\ d.flags \subseteq c.flags \cup {"EOF_SENT", "CLOSE_SENT"} \cup {}
      BY <2>4
    <3> QED BY <3>2, <3>4, <3>5 DEF Evolves, Grows
  <2> QED BY <1>2, <2>4, <2>5, <2>6 DEF d
<1> QED BY <1>1, <1>2 DEF WithClose, Has

\* Garbage collection frees a channel only when both CLOSE messages were
\* exchanged (or it never was open), keeps its user while it lives, and sends
\* no CLOSE behind the back of a user that has not agreed to it.
LEMMA GarbageCollect ==
    ASSUME NEW c, Sane(c), c.type # "freed", NEW h \in BOOLEAN
    PROVE  LET g == channel_garbage_collect(c, h)
           IN  /\ Sane(g) /\ Evolves(c, g, {})
               /\ g.output = c.output /\ g.extended = c.extended /\ g.extusage = c.extusage
               /\ \/ g.type = c.type /\ g.detach = c.detach
                  \/ /\ g.type = "freed" /\ ~Registered(g)
                     /\ \/ c.type = "zombie"
                        \/ {"CLOSE_SENT", "CLOSE_RCVD"} \subseteq g.flags
               /\ /\ Registered(g) /\ ~g.detach.close /\ "CLOSE_SENT" \in g.flags
                  => "CLOSE_SENT" \in c.flags
               /\ c.istate # "closed" /\ c.type # "zombie" => g = c
               /\ c.type = "zombie" => g.flags = c.flags /\ g.out = c.out
<1> DEFINE d == IF Registered(c) THEN WithClose(c, c.detach.close) ELSE c
           e == IF Registered(d) /\ IsDead(d, d.detach.close)
                THEN DetachUser(d, h, FALSE) ELSE d
           f == WithClose(e, TRUE)
           g == channel_garbage_collect(c, h)
<1>1. /\ Sane(d) /\ Evolves(c, d, {}) /\ d.type = c.type /\ d.detach = c.detach
      /\ d.istate = c.istate /\ d.ostate = c.ostate
      /\ d.output = c.output /\ d.extended = c.extended /\ d.extusage = c.extusage
      /\ c.istate # "closed" => d = c
      /\ c.type = "zombie" => d = c
      /\ Registered(c) /\ ~c.detach.close => d = c
  BY WithCloseLemma, EvolvesRefl
<1>2. e = d \/ (e = [d EXCEPT !.detach = NoUser] /\ IsDead(d, d.detach.close))
  BY DEF DetachUser, channel_cancel_cleanup
<1>3. /\ Sane(e) /\ Evolves(c, e, {}) /\ e.type = c.type
      /\ e.istate = c.istate /\ e.ostate = c.ostate
      /\ e.flags = d.flags /\ e.out = d.out
      /\ e.output = c.output /\ e.extended = c.extended /\ e.extusage = c.extusage
      /\ e.detach = NoUser \/ e = d
  <2>1. CASE e = d
    BY <1>1, <2>1
  <2>2. CASE e = [d EXCEPT !.detach = NoUser]
    <3>1. NoUser \in [user : {"none", "client", "session"}, close : BOOLEAN]
      BY DEF NoUser
    <3>2. e \in ChannelRecord
      BY <1>1, <2>2, <3>1, ZenonT(60) DEF Sane, ChannelRecord
    <3>3. /\ e.type = d.type /\ e.istate = d.istate /\ e.ostate = d.ostate
          /\ e.flags = d.flags /\ e.output = d.output /\ e.extended = d.extended /\ e.extusage = d.extusage
          /\ e.out = d.out /\ e.detach = NoUser
      BY <1>1, <2>2 DEF Sane, ChannelRecord
    <3> QED BY <1>1, <3>2, <3>3 DEF Sane, Evolves
  <2> QED BY <1>2, <2>1, <2>2
<1>4. /\ Sane(f) /\ Evolves(e, f, {}) /\ f.type = e.type /\ f.detach = e.detach
      /\ f.istate = e.istate /\ f.ostate = e.ostate
      /\ f.output = e.output /\ f.extended = e.extended /\ f.extusage = e.extusage
      /\ e.istate # "closed" => f = e
      /\ e.type = "zombie" => f = e
      /\ e.flags \subseteq f.flags
      /\ e.type # "zombie" /\ e.istate = "closed" /\ e.ostate = "closed"
           => "CLOSE_SENT" \in f.flags
  <2> HIDE DEF e
  <2>1. f.flags = e.flags \/ f.flags = e.flags \cup {"CLOSE_SENT"}
    BY <1>3, WithCloseLemma
  <2>2. e.flags \subseteq f.flags
    BY <2>1
  <2> QED BY <1>3, <2>2, WithCloseLemma, ZenonT(60)
<1>5. Evolves(c, f, {})
  BY <1>3, <1>4, EvolvesTrans
<1>6. g = IF Registered(e) THEN e
          ELSE IF IsDead(f, TRUE) THEN [f EXCEPT !.type = "freed"] ELSE f
  BY DEF channel_garbage_collect
<1> HIDE DEF d, e, f, g
<1>7. c.istate # "closed" /\ c.type # "zombie" => g = c
  <2>1. SUFFICES ASSUME c.istate # "closed", c.type # "zombie" PROVE g = c
    OBVIOUS
  <2>2. d = c
    BY <1>1, <2>1
  <2>3. e = c
    BY <1>2, <2>1, <2>2 DEF IsDead
  <2>4. f = c
    BY <1>4, <2>1, <2>3
  <2> QED BY <1>6, <2>1, <2>3, <2>4 DEF IsDead
<1>8. CASE Registered(e)
  <2>1. g = e /\ e = d
    BY <1>3, <1>6, <1>8 DEF Registered, NoUser
  <2> QED BY <1>1, <1>3, <1>7, <2>1 DEF Registered, g
<1>9. CASE ~Registered(e) /\ IsDead(f, TRUE)
  <2>1. g = [f EXCEPT !.type = "freed"]
    BY <1>6, <1>9
  <2>2. /\ g \in ChannelRecord /\ g.type = "freed" /\ g.flags = f.flags /\ g.out = f.out
        /\ g.istate = f.istate /\ g.ostate = f.ostate /\ g.detach = f.detach
        /\ g.output = f.output /\ g.extended = f.extended /\ g.extusage = f.extusage
    BY <1>4, <2>1 DEF Sane, ChannelRecord, Types
  <2>3. Sane(g) /\ Evolves(c, g, {})
    BY <1>4, <1>5, <2>2 DEF Sane, Evolves
  <2>4. c.type = "zombie" \/ {"CLOSE_SENT", "CLOSE_RCVD"} \subseteq g.flags
    BY <1>3, <1>4, <1>9, <2>2 DEF IsDead, Has
  <2>5. ~Registered(g)
    BY <1>4, <1>9, <2>2 DEF Registered
  <2>6. c.type = "zombie" => g.flags = c.flags /\ g.out = c.out
    BY <1>1, <1>3, <1>4, <2>2
  <2> QED BY <1>3, <1>4, <1>7, <2>2, <2>3, <2>4, <2>5, <2>6 DEF g
<1>10. CASE ~Registered(e) /\ ~IsDead(f, TRUE)
  <2>1. g = f
    BY <1>6, <1>10
  <2>2. e = d
    <3>1. SUFFICES ASSUME IsDead(d, d.detach.close) PROVE FALSE
      BY <1>2
    <3>2. d.type # "zombie"
      BY <1>1, <1>3, <1>4, <1>10 DEF IsDead
    <3>3. d.istate = "closed" /\ d.ostate = "closed" /\ "CLOSE_RCVD" \in d.flags
      BY <3>1, <3>2 DEF IsDead, Has
    <3> QED BY <1>1, <1>3, <1>4, <1>10, <3>2, <3>3 DEF IsDead, Has
  <2>3. g.type = c.type /\ g.detach = c.detach
    BY <1>1, <1>3, <1>4, <2>1, <2>2
  <2>4. ~Registered(g)
    BY <1>4, <1>10, <2>1 DEF Registered
  <2>5. c.type = "zombie" => g.flags = c.flags /\ g.out = c.out
    BY <1>1, <1>3, <1>4, <2>1
  <2> QED BY <1>3, <1>4, <1>5, <1>7, <2>1, <2>3, <2>4, <2>5 DEF g
<1> QED BY <1>8, <1>9, <1>10 DEF g

\* A session keeps its channel as long as its child is there.
LEMMA CollectSession ==
    ASSUME NEW c, Sane(c), c.detach.user = "session"
    PROVE  channel_garbage_collect(c, TRUE).detach = c.detach
<1> DEFINE d == WithClose(c, c.detach.close)
<1>1. Registered(c) /\ d.detach = c.detach /\ Registered(d)
  BY WithCloseLemma DEF Registered
<1>2. DetachUser(d, TRUE, FALSE) = d
  BY <1>1 DEF DetachUser
<1> HIDE DEF d
<1>3. channel_garbage_collect(c, TRUE) = d
  BY <1>1, <1>2 DEF channel_garbage_collect, d
<1> QED BY <1>1, <1>3

----------------------------------------------------------------------------

\* A step that sets no flag may be used where some may be set.
LEMMA EvolvesMono ==
    ASSUME NEW c, NEW d, NEW F, Evolves(c, d, {})
    PROVE  Evolves(c, d, F)
BY DEF Evolves, Grows

\* channel_force_close abandons the channel without sending CLOSE itself.
LEMMA ForceClose ==
    ASSUME NEW c, Sane(c), c.type = "open", NEW h \in BOOLEAN
    PROVE  LET g == channel_force_close(c, h)
           IN  /\ Sane(g) /\ Evolves(c, g, {}) /\ g.type = "abandoned" /\ g.detach = NoUser
               /\ "CLOSE_SENT" \in g.flags => "CLOSE_SENT" \in c.flags
<1> DEFINE d == chan_read_failed(c)
           z == [d EXCEPT !.input = IF d.istate = "drain" THEN 0 ELSE @]
           e == chan_ibuf_empty(z)
           f == chan_write_failed(e)
           g == channel_force_close(c, h)
<1>1. Calm(c, d)
  BY ReadFailed
<1>2. Calm(d, z)
  <2>1. d \in ChannelRecord /\ Sane(d)
    BY <1>1 DEF Calm, Sane
  <2>2. z = d \/ z = [d EXCEPT !.input = 0]
    BY <2>1 DEF ChannelRecord
  <2> HIDE DEF d
  <2>3. /\ z \in ChannelRecord /\ z.type = d.type /\ z.detach = d.detach
        /\ z.istate = d.istate /\ z.ostate = d.ostate
        /\ z.flags = d.flags /\ z.out = d.out
    BY <2>1, <2>2, Updates, ZenonT(60) DEF ChannelRecord
  <2>4. Keeps(d, z)
    BY <2>1, <2>3 DEF Keeps, Sane
  <2> QED BY <2>1, <2>3, <2>4, KeepsQuiet
<1>3. Calm(z, e)
  BY <1>2, IbufEmpty DEF Calm
<1>4. Calm(e, f)
  BY <1>1, <1>2, <1>3, WriteFailed DEF Calm
<1>5. Calm(c, f)
  <2>1. Calm(c, z)
    BY <1>1, <1>2, CalmTrans
  <2>2. Calm(c, e)
    BY <2>1, <1>3, CalmTrans
  <2> QED BY <2>2, <1>4, CalmTrans
<1>6. g = [[f EXCEPT !.detach = NoUser] EXCEPT !.efd = FALSE, !.type = "abandoned"]
  BY DEF channel_force_close, DetachUser, channel_cancel_cleanup
<1> HIDE DEF f, g
<1>7. f \in ChannelRecord
  BY <1>5 DEF Calm, Sane
<1>8. NoUser \in [user : {"none", "client", "session"}, close : BOOLEAN]
  BY DEF NoUser
<1>9. /\ g \in ChannelRecord /\ g.type = "abandoned" /\ g.detach = NoUser
      /\ g.istate = f.istate /\ g.ostate = f.ostate
      /\ g.flags = f.flags /\ g.out = f.out
  BY <1>6, <1>7, <1>8 DEF ChannelRecord, Types
<1>10. Sane(g) /\ Evolves(c, g, {})
  BY <1>5, <1>9 DEF Calm, Sane, Evolves
<1> QED BY <1>5, <1>9, <1>10 DEF Calm, g

\* A data packet leaves before EOF and within the buffer and the window.
LEMMA SendData ==
    ASSUME NEW c, Sane(c), "CLOSE_SENT" \notin c.flags, "EOF_SENT" \notin c.flags,
           NEW n \in Nat,
           NEW d, \/ n <= c.input /\ n <= c.rwin
                     /\ d = [Send(c, "DATA", n) EXCEPT !.input = @ - n, !.rwin = @ - n]
                  \/ n <= c.extended /\ n <= c.rwin
                     /\ d = [Send(c, "EXT", n) EXCEPT !.extended = @ - n, !.rwin = @ - n]
    PROVE  Calm(c, d)
<1>1. c \in ChannelRecord
  BY DEF Sane
<1>2. ASSUME NEW e \in ChannelRecord, n <= e.rwin
      PROVE  /\ n <= e.input => [e EXCEPT !.input = @ - n, !.rwin = @ - n] \in ChannelRecord
             /\ n <= e.extended => [e EXCEPT !.extended = @ - n, !.rwin = @ - n] \in ChannelRecord
  <2>1. e.rwin - n \in Nat /\ (n <= e.input => e.input - n \in Nat)
        /\ (n <= e.extended => e.extended - n \in Nat)
    BY <1>2 DEF ChannelRecord
  <2>2. /\ n <= e.input => [e EXCEPT !.input = e.input - n, !.rwin = e.rwin - n] \in ChannelRecord
        /\ n <= e.extended => [e EXCEPT !.extended = e.extended - n, !.rwin = e.rwin - n] \in ChannelRecord
    BY <2>1, Updates
  <2> QED BY <2>2
<1>3. ASSUME NEW t \in {"DATA", "EXT"}
      PROVE  /\ Send(c, t, n) \in ChannelRecord /\ Send(c, t, n).rwin = c.rwin
             /\ Send(c, t, n).input = c.input /\ Send(c, t, n).extended = c.extended
  BY <1>1, Appended, PlainPackets DEF Send, ChannelRecord
<1>4. d \in ChannelRecord
  BY <1>2, <1>3
<1>5. PICK t \in {"DATA", "EXT"} :
        /\ d.flags = c.flags /\ d.out = Append(c.out, Pkt(t, n))
        /\ d.type = c.type /\ d.detach = c.detach /\ d.istate = c.istate /\ d.ostate = c.ostate
  BY <1>1, ZenonT(60) DEF Send, ChannelRecord
<1>6. Keeps(c, d)
  BY <1>4, <1>5 DEF Keeps, Sane
<1>7. t \in PacketTypes \ (OpenTypes \cup {"CLOSE", "EOF"})
  BY PlainPackets
<1> QED BY <1>5, <1>6, <1>7, KeepsSends

\* channel_output_poll sends data and EOF in that order.
LEMMA OutputPoll ==
    ASSUME NEW c, Sane(c), "CLOSE_SENT" \notin c.flags
    PROVE  Calm(c, channel_output_poll(c))
<1> DEFINE d == IF c.istate # "closed" THEN channel_output_poll_input_open(c) ELSE c
<1>0. ASSUME NEW k \in Nat, NEW e, Sane(e)
      PROVE  Chunk(e, k) \in Nat /\ Chunk(e, k) <= k /\ Chunk(e, k) <= e.rwin
  <2>1. e.rwin \in Nat /\ MaxPacket \in Nat
    BY <1>0, SizeAssumption DEF Sane, ChannelRecord
  <2> QED BY <1>0, <2>1 DEF Chunk, Lesser
<1>1. Calm(c, d)
  <2>1. CASE d = c
    BY <2>1, CalmRefl
  <2>2. CASE d = chan_ibuf_empty(c)
    BY <2>2, IbufEmpty
  <2>3. CASE /\ c.istate # "closed"
             /\ d = [Send(c, "DATA", Chunk(c, c.input))
                       EXCEPT !.input = @ - Chunk(c, c.input), !.rwin = @ - Chunk(c, c.input)]
    <3>1. "EOF_SENT" \notin c.flags /\ c.input \in Nat
      BY <2>3 DEF Sane, ChannelRecord
    <3> HIDE DEF d
    <3> QED BY <2>3, <3>1, <1>0, SendData
  <2> QED BY <2>1, <2>2, <2>3 DEF channel_output_poll_input_open
<1>2. Sane(d) /\ "CLOSE_SENT" \notin d.flags
  BY <1>1 DEF Calm
<1>3. channel_output_poll(c) = IF ~Has(d, "EOF_SENT") /\ EfdRead(d)
                               THEN channel_output_poll_extended_read(d) ELSE d
  BY DEF channel_output_poll
<1> HIDE DEF d
<1>4. CASE channel_output_poll(c) = d
  BY <1>1, <1>4
<1>5. CASE /\ "EOF_SENT" \notin d.flags
           /\ channel_output_poll(c) =
                [Send(d, "EXT", Chunk(d, d.extended))
                  EXCEPT !.extended = @ - Chunk(d, d.extended), !.rwin = @ - Chunk(d, d.extended)]
  <2>1. d.extended \in Nat
    BY <1>2 DEF Sane, ChannelRecord
  <2>2. Calm(d, channel_output_poll(c))
    BY <1>0, <1>2, <1>5, <2>1, SendData
  <2> QED BY <1>1, <2>2, CalmTrans
<1> QED BY <1>3, <1>4, <1>5 DEF channel_output_poll_extended_read, Has

\* A calm step is one a packet handler may make.
LEMMA CalmTakes ==
    ASSUME NEW c, NEW d, NEW F, Calm(c, d)
    PROVE  Takes(c, d, F)
BY EvolvesMono DEF Calm, Takes

\* chan_rcvd_ieof only sets EOF_RCVD.
LEMMA RcvdIeof ==
    ASSUME NEW c, Sane(c), c.type \notin {"none", "opening", "connecting"}
    PROVE  Takes(c, chan_rcvd_ieof(c), {"EOF_RCVD"})
<1> DEFINE d == [c EXCEPT !.flags = @ \cup {"EOF_RCVD"},
                          !.ostate = IF @ = "open" THEN "drain" ELSE @]
<1>1. /\ d \in ChannelRecord /\ d.type = c.type /\ d.detach = c.detach
      /\ d.istate = c.istate /\ d.out = c.out /\ d.flags = c.flags \cup {"EOF_RCVD"}
      /\ c.ostate = "closed" => d.ostate = "closed"
  BY DEF Sane, ChannelRecord, States, Flags
<1>2. chan_rcvd_ieof(c) \in {d, chan_obuf_empty(d)}
  BY DEF chan_rcvd_ieof
<1> HIDE DEF d
<1>3. Sane(d)
  BY <1>1 DEF Sane
<1>4. Evolves(c, d, {"EOF_RCVD"})
  BY <1>1 DEF Evolves, Grows, Sane, ChannelRecord
<1>5. Takes(c, d, {"EOF_RCVD"})
  BY <1>1, <1>3, <1>4 DEF Takes
<1>6. Takes(d, chan_obuf_empty(d), {"EOF_RCVD"})
  BY <1>3, ObufEmpty, CalmTakes
<1>7. Takes(c, chan_obuf_empty(d), {"EOF_RCVD"})
  BY <1>5, <1>6, EvolvesTrans DEF Takes
<1> QED BY <1>2, <1>5, <1>7

\* Closing the read side leaves the rest of the channel alone.
LEMMA ShutReads ==
    ASSUME NEW f \in ChannelRecord, NEW k \in {f, [f EXCEPT !.efd = FALSE]},
           NEW g, g = [k EXCEPT !.istate = "closed"]
    PROVE  /\ g \in ChannelRecord /\ g.type = f.type /\ g.detach = f.detach
           /\ g.istate = "closed" /\ g.ostate = f.ostate
           /\ g.out = f.out /\ g.flags = f.flags
<1>1. /\ k \in ChannelRecord /\ k.type = f.type /\ k.detach = f.detach
      /\ k.ostate = f.ostate /\ k.out = f.out /\ k.flags = f.flags
  BY ZenonT(60) DEF ChannelRecord
<1> QED BY <1>1 DEF ChannelRecord, States

\* chan_rcvd_oclose sets CLOSE_RCVD and may send the EOF that is still due.
LEMMA RcvdOclose ==
    ASSUME NEW c, Sane(c), c.type \notin {"none", "opening", "connecting"}
    PROVE  Takes(c, chan_rcvd_oclose(c), {"CLOSE_RCVD"})
<1> DEFINE d == [c EXCEPT !.flags = @ \cup {"CLOSE_RCVD"}]
           e == [d EXCEPT !.ostate = IF @ = "open" THEN "drain" ELSE @]
           f == IF e.istate = "drain" THEN chan_send_eof2(e) ELSE e
           g == chan_rcvd_oclose(c)
<1>1. /\ d \in ChannelRecord /\ d.type = c.type /\ d.detach = c.detach
      /\ d.istate = c.istate /\ d.ostate = c.ostate
      /\ d.out = c.out /\ d.flags = c.flags \cup {"CLOSE_RCVD"}
  BY DEF Sane, ChannelRecord, Flags
<1>2. g = IF c.type = "larval" THEN [d EXCEPT !.ostate = "closed", !.istate = "closed"]
          ELSE IF e.istate = "closed" THEN e
          ELSE [chan_shutdown_extended_read(f) EXCEPT !.istate = "closed"]
  BY DEF chan_rcvd_oclose
<1>3. /\ e \in ChannelRecord /\ e.type = c.type /\ e.detach = c.detach
      /\ e.istate = c.istate /\ e.out = c.out /\ e.flags = c.flags \cup {"CLOSE_RCVD"}
      /\ c.ostate = "closed" => e.ostate = "closed"
  <2> HIDE DEF d
  <2> QED BY <1>1 DEF ChannelRecord, States
<1> HIDE DEF d, e
<1>4. Evolves(c, e, {"CLOSE_RCVD"}) /\ Sane(e)
  BY <1>3 DEF Evolves, Grows, Sane, ChannelRecord
<1>5. CASE c.type = "larval"
  <2>1. g = [d EXCEPT !.ostate = "closed", !.istate = "closed"]
    BY <1>2, <1>5
  <2> HIDE DEF g
  <2>2. /\ g \in ChannelRecord /\ g.type = c.type /\ g.detach = c.detach
        /\ g.istate = "closed" /\ g.ostate = "closed"
        /\ g.out = c.out /\ g.flags = c.flags \cup {"CLOSE_RCVD"}
    BY <1>1, <2>1 DEF ChannelRecord, States
  <2>3. Sane(g) /\ Evolves(c, g, {"CLOSE_RCVD"})
    BY <1>5, <2>2 DEF Evolves, Grows, Sane, ChannelRecord
  <2> QED BY <2>2, <2>3 DEF Takes, g
<1>6. CASE c.type # "larval" /\ e.istate = "closed"
  <2>1. g = e
    BY <1>2, <1>6
  <2> QED BY <1>3, <1>4, <2>1 DEF Takes
<1>7. CASE c.type # "larval" /\ e.istate # "closed"
  <2>1. "CLOSE_SENT" \notin c.flags /\ "EOF_SENT" \notin c.flags
    BY <1>3, <1>7 DEF Sane
  <2>2. \E k \in {f, [f EXCEPT !.efd = FALSE]} : g = [k EXCEPT !.istate = "closed"]
    BY <1>2, <1>7 DEF chan_shutdown_extended_read
  <2>3. CASE f = e
    <3> HIDE DEF g, f
    <3>0. PICK k \in {e, [e EXCEPT !.efd = FALSE]} : g = [k EXCEPT !.istate = "closed"]
      BY <2>2, <2>3
    <3>1. /\ g \in ChannelRecord /\ g.type = e.type /\ g.detach = e.detach
          /\ g.istate = "closed" /\ g.ostate = e.ostate
          /\ g.out = e.out /\ g.flags = e.flags
      BY <1>3, <3>0, ShutReads, ZenonT(60)
    <3>2. Sane(g) /\ Evolves(c, g, {"CLOSE_RCVD"})
      BY <1>3, <1>4, <3>1 DEF Sane, Evolves
    <3> QED BY <1>3, <3>1, <3>2 DEF Takes, g
  <2>4. CASE f = chan_send_eof2(e)
    <3>1. Send(e, "EOF", 0) \in ChannelRecord
      BY <1>4, Appended DEF PacketTypes
    <3>2. ASSUME NEW x \in ChannelRecord
          PROVE  [x EXCEPT !.flags = @ \cup {"EOF_SENT"}] \in ChannelRecord
      BY DEF ChannelRecord, Flags
    <3>3. f \in ChannelRecord
      BY <2>4, <3>1, <3>2 DEF chan_send_eof2
    <3>4. /\ f.type = e.type /\ f.detach = e.detach /\ f.ostate = e.ostate
          /\ f.out = Append(e.out, Pkt("EOF", 0)) /\ f.flags = e.flags \cup {"EOF_SENT"}
      BY <1>3, <2>4 DEF chan_send_eof2, Send, ChannelRecord
    <3> HIDE DEF g, f
    <3>5. /\ g \in ChannelRecord /\ g.type = f.type /\ g.detach = f.detach
          /\ g.istate = "closed" /\ g.ostate = f.ostate
          /\ g.out = f.out /\ g.flags = f.flags
      <4>1. PICK k \in {f, [f EXCEPT !.efd = FALSE]} : g = [k EXCEPT !.istate = "closed"]
        BY <2>2
      <4> QED BY <3>3, <4>1, ShutReads
    <3>6. Sane(g)
      BY <1>3, <2>1, <3>4, <3>5 DEF Sane
    <3>7. Evolves(c, g, {"CLOSE_RCVD"})
      <4>1. c.out \in Seq(Packet) /\ Pkt("EOF", 0).t = "EOF"
        BY DEF Sane, ChannelRecord, Pkt
      <4>2. g.out = Append(c.out, Pkt("EOF", 0))
        BY <1>3, <3>4, <3>5
      <4>3. /\ Len(g.out) = Len(c.out) + 1 /\ Len(c.out) \in Nat
            /\ \A i \in 1..Len(c.out) : g.out[i] = c.out[i]
            /\ g.out[Len(c.out) + 1] = Pkt("EOF", 0)
        BY <4>1, <4>2
      <4>4. g.flags = c.flags \cup {"CLOSE_RCVD"} \cup {"EOF_SENT"}
        BY <1>3, <3>4, <3>5
      <4>5. ASSUME NEW i \in (Len(c.out)+1)..Len(g.out)
            PROVE  Fresh(c.flags, g.flags, g.out, i)
        <5>1. i = Len(g.out) /\ g.out[i].t = "EOF"
          BY <4>1, <4>3
        <5> QED BY <2>1, <4>3, <4>4, <5>1 DEF Fresh, OpenTypes, DataTypes
      <4> QED BY <4>3, <4>4, <4>5 DEF Evolves, Grows
    <3> QED BY <1>3, <2>1, <3>4, <3>5, <3>6, <3>7 DEF Takes, g
  <2> QED BY <2>3, <2>4
<1> QED BY <1>5, <1>6, <1>7

\* channel_input_data is a calm step.
LEMMA InputDataLemma ==
    ASSUME NEW c, Sane(c), NEW n \in Nat
    PROVE  Calm(c, channel_input_data(c, n))
<1> DEFINE d == channel_input_data(c, n)
<1>1. CASE d = c
  BY <1>1, CalmRefl
<1>2. CASE d # c
  <2>1. c \in ChannelRecord /\ c.cons + n \in Nat /\ c.output + n \in Nat
        /\ (IF n > c.lwin THEN 0 ELSE c.lwin - n) \in Nat
    BY DEF Sane, ChannelRecord
  <2>2. PICK k \in Nat : \/ d = [c EXCEPT !.lwin = k, !.cons = c.cons + n]
                         \/ d = [c EXCEPT !.lwin = k, !.output = c.output + n]
    <3>1. LET k == IF n > c.lwin THEN 0 ELSE c.lwin - n
          IN  \/ d = [c EXCEPT !.lwin = k, !.cons = c.cons + n]
              \/ d = [c EXCEPT !.lwin = k, !.output = c.output + n]
      BY <1>2 DEF channel_input_data
    <3> QED BY <2>1, <3>1
  <2> HIDE DEF d
  <2>3. d \in ChannelRecord
    <3>1. [c EXCEPT !.lwin = k, !.cons = c.cons + n] \in ChannelRecord
      BY <2>1, Updates
    <3>2. [c EXCEPT !.lwin = k, !.output = c.output + n] \in ChannelRecord
      BY <2>1, Updates
    <3> QED BY <2>2, <3>1, <3>2
  <2>4. /\ d.flags = c.flags /\ d.out = c.out /\ d.type = c.type /\ d.detach = c.detach
        /\ d.istate = c.istate /\ d.ostate = c.ostate
    BY <2>1, <2>2, ZenonT(60) DEF ChannelRecord
  <2>5. Keeps(c, d)
    BY <2>3, <2>4 DEF Keeps, Sane
  <2>6. Calm(c, d)
    BY <2>4, <2>5, KeepsQuiet
  <2> QED BY <2>6 DEF d
<1> QED BY <1>1, <1>2

\* channel_input_extended_data is a calm step.
LEMMA InputExtendedDataLemma ==
    ASSUME NEW c, Sane(c), NEW n \in Nat
    PROVE  Calm(c, channel_input_extended_data(c, n))
<1> DEFINE d == channel_input_extended_data(c, n)
<1>1. CASE d = c
  BY <1>1, CalmRefl
<1>2. CASE d # c
  <2>1. n <= c.lwin /\ d = [c EXCEPT !.extended = c.extended + n, !.lwin = c.lwin - n]
    BY <1>2 DEF channel_input_extended_data, Sane, ChannelRecord
  <2>2. c \in ChannelRecord /\ c.extended + n \in Nat /\ c.lwin - n \in Nat
    BY <2>1 DEF Sane, ChannelRecord
  <2> HIDE DEF d
  <2>3. d \in ChannelRecord
    BY <2>1, <2>2, Updates
  <2>4. /\ d.flags = c.flags /\ d.out = c.out /\ d.type = c.type /\ d.detach = c.detach
        /\ d.istate = c.istate /\ d.ostate = c.ostate
    BY <2>1, <2>2 DEF ChannelRecord
  <2>5. Keeps(c, d)
    BY <2>3, <2>4 DEF Keeps, Sane
  <2>6. Calm(c, d)
    BY <2>4, <2>5, KeepsQuiet
  <2> QED BY <2>6 DEF d
<1> QED BY <1>1, <1>2

\* channel_input_window_adjust is a calm step.
LEMMA WindowAdjustLemma ==
    ASSUME NEW c, Sane(c), NEW n \in Nat
    PROVE  Calm(c, channel_input_window_adjust(c, n))
<1> DEFINE d == channel_input_window_adjust(c, n)
<1>1. c \in ChannelRecord /\ c.rwin + n \in Nat
  BY DEF Sane, ChannelRecord
<1>2. d = [c EXCEPT !.rwin = c.rwin + n]
  BY DEF channel_input_window_adjust
<1> HIDE DEF d
<1>3. d \in ChannelRecord
  BY <1>1, <1>2, Updates
<1>4. /\ d.flags = c.flags /\ d.out = c.out /\ d.type = c.type /\ d.detach = c.detach
      /\ d.istate = c.istate /\ d.ostate = c.ostate
  BY <1>1, <1>2 DEF ChannelRecord
<1>5. Keeps(c, d)
  BY <1>3, <1>4 DEF Keeps, Sane
<1>6. Calm(c, d)
  BY <1>4, <1>5, KeepsQuiet
<1> QED BY <1>6 DEF d

\* client_status_confirm is a calm step.
LEMMA StatusConfirm ==
    ASSUME NEW c, Sane(c), c.type \notin {"none", "opening", "connecting"}, NEW t, NEW text \in Nat
    PROVE  Calm(c, client_status_confirm(c, t, text))
<1> DEFINE d == [c EXCEPT !.extended = @ + text]
<1>1. c \in ChannelRecord /\ c.extended + text \in Nat
  BY DEF Sane, ChannelRecord
<1>2. /\ d \in ChannelRecord /\ d.type = c.type /\ d.detach = c.detach /\ d.flags = c.flags
      /\ d.istate = c.istate /\ d.ostate = c.ostate /\ d.out = c.out
  BY <1>1 DEF ChannelRecord
<1>3. client_status_confirm(c, t, text) \in {d, chan_write_failed(chan_read_failed(d))}
  BY DEF client_status_confirm
<1> HIDE DEF d
<1>4. Calm(c, d)
  BY <1>1, <1>2, KeepsQuiet DEF Keeps, Sane
<1>5. Calm(d, chan_read_failed(d))
  BY <1>2, <1>4, ReadFailed DEF Calm
<1>6. Calm(chan_read_failed(d), chan_write_failed(chan_read_failed(d)))
  BY <1>2, <1>5, WriteFailed DEF Calm
<1>7. Calm(c, chan_write_failed(chan_read_failed(d)))
  BY <1>4, <1>5, <1>6, CalmTrans
<1> QED BY <1>3, <1>4, <1>7

----------------------------------------------------------------------------
(* The inductive invariant.                                                *)

Plain(s, k) == \A i \in k..Len(s) : s[i].t \notin OpenTypes
NoData(s) == \A i \in 1..Len(s) : s[i].t \notin DataTypes

\* The link from end c to end d: CLOSE ends it, EOF ends the data in it, and
\* what d has received of them c has sent.
LinkOK(c, d) ==
    /\ \A i \in 1..Len(c.out) :
         /\ c.out[i].t = "CLOSE" => i = Len(c.out) /\ "CLOSE_SENT" \in c.flags
         /\ c.out[i].t = "EOF" =>
              /\ "EOF_SENT" \in c.flags
              /\ \A j \in (i+1)..Len(c.out) : c.out[j].t \notin DataTypes
    /\ "CLOSE_RCVD" \in d.flags => "CLOSE_SENT" \in c.flags /\ c.out = <<>>
    /\ "EOF_RCVD" \in d.flags => "EOF_SENT" \in c.flags /\ NoData(c.out)

\* How far the open handshake between client c and server s has come.
Asked(c, s) ==
    /\ c.type = "opening" /\ c.flags = {} /\ s.type = "none" /\ s.flags = {}
    /\ Len(c.out) = 1 /\ c.out[1].t = "OPEN" /\ s.out = <<>>
Refused(c, s) ==
    /\ c.flags = {} /\ s.type \in {"none", "zombie", "freed"} /\ s.flags = {}
    /\ c.out = <<>>
    /\ \/ c.type = "opening" /\ Len(s.out) = 1 /\ s.out[1].t = "OPENFAIL"
       \/ c.type \in {"zombie", "freed"} /\ s.out = <<>>
Dialing(c, s) ==
    /\ c.type = "opening" /\ c.flags = {} /\ c.out = <<>>
    /\ s.type = "connecting" /\ s.flags = {} /\ s.out = <<>>
Confirming(c, s) ==
    /\ c.type = "opening" /\ c.flags = {} /\ c.out = <<>>
    /\ s.type \in {"larval", "open", "abandoned"}
    /\ Len(s.out) >= 1 /\ s.out[1].t = "CONFIRM" /\ Plain(s.out, 2)
BothClosed(c) == {"CLOSE_SENT", "CLOSE_RCVD"} \subseteq c.flags
Established(c, s) ==
    /\ c.type \in {"open", "abandoned", "freed"}
    /\ s.type \in {"larval", "open", "abandoned", "freed"}
    /\ c.type = "freed" => BothClosed(c)
    /\ s.type = "freed" => BothClosed(s)
    /\ Plain(c.out, 1) /\ Plain(s.out, 1)

Phase(c, s) ==
    Asked(c, s) \/ Refused(c, s) \/ Dialing(c, s) \/ Confirming(c, s) \/ Established(c, s)

\* The server's session holds its channel until its child is reaped, and
\* until then no CLOSE leaves.
SessionOK(c, s, k) ==
    /\ c.detach.user # "session" /\ s.detach.user # "client"
    /\ s.detach.user = "session" =>
         /\ s.type \in {"larval", "open"}
         /\ k \in {"running", "exited"} => ~s.detach.close
         /\ ~s.detach.close => "CLOSE_SENT" \notin s.flags
    /\ s.type = "larval" /\ s.detach.user = "session" => ~s.detach.close
    /\ s.type \in {"none", "larval"} => k = "none"
    /\ s.type = "connecting" => s.detach.user = "none"

IInv ==
    /\ TypeOK
    /\ \A p \in Peers : Sane(ch[p])
    /\ \A p \in Peers : LinkOK(ch[p], ch[Other(p)])
    /\ Phase(ch["client"], ch["server"])
    /\ SessionOK(ch["client"], ch["server"], child)
    /\ NoFault

----------------------------------------------------------------------------

\* What any step makes of the channel of the end that takes it.
Advance(c, d, F) ==
    /\ Sane(d) /\ Evolves(c, d, F)
    /\ c.type \in {"none", "opening", "connecting", "freed"} => d = c
    /\ c.type = "zombie" => /\ d.flags = c.flags /\ d.out = c.out
                            /\ d.type \in {"zombie", "freed"}
    /\ c.type \in {"larval", "open", "abandoned"} =>
         \/ d.type \in {c.type, "open", "abandoned"}
         \/ d.type = "freed" /\ BothClosed(d)

\* A link stays in order when its sender takes a step.
LEMMA LinkGrow ==
    ASSUME NEW c, NEW d, NEW q, NEW F, Sane(c), Sane(d), Evolves(c, d, F), LinkOK(c, q)
    PROVE  LinkOK(d, q)
<1>1. c.out \in Seq(Packet) /\ d.out \in Seq(Packet)
  BY DEF Sane, ChannelRecord
<1>2. /\ c.flags \subseteq d.flags /\ Len(c.out) <= Len(d.out)
      /\ Len(c.out) \in Nat /\ Len(d.out) \in Nat
      /\ \A i \in 1..Len(c.out) : d.out[i] = c.out[i]
      /\ \A i \in (Len(c.out)+1)..Len(d.out) : Fresh(c.flags, d.flags, d.out, i)
  BY <1>1 DEF Evolves, Grows
<1>3. ASSUME NEW i \in 1..Len(d.out)
      PROVE  /\ d.out[i].t = "CLOSE" => i = Len(d.out) /\ "CLOSE_SENT" \in d.flags
             /\ d.out[i].t = "EOF" =>
                  /\ "EOF_SENT" \in d.flags
                  /\ \A j \in (i+1)..Len(d.out) : d.out[j].t \notin DataTypes
  <2>1. CASE i > Len(c.out)
    BY <1>2, <2>1 DEF Fresh
  <2>2. CASE i <= Len(c.out)
    <3>1. i \in 1..Len(c.out) /\ d.out[i] = c.out[i]
      BY <1>2, <2>2
    <3>2. ASSUME d.out[i].t = "CLOSE" PROVE i = Len(d.out) /\ "CLOSE_SENT" \in d.flags
      <4>1. i = Len(c.out) /\ "CLOSE_SENT" \in c.flags
        BY <3>1, <3>2 DEF LinkOK
      <4>2. Len(d.out) = Len(c.out)
        BY <1>2, <4>1 DEF Fresh
      <4> QED BY <1>2, <4>1, <4>2
    <3>3. ASSUME d.out[i].t = "EOF"
          PROVE  /\ "EOF_SENT" \in d.flags
                 /\ \A j \in (i+1)..Len(d.out) : d.out[j].t \notin DataTypes
      <4>1. "EOF_SENT" \in c.flags /\ \A j \in (i+1)..Len(c.out) : c.out[j].t \notin DataTypes
        BY <3>1, <3>3 DEF LinkOK
      <4>2. \A j \in (Len(c.out)+1)..Len(d.out) : d.out[j].t \notin DataTypes
        BY <1>2, <4>1 DEF Fresh
      <4>3. \A j \in (i+1)..Len(c.out) : d.out[j] = c.out[j]
        BY <1>2
      <4>4. \A j \in (i+1)..Len(d.out) : j \in (i+1)..Len(c.out) \/ j \in (Len(c.out)+1)..Len(d.out)
        BY <1>2
      <4> QED BY <1>2, <4>1, <4>2, <4>3, <4>4
    <3> QED BY <3>2, <3>3
  <2> QED BY <1>2, <2>1, <2>2
<1>4. ASSUME "CLOSE_RCVD" \in q.flags PROVE "CLOSE_SENT" \in d.flags /\ d.out = <<>>
  <2>1. "CLOSE_SENT" \in c.flags /\ c.out = <<>>
    BY <1>4 DEF LinkOK
  <2>2. Len(d.out) = 0
    BY <1>2, <2>1 DEF Fresh
  <2> QED BY <1>1, <1>2, <2>1, <2>2
<1>5. ASSUME "EOF_RCVD" \in q.flags PROVE "EOF_SENT" \in d.flags /\ NoData(d.out)
  <2>1. "EOF_SENT" \in c.flags /\ NoData(c.out)
    BY <1>5 DEF LinkOK
  <2>2. ASSUME NEW i \in 1..Len(d.out) PROVE d.out[i].t \notin DataTypes
    <3>1. CASE i <= Len(c.out)
      BY <1>2, <2>1, <3>1 DEF NoData
    <3>2. CASE i > Len(c.out)
      BY <1>2, <2>1, <3>2 DEF Fresh
    <3> QED BY <1>2, <3>1, <3>2
  <2> QED BY <1>2, <2>1, <2>2 DEF NoData
<1> QED BY <1>3, <1>4, <1>5 DEF LinkOK

\* A link stays in order when its receiver takes a step but no packet.
LEMMA LinkSame ==
    ASSUME NEW c, NEW d, NEW q, Evolves(c, d, {}), LinkOK(q, c)
    PROVE  LinkOK(q, d)
<1>1. "CLOSE_RCVD" \in d.flags => "CLOSE_RCVD" \in c.flags
  BY DEF Evolves, Grows
<1>2. "EOF_RCVD" \in d.flags => "EOF_RCVD" \in c.flags
  BY DEF Evolves, Grows
<1> QED BY <1>1, <1>2 DEF LinkOK

\* The receiver takes the packet at the head of the link.
LEMMA LinkPop ==
    ASSUME NEW q, NEW r, NEW c, NEW d, NEW F, Sane(q), q.out # <<>>,
           r.out = Tail(q.out), r.flags = q.flags,
           LinkOK(q, c), Evolves(c, d, F),
           "CLOSE_RCVD" \in F => Head(q.out).t = "CLOSE",
           "EOF_RCVD" \in F => Head(q.out).t = "EOF"
    PROVE  LinkOK(r, d)
<1>1. /\ q.out \in Seq(Packet) /\ Len(q.out) \in Nat /\ Len(q.out) >= 1
      /\ Head(q.out) = q.out[1]
      /\ Len(r.out) = Len(q.out) - 1
      /\ \A i \in 1..Len(r.out) : r.out[i] = q.out[i+1]
  BY DEF Sane, ChannelRecord
<1>2. ASSUME NEW i \in 1..Len(r.out)
      PROVE  /\ r.out[i].t = "CLOSE" => i = Len(r.out) /\ "CLOSE_SENT" \in r.flags
             /\ r.out[i].t = "EOF" =>
                  /\ "EOF_SENT" \in r.flags
                  /\ \A j \in (i+1)..Len(r.out) : r.out[j].t \notin DataTypes
  <2>1. i + 1 \in 1..Len(q.out) /\ r.out[i] = q.out[i+1]
    BY <1>1
  <2>2. \A j \in (i+1)..Len(r.out) : j + 1 \in (i+2)..Len(q.out) /\ r.out[j] = q.out[j+1]
    BY <1>1
  <2> QED BY <1>1, <2>1, <2>2 DEF LinkOK
<1>3. ASSUME "CLOSE_RCVD" \in d.flags PROVE "CLOSE_SENT" \in r.flags /\ r.out = <<>>
  <2>1. "CLOSE_RCVD" \in F
    BY <1>3 DEF Evolves, Grows, LinkOK
  <2>2. 1 \in 1..Len(q.out) /\ q.out[1].t = "CLOSE"
    BY <1>1, <2>1
  <2>3. Len(q.out) = 1 /\ "CLOSE_SENT" \in q.flags
    BY <2>2 DEF LinkOK
  <2>4. r.out \in Seq(Packet) /\ Len(r.out) = 0
    BY <1>1, <2>3
  <2>5. r.out = <<>>
    BY <2>4, EmptySeq
  <2> QED BY <2>3, <2>5
<1>4. ASSUME "EOF_RCVD" \in d.flags PROVE "EOF_SENT" \in r.flags /\ NoData(r.out)
  <2>1. CASE "EOF_RCVD" \in c.flags
    BY <1>1, <2>1 DEF LinkOK, NoData
  <2>2. CASE "EOF_RCVD" \notin c.flags
    <3>1. Head(q.out).t = "EOF"
      BY <1>4, <2>2 DEF Evolves, Grows
    <3>2. "EOF_SENT" \in q.flags /\ \A j \in 2..Len(q.out) : q.out[j].t \notin DataTypes
      BY <1>1, <3>1 DEF LinkOK
    <3>3. \A j \in 1..Len(r.out) : j + 1 \in 2..Len(q.out)
      BY <1>1
    <3> QED BY <1>1, <3>2, <3>3 DEF NoData
  <2> QED BY <2>1, <2>2
<1> QED BY <1>2, <1>3, <1>4 DEF LinkOK

\* New packets are no part of the open handshake.
LEMMA PlainGrow ==
    ASSUME NEW c, NEW d, NEW F, NEW k \in Nat \ {0}, Sane(c), Sane(d), Evolves(c, d, F),
           Plain(c.out, k), Len(c.out) >= k - 1
    PROVE  Plain(d.out, k)
<1>1. /\ c.out \in Seq(Packet) /\ d.out \in Seq(Packet)
      /\ Len(c.out) \in Nat /\ Len(d.out) \in Nat
  BY SMTT(30) DEF Sane, ChannelRecord
<1>2. ASSUME NEW i \in k..Len(d.out) PROVE d.out[i].t \notin OpenTypes
  <2>1. CASE i <= Len(c.out)
    BY <1>1, <2>1 DEF Evolves, Grows, Plain
  <2>2. CASE i > Len(c.out)
    BY <1>1, <2>2 DEF Evolves, Grows, Fresh
  <2> QED BY <1>1, <2>1, <2>2
<1> QED BY <1>2 DEF Plain

\* The open handshake does not go back when one end takes a step.
LEMMA PhaseStep ==
    ASSUME NEW c, NEW s, NEW d, Sane(c), Sane(s), Phase(c, s), LinkOK(c, s), LinkOK(s, c)
    PROVE  /\ Advance(s, d, {}) => Phase(c, d)
           /\ Advance(c, d, {}) => Phase(d, s)
<1>0. /\ c.out \in Seq(Packet) /\ s.out \in Seq(Packet)
      /\ Len(c.out) \in Nat /\ Len(s.out) \in Nat
  BY DEF Sane, ChannelRecord
<1>1. CASE Asked(c, s) \/ Dialing(c, s)
  BY <1>1 DEF Asked, Dialing, Advance, Phase
<1>2. CASE Refused(c, s)
  <2>1. Advance(s, d, {}) => Refused(c, d)
    BY <1>2 DEF Refused, Advance
  <2>2. Advance(c, d, {}) => Refused(d, s)
    BY <1>2 DEF Refused, Advance
  <2> QED BY <2>1, <2>2 DEF Phase
<1>3. CASE Confirming(c, s)
  <2>1. Advance(c, d, {}) => Confirming(d, s)
    BY <1>3 DEF Confirming, Advance
  <2>2. ASSUME Advance(s, d, {}) PROVE Confirming(c, d)
    <3>1. "CLOSE_RCVD" \notin d.flags
      BY <1>3, <2>2 DEF Confirming, Advance, Evolves, Grows, LinkOK
    <3>2. d.type \in {"larval", "open", "abandoned"}
      BY <1>3, <2>2, <3>1 DEF Confirming, Advance, BothClosed
    <3>3. Plain(d.out, 2)
      BY <1>0, <1>3, <2>2, PlainGrow DEF Confirming, Advance
    <3>4. Len(d.out) >= 1 /\ d.out[1].t = "CONFIRM"
      <4>1. d.out \in Seq(Packet) /\ Len(d.out) \in Nat
        BY <2>2 DEF Advance, Sane, ChannelRecord
      <4> QED BY <1>0, <1>3, <2>2, <4>1 DEF Confirming, Advance, Evolves, Grows
    <3> QED BY <1>3, <3>2, <3>3, <3>4 DEF Confirming
  <2> QED BY <2>1, <2>2 DEF Phase
<1>4. CASE Established(c, s)
  <2>1. ASSUME Advance(s, d, {}) PROVE Established(c, d)
    <3>1. Plain(d.out, 1)
      BY <1>0, <1>4, <2>1, PlainGrow DEF Established, Advance
    <3> QED BY <1>4, <2>1, <3>1 DEF Established, Advance
  <2>2. ASSUME Advance(c, d, {}) PROVE Established(d, s)
    <3>1. Plain(d.out, 1)
      BY <1>0, <1>4, <2>2, PlainGrow DEF Established, Advance
    <3> QED BY <1>4, <2>2, <3>1 DEF Established, Advance
  <2> QED BY <2>1, <2>2 DEF Phase
<1> QED BY <1>1, <1>2, <1>3, <1>4 DEF Phase

\* The server's session is safe in the hands of a step that keeps the type
\* and the user of the channel, or that frees a channel without a user; while
\* the child is there the user stays unless the channel is given up.
Loyal(c, d) ==
    /\ \/ d.type = c.type /\ d.detach = c.detach
       \/ d.type \in {"abandoned", "freed"} /\ d.detach.user = "none"
    /\ d.detach.user # "none" /\ ~d.detach.close /\ "CLOSE_SENT" \in d.flags
         => "CLOSE_SENT" \in c.flags
    /\ HasChild /\ c.detach.user = "session" /\ ~moved'.lossy => d.detach = c.detach

\* Loyal steps keep the session.
LEMMA LoyalSession ==
    ASSUME NEW c, NEW s, NEW d, NEW k, SessionOK(c, s, k)
    PROVE  /\ Loyal(s, d) => SessionOK(c, d, k)
           /\ d.detach.user \in {c.detach.user, "none"} => SessionOK(d, s, k)
<1>1. Loyal(s, d) => SessionOK(c, d, k)
  BY DEF SessionOK, Loyal
<1>2. d.detach.user \in {c.detach.user, "none"} => SessionOK(d, s, k)
  BY DEF SessionOK
<1> QED BY <1>1, <1>2

\* A calm step after a loyal one is loyal.
LEMMA LoyalTrans ==
    ASSUME NEW c, NEW d, NEW e, Loyal(c, d), Calm(d, e)
    PROVE  Loyal(c, e)
BY DEF Loyal, Calm

Rest ==
    /\ child \in {"none", "running", "exited", "reaped"}
    /\ moved \in [rd : [Peers -> Nat], wr : [Peers -> Nat], erd : Nat, ewr : Nat, told : Nat,
                  exit : BOOLEAN, lossy : BOOLEAN]
    /\ fault \in {"none", "window", "exit"}

\* The two ends.
LEMMA TwoPeers ==
    ASSUME NEW p \in Peers
    PROVE  /\ Other(p) \in Peers /\ Other(p) # p /\ Other(Other(p)) = p
           /\ Peers = {p, Other(p)}
           /\ \/ p = "client" /\ Other(p) = "server"
              \/ p = "server" /\ Other(p) = "client"
<1>1. CASE p = "client"
  BY <1>1 DEF Peers, Other
<1>2. CASE p = "server"
  BY <1>2 DEF Peers, Other
<1> QED BY <1>1, <1>2 DEF Peers

\* A channel whose link lost its first packet.
LEMMA Popped ==
    ASSUME NEW e \in ChannelRecord, e.out # <<>>, NEW r, r = [e EXCEPT !.out = Tail(@)]
    PROVE  /\ r \in ChannelRecord /\ r.out = Tail(e.out) /\ r.flags = e.flags
           /\ r.type = e.type /\ r.istate = e.istate /\ r.ostate = e.ostate
           /\ r.detach = e.detach
<1>1. Tail(e.out) \in Seq(Packet)
  BY DEF ChannelRecord
<1> QED BY <1>1 DEF ChannelRecord

----------------------------------------------------------------------------
(* The close handshake as ChannelClose sees it.                            *)

Up == ch["client"].type \in {"open", "abandoned"} \/ ch["client"].flags # {}
Sent == {p \in Peers : "CLOSE_SENT" \in ch[p].flags}
Rcvd == {p \in Peers : "CLOSE_RCVD" \in ch[p].flags}
Gone == {p \in Peers : ch[p].type = "freed"}

CloseStep == [Close!Next]_(Close!cvars)

\* An exit status is on its way to the client; one that was comes in.
Exits(s) == \E i \in 1..Len(s) : s[i].t = "EXIT"
ExitStep == Exits(ch["server"].out) => Exits(ch'["server"].out) \/ moved'.exit

\* The session stays with its channel while the child is there.
Sworn ==
    HasChild /\ ch["server"].detach.user = "session" /\ ~moved'.lossy
        => ch'["server"].detach.user = "session"

\* What every step does: it keeps the invariant, is a step of ChannelClose and
\* loses neither the exit status nor the session.
Kept == IInv' /\ CloseStep /\ ExitStep /\ Sworn

\* The steps of ChannelClose.
LEMMA Mapping ==
    ASSUME NEW p \in Peers,
           \/ Up' = Up /\ Sent' = Sent /\ Rcvd' = Rcvd /\ Gone' = Gone
           \/ /\ ~Up /\ Gone = {}
              /\ Up' /\ Sent' = Sent /\ Rcvd' = Rcvd /\ Gone' = Gone
           \/ /\ ~Up /\ Sent = {} /\ p \notin Gone
              /\ Up' = Up /\ Sent' = Sent /\ Rcvd' = Rcvd /\ Gone' = Gone \cup {p}
           \/ /\ p \notin Sent /\ p \notin Gone
              /\ Up' = Up /\ Sent' = Sent \cup {p} /\ Rcvd' = Rcvd /\ Gone' = Gone
           \/ /\ Other(p) \in Sent /\ p \notin Rcvd /\ p \notin Gone
              /\ Up' = Up /\ Sent' = Sent /\ Rcvd' = Rcvd \cup {p} /\ Gone' = Gone
           \/ /\ p \in Sent /\ p \in Rcvd /\ p \notin Gone
              /\ Up' = Up /\ Sent' = Sent /\ Rcvd' = Rcvd /\ Gone' = Gone \cup {p}
           \/ /\ p \in Rcvd /\ p \notin Sent /\ p \notin Gone
              /\ Up' = Up /\ Sent' = Sent \cup {p} /\ Rcvd' = Rcvd /\ Gone' = Gone \cup {p}
    PROVE  CloseStep
BY DEF CloseStep, Close!Next, Close!cvars, Close!Establish, Close!Refuse, Close!SendClose,
       Close!ReceiveClose, Close!Finish, Close!Forget, Close!AnswerAndForget,
       Up, Sent, Rcvd, Gone, Has

\* A step that closes and frees nothing is none of the handshake.
LEMMA SameHandshake ==
    ASSUME \A p \in Peers : /\ ch'[p].flags = ch[p].flags
                            /\ ch'[p].type = "freed" <=> ch[p].type = "freed",
           Up' = Up
    PROVE  CloseStep
<1>1. Sent' = Sent /\ Rcvd' = Rcvd /\ Gone' = Gone
  BY DEF Sent, Rcvd, Gone
<1> QED BY <1>1, Mapping DEF Peers

\* A step of one end that advances its channel is a step of the handshake.
LEMMA AdvanceMaps ==
    ASSUME IInv, NEW p \in Peers, NEW d, NEW F, Advance(ch[p], d, F), ch'[p] = d,
           ch'[Other(p)].flags = ch[Other(p)].flags, ch'[Other(p)].type = ch[Other(p)].type,
           "CLOSE_RCVD" \in F => Takes(ch[p], d, F) /\ "CLOSE_SENT" \in ch[Other(p)].flags
    PROVE  CloseStep
<1> DEFINE q == Other(p)
           c == ch[p]
<1>1. /\ q \in Peers /\ q # p /\ Peers = {p, q}
      /\ (p = "client" /\ q = "server") \/ (p = "server" /\ q = "client")
  BY TwoPeers
<1>2. /\ c.flags \subseteq d.flags /\ d.flags \subseteq c.flags \cup {"EOF_SENT", "CLOSE_SENT"} \cup F
      /\ c.type = "freed" => d = c
  BY DEF Advance, Evolves, Grows
<1>3. Phase(ch["client"], ch["server"]) /\ Sane(c)
  BY DEF IInv
<1>4. Up' = Up
  <2>1. CASE p = "server"
    BY <1>1, <2>1 DEF Up
  <2>2. CASE p = "client"
    <3>1. Up' = (d.type \in {"open", "abandoned"} \/ d.flags # {}) /\ Up = (c.type \in {"open", "abandoned"} \/ c.flags # {})
      BY <1>1, <2>2 DEF Up
    <3>2. CASE c.type \in {"larval", "open", "abandoned"}
      BY <1>3, <2>2, <3>1, <3>2 DEF Advance, BothClosed, Phase, Asked, Refused, Dialing, Confirming, Established
    <3>3. CASE c.type = "zombie"
      BY <1>3, <3>1, <3>3 DEF Advance
    <3>4. CASE c.type \in {"none", "opening", "connecting", "freed"}
      BY <1>3, <3>1, <3>4 DEF Advance
    <3> QED BY <1>3, <3>2, <3>3, <3>4 DEF Sane, ChannelRecord, Types
  <2> QED BY <1>1, <2>1, <2>2
<1>5. /\ Sent' = IF "CLOSE_SENT" \in d.flags THEN Sent \cup {p} ELSE Sent
      /\ Rcvd' = IF "CLOSE_RCVD" \in d.flags THEN Rcvd \cup {p} ELSE Rcvd
  BY <1>1, <1>2 DEF Sent, Rcvd
<1>6. Gone' = IF d.type = "freed" THEN Gone \cup {p} ELSE Gone
  BY <1>1, <1>2 DEF Gone
<1>7. /\ p \in Sent <=> "CLOSE_SENT" \in c.flags
      /\ p \in Rcvd <=> "CLOSE_RCVD" \in c.flags
      /\ p \in Gone <=> c.type = "freed"
      /\ q \in Sent <=> "CLOSE_SENT" \in ch[q].flags
  BY <1>1 DEF Sent, Rcvd, Gone
<1>8. CASE "CLOSE_RCVD" \in d.flags /\ "CLOSE_RCVD" \notin c.flags
  <2>1. Takes(c, d, F) /\ q \in Sent
    BY <1>2, <1>7, <1>8
  <2>2. d.type = c.type /\ c.type # "freed" /\ ("CLOSE_SENT" \in d.flags <=> "CLOSE_SENT" \in c.flags)
    BY <1>2, <1>8, <2>1 DEF Takes
  <2>3. Sent' = Sent /\ Gone' = Gone /\ Rcvd' = Rcvd \cup {p} /\ p \notin Rcvd /\ p \notin Gone
    BY <1>5, <1>6, <1>7, <1>8, <2>2
  <2> QED BY <1>4, <2>1, <2>3, Mapping
<1>9. CASE ~("CLOSE_RCVD" \in d.flags /\ "CLOSE_RCVD" \notin c.flags)
  <2>1. Rcvd' = Rcvd
    BY <1>2, <1>5, <1>7, <1>9
  <2>2. CASE d.type = "freed" /\ c.type # "freed"
    <3>1. Gone' = Gone \cup {p} /\ p \notin Gone
      BY <1>6, <1>7, <2>2
    <3>2. CASE c.type = "zombie"
      <4>1. Refused(ch["client"], ch["server"]) /\ d.flags = c.flags
        BY <1>1, <1>3, <3>2 DEF Phase, Asked, Dialing, Confirming, Established, Advance
      <4>2. Sent = {} /\ Sent' = Sent /\ ~Up
        BY <1>1, <1>5, <1>7, <2>2, <3>2, <4>1 DEF Refused, Sent, Up
      <4> QED BY <1>4, <2>1, <3>1, <4>2, Mapping
    <3>3. CASE c.type # "zombie"
      <4>1. c.type \in {"larval", "open", "abandoned"}
        BY <1>3, <2>2, <3>3 DEF Advance, Sane, ChannelRecord, Types
      <4>2. BothClosed(d)
        BY <2>2, <4>1 DEF Advance
      <4>3. Sent' = Sent \cup {p} /\ p \in Rcvd
        BY <1>5, <1>7, <1>9, <4>2 DEF BothClosed
      <4>4. CASE p \in Sent
        BY <1>4, <2>1, <3>1, <4>3, <4>4, Mapping
      <4>5. CASE p \notin Sent
        BY <1>4, <2>1, <3>1, <4>3, <4>5, Mapping
      <4> QED BY <4>4, <4>5
    <3> QED BY <3>2, <3>3
  <2>3. CASE ~(d.type = "freed" /\ c.type # "freed")
    <3>1. Gone' = Gone
      BY <1>2, <1>6, <1>7, <2>3
    <3>2. CASE "CLOSE_SENT" \in d.flags /\ "CLOSE_SENT" \notin c.flags
      <4>1. c.type # "freed" /\ Sent' = Sent \cup {p} /\ p \notin Sent /\ p \notin Gone
        BY <1>2, <1>5, <1>7, <3>2
      <4> QED BY <1>4, <2>1, <3>1, <4>1, Mapping
    <3>3. CASE ~("CLOSE_SENT" \in d.flags /\ "CLOSE_SENT" \notin c.flags)
      <4>1. Sent' = Sent
        BY <1>2, <1>5, <1>7, <3>3
      <4> QED BY <1>4, <2>1, <3>1, <4>1, Mapping
    <3> QED BY <3>2, <3>3
  <2> QED BY <2>2, <2>3
<1> QED BY <1>8, <1>9

----------------------------------------------------------------------------

\* No packet leaves a link before it is taken.
LEMMA ExitsGrow ==
    ASSUME NEW c, NEW d, NEW F, Sane(c), Sane(d), Evolves(c, d, F), Exits(c.out)
    PROVE  Exits(d.out)
<1>1. c.out \in Seq(Packet) /\ d.out \in Seq(Packet) /\ Len(c.out) <= Len(d.out)
      /\ \A i \in 1..Len(c.out) : d.out[i] = c.out[i]
  BY DEF Sane, ChannelRecord, Evolves, Grows
<1> QED BY <1>1 DEF Exits

\* Taking a packet that is not the exit status leaves it in the link.
LEMMA ExitsPop ==
    ASSUME NEW s \in Seq(Packet), s # <<>>, Head(s).t # "EXIT", Exits(s)
    PROVE  Exits(Tail(s))
<1>1. PICK i \in 1..Len(s) : s[i].t = "EXIT"
  BY DEF Exits
<1>2. i # 1
  BY <1>1
<1>3. /\ Len(Tail(s)) = Len(s) - 1 /\ \A k \in 1..(Len(s)-1) : Tail(s)[k] = s[k+1]
  BY HeadTailProperties
<1>4. i - 1 \in 1..Len(Tail(s)) /\ Tail(s)[i-1] = s[i]
  BY <1>2, <1>3
<1> QED BY <1>1, <1>4 DEF Exits

\* A step of one end that takes no packet.
LEMMA StepKeeps ==
    ASSUME IInv, NEW p \in Peers, NEW d, Step(p, d), Advance(ch[p], d, {}),
           SessionOK(ch["client"]', ch["server"]', child'), Rest', Sworn
    PROVE  Kept
<1> DEFINE q == Other(p)
<1>1. /\ q \in Peers /\ q # p /\ Other(q) = p /\ Peers = {p, q}
  BY TwoPeers
<1>2. /\ ch \in [Peers -> ChannelRecord] /\ Sane(ch[p]) /\ Sane(ch[q])
      /\ LinkOK(ch[p], ch[q]) /\ LinkOK(ch[q], ch[p])
  BY <1>1 DEF IInv, TypeOK
<1>3. d \in ChannelRecord /\ Sane(d) /\ Evolves(ch[p], d, {})
  BY DEF Advance, Sane
<1>4. /\ ch' \in [Peers -> ChannelRecord] /\ ch'[p] = d /\ ch'[q] = ch[q]
  BY <1>1, <1>2, <1>3 DEF Step
<1>5. \A r \in Peers : Sane(ch'[r])
  BY <1>1, <1>2, <1>3, <1>4
<1>6. LinkOK(d, ch[q]) /\ LinkOK(ch[q], d)
  BY <1>2, <1>3, LinkGrow, LinkSame
<1>7. \A r \in Peers : LinkOK(ch'[r], ch'[Other(r)])
  BY <1>1, <1>4, <1>6
<1>8. Phase(ch'["client"], ch'["server"])
  <2>1. Phase(ch["client"], ch["server"])
    BY DEF IInv
  <2>2. CASE p = "client"
    <3>1. q = "server"
      BY <2>2 DEF Other
    <3> QED BY <1>2, <1>4, <2>1, <2>2, <3>1, PhaseStep
  <2>3. CASE p = "server"
    <3>1. q = "client"
      BY <2>3 DEF Other
    <3> QED BY <1>2, <1>4, <2>1, <2>3, <3>1, PhaseStep
  <2> QED BY <2>2, <2>3 DEF Peers
<1>9. TypeOK' /\ NoFault'
  BY <1>4 DEF TypeOK, NoFault, Rest
<1>10. CloseStep
  BY <1>4, AdvanceMaps
<1>11. ExitStep
  <2>1. CASE p = "client"
    BY <1>1, <1>4, <2>1 DEF ExitStep, Other
  <2>2. CASE p = "server"
    BY <1>2, <1>3, <1>4, <2>2, ExitsGrow DEF ExitStep
  <2> QED BY <2>1, <2>2 DEF Peers
<1> QED BY <1>5, <1>7, <1>8, <1>9, <1>10, <1>11 DEF IInv, Kept

\* Any packet but those of the open handshake finds an established channel.
LEMMA Received ==
    ASSUME IInv, NEW p \in Peers, NEW t \in PacketTypes \ OpenTypes, Receives(p, t)
    PROVE  /\ Established(ch["client"], ch["server"])
           /\ ch[p].type \in {"larval", "open", "abandoned"} /\ Live(p)
           /\ "CLOSE_RCVD" \notin ch[p].flags
           /\ t \in DataTypes => "EOF_RCVD" \notin ch[p].flags
           /\ p = "client" => ch[p].type # "larval"
           /\ Msg(p) \in Packet /\ Msg(p).n \in Nat
<1> DEFINE q == Other(p)
<1>1. /\ q \in Peers /\ q # p /\ Other(q) = p
      /\ (p = "client" /\ q = "server") \/ (p = "server" /\ q = "client")
  BY TwoPeers
<1>2. /\ ch[q].out \in Seq(Packet) /\ ch[q].out # <<>> /\ ch[q].out[1].t = t
      /\ Len(ch[q].out) >= 1 /\ 1 \in 1..Len(ch[q].out) /\ Msg(p) = ch[q].out[1]
  BY <1>1 DEF IInv, Sane, ChannelRecord, Receives, Msg
<1>3. Msg(p) \in Packet /\ Msg(p).n \in Nat
  <2>1. ch[q].out[1] \in Packet
    BY <1>2, ElementOfSeq
  <2> QED BY <1>2, <2>1 DEF Packet
<1>4. LinkOK(ch[q], ch[p])
  BY <1>1 DEF IInv
<1>5. "CLOSE_RCVD" \notin ch[p].flags /\ (t \in DataTypes => "EOF_RCVD" \notin ch[p].flags)
  BY <1>2, <1>4 DEF LinkOK, NoData
<1>6. ~Asked(ch["client"], ch["server"])
  BY <1>1, <1>2 DEF Asked, OpenTypes
<1>7. ~Refused(ch["client"], ch["server"])
  BY <1>1, <1>2 DEF Refused, OpenTypes
<1>8. ~Dialing(ch["client"], ch["server"]) /\ ~Confirming(ch["client"], ch["server"])
  BY <1>1, <1>2 DEF Dialing, Confirming, OpenTypes
<1>9. Established(ch["client"], ch["server"])
  BY <1>6, <1>7, <1>8 DEF IInv, Phase
<1>10. ch[p].type \in {"larval", "open", "abandoned"} /\ (p = "client" => ch[p].type # "larval")
  BY <1>1, <1>5, <1>9 DEF Established, BothClosed
<1> QED BY <1>3, <1>5, <1>9, <1>10 DEF Live

\* A step of one end that takes such a packet.
LEMMA TakeKeeps ==
    ASSUME IInv, NEW p \in Peers, NEW t \in PacketTypes \ OpenTypes, Receives(p, t),
           NEW d, NEW f, Handled(p, d, f), NEW F, Advance(ch[p], d, F),
           "CLOSE_RCVD" \in F => t = "CLOSE" /\ Takes(ch[p], d, F), "EOF_RCVD" \in F => t = "EOF",
           t = "EXIT" => moved'.exit,
           SessionOK(ch["client"]', ch["server"]', child'), Rest', Sworn
    PROVE  Kept
<1> DEFINE q == Other(p)
           r == [ch[q] EXCEPT !.out = Tail(@)]
<1>1. /\ q \in Peers /\ q # p /\ Other(q) = p /\ Peers = {p, q}
      /\ (p = "client" /\ q = "server") \/ (p = "server" /\ q = "client")
  BY TwoPeers
<1>2. /\ ch \in [Peers -> ChannelRecord] /\ Sane(ch[p]) /\ Sane(ch[q])
      /\ LinkOK(ch[p], ch[q]) /\ LinkOK(ch[q], ch[p])
  BY <1>1 DEF IInv, TypeOK
<1>3. d \in ChannelRecord /\ Sane(d) /\ Evolves(ch[p], d, F)
  BY DEF Advance, Sane
<1>4. ch[q].out \in Seq(Packet) /\ ch[q].out # <<>> /\ Head(ch[q].out).t = t
  BY <1>2 DEF Sane, ChannelRecord, Receives, Msg
<1>5. /\ r \in ChannelRecord /\ r.out = Tail(ch[q].out) /\ r.flags = ch[q].flags
      /\ r.type = ch[q].type /\ r.istate = ch[q].istate /\ r.ostate = ch[q].ostate
      /\ r.detach = ch[q].detach
  BY <1>2, <1>4, Popped DEF Sane
<1>6. ch' = [[ch EXCEPT ![p] = d] EXCEPT ![q] = r]
  BY <1>1, <1>2, <1>3 DEF Handled
<1> HIDE DEF r
<1>7. ch' \in [Peers -> ChannelRecord] /\ ch'[p] = d /\ ch'[q] = r
  BY <1>1, <1>2, <1>3, <1>5, <1>6
<1>8. Sane(r)
  BY <1>2, <1>5 DEF Sane
<1>9. \A x \in Peers : Sane(ch'[x])
  BY <1>1, <1>3, <1>7, <1>8
<1>10. LinkOK(d, r) /\ LinkOK(r, d)
  <2>1. LinkOK(d, ch[q])
    BY <1>2, <1>3, LinkGrow
  <2>2. LinkOK(d, r)
    BY <2>1, <1>5 DEF LinkOK
  <2>3. LinkOK(r, d)
    BY <1>2, <1>3, <1>4, <1>5, LinkPop
  <2> QED BY <2>2, <2>3
<1>11. \A x \in Peers : LinkOK(ch'[x], ch'[Other(x)])
  BY <1>1, <1>7, <1>10
<1>12. Phase(ch'["client"], ch'["server"])
  <2>1. Established(ch["client"], ch["server"])
    BY Received
  <2>2. Plain(d.out, 1) /\ Plain(r.out, 1)
    <3>1. Plain(ch[p].out, 1) /\ Plain(ch[q].out, 1)
      BY <1>1, <2>1 DEF Established
    <3>2. Plain(r.out, 1)
      BY <1>4, <1>5, <3>1 DEF Plain
    <3>3. Len(ch[p].out) >= 0
      BY <1>2 DEF Sane, ChannelRecord
    <3> QED BY <1>2, <1>3, <3>1, <3>2, <3>3, PlainGrow
  <2>3. CASE p = "client"
    <3>1. ch'["client"] = d /\ ch'["server"] = r
      BY <1>1, <1>7, <2>3
    <3> QED BY <1>1, <1>5, <2>1, <2>2, <2>3, <3>1 DEF Established, Advance, Phase, BothClosed
  <2>4. CASE p = "server"
    <3>1. ch'["client"] = r /\ ch'["server"] = d
      BY <1>1, <1>7, <2>4
    <3> QED BY <1>1, <1>5, <2>1, <2>2, <2>4, <3>1 DEF Established, Advance, Phase, BothClosed
  <2> QED BY <2>3, <2>4 DEF Peers
<1>13. TypeOK' /\ NoFault'
  BY <1>7 DEF TypeOK, NoFault, Rest
<1>14. CloseStep
  <2>1. t = "CLOSE" => "CLOSE_SENT" \in ch[q].flags
    BY <1>2, <1>4 DEF LinkOK
  <2> QED BY <1>5, <1>7, <2>1, AdvanceMaps
<1>15. ExitStep
  <2>1. CASE p = "client"
    BY <1>1, <1>4, <1>5, <1>7, <2>1, ExitsPop DEF ExitStep
  <2>2. CASE p = "server"
    BY <1>2, <1>3, <1>7, <2>2, ExitsGrow DEF ExitStep
  <2> QED BY <2>1, <2>2 DEF Peers
<1> QED BY <1>9, <1>11, <1>12, <1>13, <1>14, <1>15 DEF IInv, Kept

\* A loyal step that takes no packet keeps the invariant.
LEMMA QuietStep ==
    ASSUME IInv, NEW p \in Peers, NEW d, Step(p, d), Advance(ch[p], d, {}),
           Loyal(ch[p], d), child' = child, Rest'
    PROVE  Kept
<1> DEFINE q == Other(p)
<1>1. /\ q \in Peers /\ q # p
      /\ (p = "client" /\ q = "server") \/ (p = "server" /\ q = "client")
  BY TwoPeers
<1>2. ch \in [Peers -> ChannelRecord] /\ SessionOK(ch["client"], ch["server"], child)
  BY DEF IInv, TypeOK
<1>3. ch'[p] = d /\ ch'[q] = ch[q]
  BY <1>1, <1>2 DEF Step
<1>4. d.detach.user \in {ch[p].detach.user, "none"}
  BY DEF Loyal
<1>5. SessionOK(ch'["client"], ch'["server"], child')
  <2>1. CASE p = "client"
    BY <1>1, <1>2, <1>3, <1>4, <2>1, LoyalSession
  <2>2. CASE p = "server"
    BY <1>1, <1>2, <1>3, <2>2, LoyalSession
  <2> QED BY <1>1, <2>1, <2>2
<1>6. Sworn
  BY <1>1, <1>3 DEF Sworn, Loyal
<1> QED BY <1>5, <1>6, StepKeeps

\* What handling a packet makes of the two channels.
LEMMA HandledCh ==
    ASSUME IInv, NEW p \in Peers, NEW d, NEW f, Handled(p, d, f), ch[Other(p)].out # <<>>
    PROVE  /\ ch'[p] = d /\ ch'[Other(p)] = [ch[Other(p)] EXCEPT !.out = Tail(@)]
           /\ ch'[Other(p)].out = Tail(ch[Other(p)].out)
           /\ ch'[Other(p)].flags = ch[Other(p)].flags
           /\ ch'[Other(p)].type = ch[Other(p)].type
           /\ ch'[Other(p)].detach = ch[Other(p)].detach
           /\ Sane(ch'[Other(p)])
           /\ d \in ChannelRecord => ch' \in [Peers -> ChannelRecord]
<1> DEFINE q == Other(p)
           r == [ch[q] EXCEPT !.out = Tail(@)]
<1>1. q \in Peers /\ q # p
  BY TwoPeers
<1>2. ch \in [Peers -> ChannelRecord] /\ Sane(ch[q]) /\ ch[q] \in ChannelRecord
  BY <1>1 DEF IInv, TypeOK, Sane
<1>3. ch' = [[ch EXCEPT ![p] = d] EXCEPT ![q] = r]
  BY <1>1, <1>2 DEF Handled
<1>4. /\ r \in ChannelRecord /\ r.out = Tail(ch[q].out) /\ r.flags = ch[q].flags
      /\ r.type = ch[q].type /\ r.istate = ch[q].istate /\ r.ostate = ch[q].ostate
      /\ r.detach = ch[q].detach
  BY <1>2, Popped
<1> HIDE DEF r
<1>5. Sane(r)
  BY <1>2, <1>4 DEF Sane
<1>6. ch'[p] = d /\ ch'[q] = r /\ (d \in ChannelRecord => ch' \in [Peers -> ChannelRecord])
  BY <1>1, <1>2, <1>3, <1>4
<1> QED BY <1>4, <1>5, <1>6 DEF r

\* A loyal step that takes a packet keeps the invariant.
LEMMA QuietTake ==
    ASSUME IInv, NEW p \in Peers, NEW t \in PacketTypes \ OpenTypes, Receives(p, t),
           NEW d, NEW f, Handled(p, d, f), NEW F, Advance(ch[p], d, F),
           "CLOSE_RCVD" \in F => t = "CLOSE" /\ Takes(ch[p], d, F), "EOF_RCVD" \in F => t = "EOF",
           t = "EXIT" => moved'.exit,
           Loyal(ch[p], d), child' = child, Rest'
    PROVE  Kept
<1> DEFINE q == Other(p)
<1>1. (p = "client" /\ q = "server") \/ (p = "server" /\ q = "client")
  BY TwoPeers
<1>2. SessionOK(ch["client"], ch["server"], child)
  BY DEF IInv
<1>3. /\ ch'[p] = d /\ ch'[q].flags = ch[q].flags
      /\ ch'[q].type = ch[q].type /\ ch'[q].detach = ch[q].detach
  BY HandledCh DEF Receives
<1>4. d.detach.user \in {ch[p].detach.user, "none"}
  BY DEF Loyal
<1>5. SessionOK(ch'["client"], ch'["server"], child')
  <2>1. CASE p = "client"
    <3>1. SessionOK(d, ch["server"], child)
      BY <1>2, <1>4, <2>1, LoyalSession
    <3> QED BY <1>1, <1>3, <2>1, <3>1 DEF SessionOK
  <2>2. CASE p = "server"
    <3>1. SessionOK(ch["client"], d, child)
      BY <1>2, <2>2, LoyalSession
    <3> QED BY <1>1, <1>3, <2>2, <3>1 DEF SessionOK
  <2> QED BY <1>1, <2>1, <2>2
<1>6. Sworn
  BY <1>1, <1>3 DEF Sworn, Loyal
<1> QED BY <1>5, <1>6, TakeKeeps

\* Packet handlers of a live channel advance it loyally.
LEMMA TakesAdvance ==
    ASSUME NEW c, NEW d, NEW F, Takes(c, d, F), c.type \in {"larval", "open", "abandoned"}
    PROVE  Advance(c, d, F) /\ Loyal(c, d)
BY DEF Takes, Advance, Loyal

\* So do calm steps.
LEMMA CalmAdvance ==
    ASSUME NEW c, NEW d, Calm(c, d), c.type \in {"larval", "open", "abandoned"}
    PROVE  Advance(c, d, {}) /\ Loyal(c, d)
BY DEF Calm, Advance, Loyal

\* A garbage collection that follows code which left the channel in place.
LEMMA Collected ==
    ASSUME NEW c, NEW d, Sane(c), Sane(d), Evolves(c, d, {}), Loyal(c, d),
           c.type \notin {"none", "freed", "connecting"},
           c.type \in {"opening", "zombie"} => d = c,
           d.type = c.type \/ (c.type = "open" /\ d.type = "abandoned")
    PROVE  LET g == channel_garbage_collect(d, HasChild) IN Advance(c, g, {}) /\ Loyal(c, g)
<1> DEFINE g == channel_garbage_collect(d, HasChild)
<1>0. HasChild \in BOOLEAN /\ (HasChild /\ d.detach.user = "session" => g.detach = d.detach)
  <2>1. HasChild \in BOOLEAN
    BY DEF HasChild
  <2>2. HasChild => HasChild = TRUE
    BY <2>1
  <2> HIDE DEF g
  <2>3. ASSUME HasChild, d.detach.user = "session" PROVE g.detach = d.detach
    <3>1. g = channel_garbage_collect(d, TRUE)
      BY <2>2, <2>3 DEF g
    <3> QED BY <2>3, <3>1, CollectSession
  <2> QED BY <2>1, <2>3
<1>1. /\ Sane(g) /\ Evolves(d, g, {})
      /\ \/ g.type = d.type /\ g.detach = d.detach
         \/ /\ g.type = "freed" /\ ~Registered(g)
            /\ \/ d.type = "zombie"
               \/ {"CLOSE_SENT", "CLOSE_RCVD"} \subseteq g.flags
      /\ /\ Registered(g) /\ ~g.detach.close /\ "CLOSE_SENT" \in g.flags
         => "CLOSE_SENT" \in d.flags
      /\ d.istate # "closed" /\ d.type # "zombie" => g = d
      /\ d.type = "zombie" => g.flags = d.flags /\ g.out = d.out
  BY <1>0, GarbageCollect
<1> HIDE DEF g
<1>2. Evolves(c, g, {})
  BY <1>1, EvolvesTrans
<1>3. Advance(c, g, {})
  <2>1. c.type = "opening" => g = c
    BY <1>1 DEF Sane
  <2> QED BY <1>1, <1>2, <2>1, SMTT(30) DEF Advance, BothClosed, Sane, ChannelRecord, Types
<1>4. Loyal(c, g)
  BY <1>0, <1>1 DEF Loyal, Registered
<1> QED BY <1>3, <1>4 DEF g

----------------------------------------------------------------------------
(* One lemma per group of actions.                                         *)

\* The variables beside the channels.
LEMMA RestHolds ==
    ASSUME IInv
    PROVE  /\ Rest
           /\ child' = child /\ moved' = moved /\ fault' \in {"none", "window", "exit"} => Rest'
BY DEF IInv, TypeOK, NoFault, Rest

\* The packet handlers common to both ends keep the invariant.
LEMMA KeepDispatch ==
    ASSUME IInv, NEW p \in Peers, Dispatch(p)
    PROVE  Kept
<1>1. ASSUME InputData(p) PROVE Kept
  <2>0. Receives(p, "DATA") /\ "DATA" \in PacketTypes \ OpenTypes
    BY <1>1 DEF InputData, PacketTypes, OpenTypes
  <2>1. /\ ch[p].type \in {"larval", "open", "abandoned"} /\ Live(p) /\ Msg(p).n \in Nat
    BY <2>0, Received
  <2> DEFINE d == channel_input_data(ch[p], Msg(p).n)
             f == CASE ~Live(p) -> "disconnect"
                    [] Live(p) /\ WindowExceeded(ch[p], Msg(p).n) -> "window"
                    [] OTHER -> "none"
  <2>2. Handled(p, d, f)
    BY <1>1, <2>1 DEF InputData
  <2>3. f \in {"none", "window"}
    BY <2>1
  <2>4. Calm(ch[p], d)
    BY <2>1, InputDataLemma DEF IInv
  <2>5. Advance(ch[p], d, {}) /\ Loyal(ch[p], d)
    BY <2>1, <2>4, CalmAdvance
  <2>6. child' = child /\ Rest'
    BY <1>1, <2>2, <2>3, RestHolds DEF InputData, Handled
  <2> HIDE DEF d, f
  <2> QED BY <2>0, <2>2, <2>5, <2>6, QuietTake
<1>2. ASSUME InputIeof(p) PROVE Kept
  <2>0. Receives(p, "EOF") /\ "EOF" \in PacketTypes \ OpenTypes
    BY <1>2 DEF InputIeof, PacketTypes, OpenTypes
  <2>1. ch[p].type \in {"larval", "open", "abandoned"} /\ Live(p)
    BY <2>0, Received
  <2>2. Handled(p, chan_rcvd_ieof(ch[p]), "none")
    BY <1>2, <2>1 DEF InputIeof, ForChannel, Outcome
  <2>3. Takes(ch[p], chan_rcvd_ieof(ch[p]), {"EOF_RCVD"})
    BY <2>1, RcvdIeof DEF IInv
  <2>4. Advance(ch[p], chan_rcvd_ieof(ch[p]), {"EOF_RCVD"}) /\ Loyal(ch[p], chan_rcvd_ieof(ch[p]))
    BY <2>1, <2>3, TakesAdvance
  <2>5. child' = child /\ Rest'
    BY <1>2, <2>2, RestHolds DEF InputIeof, Handled
  <2>6. "CLOSE_RCVD" \notin {"EOF_RCVD"}
    OBVIOUS
  <2> QED BY <2>0, <2>2, <2>4, <2>5, <2>6, QuietTake
<1>3. ASSUME InputOclose(p) PROVE Kept
  <2>0. Receives(p, "CLOSE") /\ "CLOSE" \in PacketTypes \ OpenTypes
    BY <1>3 DEF InputOclose, PacketTypes, OpenTypes
  <2>1. ch[p].type \in {"larval", "open", "abandoned"} /\ Live(p)
    BY <2>0, Received
  <2>2. Handled(p, chan_rcvd_oclose(ch[p]), "none")
    BY <1>3, <2>1 DEF InputOclose, ForChannel, Outcome
  <2>3. Takes(ch[p], chan_rcvd_oclose(ch[p]), {"CLOSE_RCVD"})
    BY <2>1, RcvdOclose DEF IInv
  <2>4. Advance(ch[p], chan_rcvd_oclose(ch[p]), {"CLOSE_RCVD"}) /\ Loyal(ch[p], chan_rcvd_oclose(ch[p]))
    BY <2>1, <2>3, TakesAdvance
  <2>5. child' = child /\ Rest'
    BY <1>3, <2>2, RestHolds DEF InputOclose, Handled
  <2>6. "EOF_RCVD" \notin {"CLOSE_RCVD"}
    OBVIOUS
  <2> QED BY <2>0, <2>2, <2>3, <2>4, <2>5, <2>6, QuietTake
<1>4. ASSUME InputWindowAdjust(p) PROVE Kept
  <2> DEFINE d == channel_input_window_adjust(ch[p], Msg(p).n)
  <2>0. Receives(p, "ADJUST") /\ "ADJUST" \in PacketTypes \ OpenTypes
    BY <1>4 DEF InputWindowAdjust, PacketTypes, OpenTypes
  <2>1. ch[p].type \in {"larval", "open", "abandoned"} /\ Live(p) /\ Msg(p).n \in Nat
    BY <2>0, Received
  <2>2. Handled(p, d, "none")
    BY <1>4, <2>1 DEF InputWindowAdjust, IfChannel
  <2>3. Calm(ch[p], d)
    BY <2>1, WindowAdjustLemma DEF IInv
  <2>4. Advance(ch[p], d, {}) /\ Loyal(ch[p], d)
    BY <2>1, <2>3, CalmAdvance
  <2>5. child' = child /\ Rest'
    BY <1>4, <2>2, RestHolds DEF InputWindowAdjust, Handled
  <2> HIDE DEF d
  <2> QED BY <2>0, <2>2, <2>4, <2>5, QuietTake
<1>5. ASSUME InputEow(p) PROVE Kept
  <2> DEFINE d == chan_rcvd_eow(ch[p])
  <2>0. Receives(p, "EOW") /\ "EOW" \in PacketTypes \ OpenTypes
    BY <1>5 DEF InputEow, PacketTypes, OpenTypes
  <2>1. ch[p].type \in {"larval", "open", "abandoned"} /\ Live(p)
    BY <2>0, Received
  <2>2. Handled(p, d, "none")
    BY <1>5, <2>1 DEF InputEow, IfChannel, ForChannel, Outcome
  <2>3. Calm(ch[p], d)
    BY <2>1, RcvdEow DEF IInv
  <2>4. Advance(ch[p], d, {}) /\ Loyal(ch[p], d)
    BY <2>1, <2>3, CalmAdvance
  <2>5. child' = child /\ Rest'
    BY <1>5, <2>2, RestHolds DEF InputEow, Handled
  <2> HIDE DEF d
  <2> QED BY <2>0, <2>2, <2>4, <2>5, QuietTake
<1> QED BY <1>1, <1>2, <1>3, <1>4, <1>5 DEF Dispatch

\* What client_status_confirm may do with a reply: the client becomes d, and
\* the history notes the loss b and the k bytes of texts.
Answering(t, text, f, d, b, k) ==
    /\ Receives("client", t) /\ Handled("client", d, f)
    /\ moved' = [moved EXCEPT !.lossy = b, !.told = k]
    /\ moved.lossy => b
    /\ text # 0 => EfdWrite(ch["client"])
    /\ \/ d = ch["client"] /\ k = moved.told
       \/ /\ d = client_status_confirm(ch["client"], t, text) /\ k = moved.told + text
          /\ t = "FAILURE" \/ ch["client"].ostate = "closed" => b

LEMMA Confirmed ==
    ASSUME IInv, InputStatusConfirm
    PROVE  \E t \in {"SUCCESS", "REFUSED", "FAILURE"}, text \in {0, ErrorText}, f \in {"exit", "none"},
              b \in BOOLEAN :
           \E d \in {ch["client"], client_status_confirm(ch["client"], t, text)},
              k \in {moved.told, moved.told + text} :
             Answering(t, text, f, d, b, k)
<1> DEFINE c == ch["client"]
           refused(t) == Live("client") /\ t # "SUCCESS"
           closes(t) == Live("client") /\ t = "FAILURE"
           lost(t) == moved.lossy \/ closes(t) \/ (refused(t) /\ c.ostate = "closed")
<1>1. PICK t \in {"SUCCESS", "REFUSED", "FAILURE"}, text \in {0, ErrorText} :
        /\ text # 0 => EfdWrite(c)
        /\ Receives("client", t)
        /\ Handled("client", IF refused(t) THEN client_status_confirm(c, t, text) ELSE c,
                   IF closes(t) /\ ~DetachClose THEN "exit" ELSE "none")
        /\ moved' = [moved EXCEPT !.lossy = lost(t), !.told = IF refused(t) THEN @ + text ELSE @]
  <2>1. PICK t \in {"SUCCESS", "REFUSED", "FAILURE"},
             text \in {0, IF DetachClose /\ EfdWrite(ch["client"]) THEN ErrorText ELSE 0} :
        /\ Receives("client", t)
        /\ Handled("client", IF refused(t) THEN client_status_confirm(c, t, text) ELSE c,
                   IF closes(t) /\ ~DetachClose THEN "exit" ELSE "none")
        /\ moved' = [moved EXCEPT !.lossy = lost(t), !.told = IF refused(t) THEN @ + text ELSE @]
    BY DEF InputStatusConfirm
  <2>2. text \in {0, ErrorText} /\ (text # 0 => EfdWrite(c))
    OBVIOUS
  <2> QED BY <2>1, <2>2
<1>2. lost(t) \in BOOLEAN /\ (moved.lossy => lost(t))
  BY DEF IInv, TypeOK
<1>3. CASE refused(t)
  <2>1. /\ moved' = [moved EXCEPT !.lossy = lost(t), !.told = moved.told + text]
        /\ t = "FAILURE" \/ c.ostate = "closed" => lost(t)
        /\ \E f \in {"exit", "none"} : Handled("client", client_status_confirm(c, t, text), f)
    BY <1>1, <1>3
  <2> HIDE DEF lost
  <2> QED BY <1>1, <1>2, <2>1 DEF Answering
<1>4. CASE ~refused(t)
  <2>1. /\ moved' = [moved EXCEPT !.lossy = lost(t), !.told = moved.told]
        /\ \E f \in {"exit", "none"} : Handled("client", c, f)
    BY <1>1, <1>4
  <2> HIDE DEF lost
  <2> QED BY <1>1, <1>2, <2>1 DEF Answering
<1> QED BY <1>3, <1>4

\* The packet handlers of the client keep the invariant.
LEMMA KeepClient ==
    ASSUME IInv, InputExtendedData \/ InputStatusConfirm \/ InputExitStatus
    PROVE  Kept
<1> DEFINE c == ch["client"]
<1>0. "client" \in Peers /\ Sane(c)
  BY DEF Peers, IInv
<1>1. ASSUME InputExtendedData PROVE Kept
  <2> DEFINE d == channel_input_extended_data(c, Msg("client").n)
  <2>0. Receives("client", "EXT") /\ "EXT" \in PacketTypes \ OpenTypes /\ "EXT" \in DataTypes
    BY <1>1 DEF InputExtendedData, PacketTypes, OpenTypes, DataTypes
  <2>1. /\ c.type \in {"larval", "open", "abandoned"} /\ Live("client")
        /\ Msg("client").n \in Nat /\ "EOF_RCVD" \notin c.flags
    BY <1>0, <2>0, Received
  <2>2. Handled("client", d, "none")
    BY <1>1, <2>1 DEF InputExtendedData, Has, Outcome
  <2>3. Calm(c, d)
    BY <1>0, <2>1, InputExtendedDataLemma
  <2>4. Advance(c, d, {}) /\ Loyal(c, d)
    BY <2>1, <2>3, CalmAdvance
  <2>5. child' = child /\ Rest'
    BY <1>1, <2>2, RestHolds DEF InputExtendedData, Handled
  <2> HIDE DEF d
  <2> QED BY <1>0, <2>0, <2>2, <2>4, <2>5, QuietTake
<1>2. ASSUME InputStatusConfirm PROVE Kept
  <2>a. PICK t \in {"SUCCESS", "REFUSED", "FAILURE"}, text \in {0, ErrorText}, f \in {"exit", "none"},
             b \in BOOLEAN :
          \E d \in {c, client_status_confirm(c, t, text)}, k \in {moved.told, moved.told + text} :
            Answering(t, text, f, d, b, k)
    BY <1>2, Confirmed
  <2>b. PICK d \in {c, client_status_confirm(c, t, text)}, k \in {moved.told, moved.told + text} :
          Answering(t, text, f, d, b, k)
    BY <2>a
  <2>0. /\ Receives("client", t) /\ Handled("client", d, f)
        /\ moved' = [moved EXCEPT !.lossy = b, !.told = k]
    BY <2>b DEF Answering
  <2>1. t \in PacketTypes \ OpenTypes /\ text \in Nat
    BY SizeAssumption DEF PacketTypes, OpenTypes
  <2>2. c.type \in {"larval", "open", "abandoned"} /\ Live("client")
    BY <1>0, <2>0, <2>1, Received
  <2>4. Calm(c, d)
    BY <1>0, <2>1, <2>2, CalmRefl, StatusConfirm
  <2>5. Advance(c, d, {}) /\ Loyal(c, d)
    BY <2>2, <2>4, CalmAdvance
  <2>6. moved' \in [rd : [Peers -> Nat], wr : [Peers -> Nat], erd : Nat, ewr : Nat, told : Nat,
                    exit : BOOLEAN, lossy : BOOLEAN]
    <3>1. k \in Nat
      BY <2>1 DEF IInv, TypeOK
    <3> QED BY <2>0, <3>1 DEF IInv, TypeOK
  <2>7. child' = child /\ Rest'
    BY <1>2, <2>0, <2>6 DEF InputStatusConfirm, Handled, Rest, IInv, TypeOK
  <2> QED BY <1>0, <2>0, <2>1, <2>5, <2>7, QuietTake
<1>3. ASSUME InputExitStatus PROVE Kept
  <2>0. Receives("client", "EXIT") /\ "EXIT" \in PacketTypes \ OpenTypes
    BY <1>3 DEF InputExitStatus, PacketTypes, OpenTypes
  <2>1. c.type \in {"larval", "open", "abandoned"} /\ Live("client")
    BY <1>0, <2>0, Received
  <2>2. Handled("client", c, "none")
    BY <1>3, <2>1 DEF InputExitStatus, IfChannel
  <2>3. Advance(c, c, {}) /\ Loyal(c, c)
    BY <1>0, <2>1, CalmRefl, CalmAdvance
  <2>4. moved' \in [rd : [Peers -> Nat], wr : [Peers -> Nat], erd : Nat, ewr : Nat, told : Nat,
                    exit : BOOLEAN, lossy : BOOLEAN]
    BY <1>3 DEF IInv, TypeOK, InputExitStatus, Live
  <2>6. moved'.exit
    BY <1>3, <2>1 DEF IInv, TypeOK, InputExitStatus
  <2>5. child' = child /\ Rest'
    BY <1>3, <2>2, <2>4 DEF InputExitStatus, Handled, Rest, IInv, TypeOK
  <2> QED BY <1>0, <2>0, <2>2, <2>3, <2>5, <2>6, QuietTake
<1> QED BY <1>1, <1>2, <1>3

\* The loop's own steps keep the invariant.
LEMMA KeepHandlers ==
    ASSUME IInv, NEW p \in Peers,
           \/ ChannelOutputPoll(p) \/ HandleOther(p) \/ HandleExpired(p)
           \/ MuxClientGone
    PROVE  Kept
<1>0. Sane(ch[p]) /\ HasChild \in BOOLEAN /\ Sane(ch["client"]) /\ "client" \in Peers
  BY DEF IInv, HasChild, Peers
<1>1. ASSUME ChannelOutputPoll(p) PROVE Kept
  <2>1. Step(p, channel_output_poll(ch[p])) /\ ch[p].type = "open" /\ "CLOSE_SENT" \notin ch[p].flags
    BY <1>1 DEF ChannelOutputPoll
  <2>2. Calm(ch[p], channel_output_poll(ch[p]))
    BY <1>0, <2>1, OutputPoll
  <2>3. Advance(ch[p], channel_output_poll(ch[p]), {}) /\ Loyal(ch[p], channel_output_poll(ch[p]))
    BY <2>1, <2>2, CalmAdvance
  <2>4. child' = child /\ Rest'
    BY <1>1, RestHolds DEF ChannelOutputPoll
  <2> QED BY <2>1, <2>3, <2>4, QuietStep
<1>2. ASSUME HandleOther(p) PROVE Kept
  <2> DEFINE d == channel_garbage_collect(ch[p], HasChild)
  <2>1. Step(p, d) /\ ch[p].type \in {"opening", "larval", "abandoned", "zombie"}
    BY <1>2 DEF HandleOther
  <2>2. Evolves(ch[p], ch[p], {}) /\ Loyal(ch[p], ch[p])
    BY <1>0, EvolvesRefl DEF Loyal
  <2>3. Advance(ch[p], d, {}) /\ Loyal(ch[p], d)
    BY <1>0, <2>1, <2>2, Collected
  <2>4. child' = child /\ Rest'
    BY <1>2, RestHolds DEF HandleOther
  <2> HIDE DEF d
  <2> QED BY <2>1, <2>3, <2>4, QuietStep
<1>3. ASSUME HandleExpired(p) PROVE Kept
  <2> DEFINE e == channel_force_close(ch[p], HasChild)
             d == channel_garbage_collect(e, HasChild)
  <2>1. Step(p, d) /\ ch[p].type = "open"
    BY <1>3 DEF HandleExpired
  <2>2. /\ Sane(e) /\ Evolves(ch[p], e, {}) /\ e.type = "abandoned" /\ e.detach = NoUser
        /\ "CLOSE_SENT" \in e.flags => "CLOSE_SENT" \in ch[p].flags
    BY <1>0, <2>1, ForceClose
  <2> HIDE DEF e
  <2>3. Loyal(ch[p], e)
    <3>1. moved'.lossy
      BY <1>3 DEF HandleExpired, IInv, TypeOK
    <3> QED BY <2>2, <3>1 DEF Loyal, NoUser
  <2>4. Advance(ch[p], d, {}) /\ Loyal(ch[p], d)
    BY <1>0, <2>1, <2>2, <2>3, Collected
  <2>5. moved' \in [rd : [Peers -> Nat], wr : [Peers -> Nat], erd : Nat, ewr : Nat, told : Nat,
                    exit : BOOLEAN, lossy : BOOLEAN]
    BY <1>3 DEF IInv, TypeOK, HandleExpired
  <2>6. child' = child /\ Rest'
    BY <1>3, <2>5, RestHolds DEF HandleExpired, Rest
  <2> HIDE DEF d
  <2> QED BY <2>1, <2>4, <2>6, QuietStep
<1>4. ASSUME MuxClientGone PROVE Kept
  <2> DEFINE b == ch["client"]
             c == chan_read_failed(b)
  <2>1. PICK d \in {c, chan_write_failed(c)} : Step("client", d)
    BY <1>4 DEF MuxClientGone
  <2>2. b.type = "open"
    BY <1>4 DEF MuxClientGone
  <2>3. Calm(b, c)
    BY <1>0, <2>2, ReadFailed
  <2>4. Calm(c, chan_write_failed(c))
    BY <2>2, <2>3, WriteFailed DEF Calm
  <2>5. Calm(b, d)
    BY <1>0, <2>3, <2>4, CalmTrans
  <2>6. Advance(b, d, {}) /\ Loyal(b, d)
    BY <2>2, <2>5, CalmAdvance
  <2>7. moved' \in [rd : [Peers -> Nat], wr : [Peers -> Nat], erd : Nat, ewr : Nat, told : Nat,
                    exit : BOOLEAN, lossy : BOOLEAN]
    BY <1>4 DEF IInv, TypeOK, MuxClientGone
  <2>8. child' = child /\ Rest'
    BY <1>4, <2>7, RestHolds DEF MuxClientGone, Rest
  <2> QED BY <1>0, <2>1, <2>6, <2>8, QuietStep
<1> QED BY <1>1, <1>2, <1>3, <1>4

\* extended_usage is fixed once the channel is open.
LEMMA ExtusageKept ==
    ASSUME NEW c \in ChannelRecord, NEW r \in Int
    PROVE  /\ channel_pre_open(c).extusage = c.extusage
           /\ channel_handle_rfd(c, r).extusage = c.extusage
           /\ channel_handle_wfd(c, r).extusage = c.extusage
<1>1. channel_pre_open(c).extusage = c.extusage
  BY DEF channel_pre_open, chan_obuf_empty, ChannelRecord
<1>2. channel_handle_rfd(c, r).extusage = c.extusage
  BY DEF channel_handle_rfd, chan_read_failed, ChannelRecord
<1>3. chan_write_failed(c).extusage = c.extusage
  BY DEF chan_write_failed, Send, ChannelRecord
<1>4. channel_handle_wfd(c, r).extusage = c.extusage
  BY <1>3 DEF channel_handle_wfd, ChannelRecord
<1> QED BY <1>1, <1>2, <1>4

\* channel_handler on an open channel keeps the invariant.
LEMMA KeepHandleOpen ==
    ASSUME IInv, NEW p \in Peers, NEW r \in IOResults, NEW w \in IOResults, NEW x \in IOResults,
           HandleOpen(p, r, w, x)
    PROVE  Kept
<1> DEFINE b == ch[p]
           pre == channel_pre_open(b)
           c == channel_garbage_collect(pre, HasChild)
           a == channel_handle_rfd(c, r)
           k == channel_handle_wfd(a, w)
           e == channel_handle_efd(k, x)
           post == channel_check_window(e)
           g == channel_garbage_collect(post, HasChild)
<1>0. /\ Sane(b) /\ b.type = "open" /\ HasChild \in BOOLEAN
      /\ r \in Int /\ w \in Int /\ x \in Int /\ (x < 0 => x = Failed)
  BY SizeAssumption DEF IInv, HandleOpen, HasChild, IOResults, Failed, Peers
<1>1. /\ IOChoice(p, r, w, x) /\ moved' = Moved(p, r, w, x) /\ child' = child /\ fault' = fault
      /\ Step(p, IF c.type = "open" THEN g ELSE c)
  BY DEF HandleOpen
<1>2. /\ Calm(b, pre) /\ pre.output = b.output /\ pre.extended = b.extended
      /\ Sane(pre) /\ pre.type = "open" /\ Evolves(b, pre, {}) /\ Loyal(b, pre)
  BY <1>0, PreOpen, CalmAdvance DEF Calm
<1>3. /\ Advance(b, c, {}) /\ Loyal(b, c)
  BY <1>0, <1>2, Collected
<1>4. /\ Sane(c) /\ Evolves(b, c, {}) /\ c.output = b.output /\ c.extended = b.extended
  BY <1>0, <1>2, <1>3, GarbageCollect DEF Advance
<1>5. Rest'
  <2>1. moved \in [rd : [Peers -> Nat], wr : [Peers -> Nat], erd : Nat, ewr : Nat, told : Nat,
                   exit : BOOLEAN, lossy : BOOLEAN]
    BY DEF IInv, TypeOK
  <2>2. Moved(p, r, w, x) \in [rd : [Peers -> Nat], wr : [Peers -> Nat], erd : Nat, ewr : Nat, told : Nat,
                               exit : BOOLEAN, lossy : BOOLEAN]
    <3> DEFINE rd == [moved.rd EXCEPT ![p] = IF r > 0 THEN @ + r ELSE @]
               wr == [moved.wr EXCEPT ![p] = IF w > 0 THEN @ + w ELSE @]
               erd == IF p = "server" /\ x > 0 THEN moved.erd + x ELSE moved.erd
               ewr == IF p = "client" /\ x > 0 THEN moved.ewr + x ELSE moved.ewr
               lossy == moved.lossy \/ (p = "client" /\ Failed \in {w, x})
    <3>1. rd \in [Peers -> Nat] /\ wr \in [Peers -> Nat]
      BY <1>0, <2>1
    <3>2. erd \in Nat /\ ewr \in Nat
      BY <1>0, <2>1
    <3>3. lossy \in BOOLEAN
      OBVIOUS
    <3>4. Moved(p, r, w, x) = [moved EXCEPT !.rd = rd, !.wr = wr, !.erd = erd,
                                            !.ewr = ewr, !.lossy = lossy]
      BY <2>1 DEF Moved
    <3> HIDE DEF rd, wr, erd, ewr, lossy
    <3> QED BY <2>1, <3>1, <3>2, <3>3, <3>4
  <2> QED BY <1>1, <2>2, RestHolds DEF Rest
<1>6. CASE c.type # "open"
  BY <1>1, <1>3, <1>5, <1>6, QuietStep
<1>7. CASE c.type = "open"
  <2> HIDE DEF c
  <2>1. Calm(c, a) /\ a.output = c.output /\ a.extended = c.extended
    BY <1>0, <1>4, <1>7, HandleRfd
  <2>2. Sane(a) /\ a.type = "open" /\ w <= a.output
    BY <1>1, <1>4, <1>7, <2>1 DEF Calm, IOChoice
  <2> HIDE DEF a
  <2>3. Calm(a, k) /\ k.extended = a.extended
    BY <1>0, <2>2, HandleWfd
  <2>4. Sane(k) /\ k.type = "open"
    BY <2>2, <2>3 DEF Calm
  <2> HIDE DEF k
  <2>5. EfdWrite(k) => x <= k.extended
    <3>1. c.extusage = b.extusage
      BY <1>0, <1>2, ExtusageKept, GarbageCollect DEF Sane, c
    <3>2. k.extusage = b.extusage
      BY <1>0, <1>4, <2>2, <3>1, ExtusageKept DEF Sane, a, k
    <3>3. k.extended = b.extended /\ k.extended \in Nat
      BY <1>4, <2>1, <2>3, <2>4 DEF Sane, ChannelRecord
    <3> QED BY <1>0, <1>1, <3>2, <3>3 DEF IOChoice, EfdWrite
  <2>6. Calm(k, e)
    BY <1>0, <2>4, <2>5, HandleEfd
  <2>7. Calm(e, post)
    BY <2>6, CheckWindow DEF Calm
  <2>8. Calm(c, post)
    <3>1. Calm(c, k)
      BY <1>4, <2>1, <2>3, CalmTrans
    <3>2. Calm(c, e)
      BY <1>4, <3>1, <2>6, CalmTrans
    <3> QED BY <1>4, <3>2, <2>7, CalmTrans
  <2>9. Sane(post) /\ Evolves(b, post, {}) /\ Loyal(b, post) /\ post.type = "open"
    BY <1>0, <1>3, <1>4, <1>7, <2>8, EvolvesTrans, LoyalTrans DEF Calm
  <2> HIDE DEF post
  <2>10. Advance(b, g, {}) /\ Loyal(b, g)
    BY <1>0, <2>9, Collected
  <2> HIDE DEF g
  <2> QED BY <1>1, <1>5, <1>7, <2>10, QuietStep
<1> QED BY <1>6, <1>7

\* The link between two ends that have exchanged nothing but the open.
LEMMA OpenLink ==
    ASSUME NEW c, NEW d, c.flags = {}, d.flags = {},
           \A i \in 1..Len(c.out) : c.out[i].t \in OpenTypes
    PROVE  LinkOK(c, d)
BY DEF LinkOK, OpenTypes

\* A step of the open handshake keeps the invariant.
LEMMA OpenKeeps ==
    ASSUME NEW c, NEW s, ch' \in [Peers -> ChannelRecord],
           ch'["client"] = c, ch'["server"] = s,
           Sane(c), Sane(s), LinkOK(c, s), LinkOK(s, c), Phase(c, s),
           SessionOK(c, s, child'), Rest'
    PROVE  IInv'
<1>1. TypeOK' /\ NoFault'
  BY DEF TypeOK, NoFault, Rest
<1>2. \A p \in Peers : Sane(ch'[p]) /\ LinkOK(ch'[p], ch'[Other(p)])
  BY DEF Peers, Other
<1> QED BY <1>1, <1>2 DEF IInv

\* A server that has sent nothing owes no exit status.
LEMMA NoExit ==
    ASSUME ch["server"].out = <<>>, ~HasChild \/ ch["server"].detach.user = "none"
    PROVE  ExitStep /\ Sworn
<1>1. ExitStep
  BY DEF ExitStep, Exits
<1>2. Sworn
  BY DEF Sworn
<1> QED BY <1>1, <1>2

\* The three packets of the open handshake arrive only when they are due.
LEMMA OpenDue ==
    ASSUME IInv
    PROVE  /\ Receives("server", "OPEN") => Asked(ch["client"], ch["server"])
           /\ Receives("client", "CONFIRM") => Confirming(ch["client"], ch["server"])
           /\ Receives("client", "OPENFAIL") => /\ Refused(ch["client"], ch["server"])
                                                /\ ch["client"].type = "opening"
           /\ ch["server"].type = "connecting" => Dialing(ch["client"], ch["server"])
<1> DEFINE c == ch["client"]
           s == ch["server"]
<1>1. /\ c.out \in Seq(Packet) /\ s.out \in Seq(Packet) /\ Phase(c, s)
      /\ Other("client") = "server" /\ Other("server") = "client"
  BY DEF IInv, Sane, ChannelRecord, Peers, Other
<1>2. ASSUME Receives("server", "OPEN") PROVE Asked(c, s)
  <2>1. c.out # <<>> /\ Len(c.out) >= 1 /\ c.out[1].t = "OPEN"
    BY <1>1, <1>2 DEF Receives, Msg
  <2> QED BY <1>1, <2>1 DEF Phase, Refused, Dialing, Confirming, Established, Plain, OpenTypes
<1>3. ASSUME NEW t \in {"CONFIRM", "OPENFAIL"}, Receives("client", t)
      PROVE  \/ t = "CONFIRM" /\ Confirming(c, s)
             \/ t = "OPENFAIL" /\ Refused(c, s) /\ c.type = "opening"
  <2>1. s.out # <<>> /\ Len(s.out) >= 1 /\ s.out[1].t = t
    BY <1>1, <1>3 DEF Receives, Msg
  <2> QED BY <1>1, <2>1 DEF Phase, Asked, Refused, Dialing, Confirming, Established, Plain, OpenTypes
<1>4. ASSUME s.type = "connecting" PROVE Dialing(c, s)
  BY <1>1, <1>4 DEF Phase, Asked, Refused, Confirming, Established
<1> QED BY <1>2, <1>3, <1>4

LarvalChannel(n) ==
    [NewChannel("larval", 0, "ignore", [user |-> "session", close |-> FALSE])
       EXCEPT !.rwin = n, !.out = <<>>]
DialingChannel(n) ==
    [NewChannel("connecting", WindowMax, "ignore", NoUser) EXCEPT !.rwin = n, !.out = <<>>]

\* The two channels a server makes for an open request.
LEMMA NewRecords ==
    ASSUME NEW n \in Nat, NEW e \in {LarvalChannel(n), DialingChannel(n)}
    PROVE  /\ e \in ChannelRecord /\ Sane(e) /\ e.flags = {} /\ e.out = <<>>
           /\ e = LarvalChannel(n) =>
                e.type = "larval" /\ e.detach = [user |-> "session", close |-> FALSE]
           /\ e = DialingChannel(n) => e.type = "connecting" /\ e.detach = NoUser
<1> DEFINE det == [user |-> "session", close |-> FALSE]
           a == NewChannel("larval", 0, "ignore", det)
           b == NewChannel("connecting", WindowMax, "ignore", NoUser)
<1>1. /\ det \in [user : {"none", "client", "session"}, close : BOOLEAN]
      /\ NoUser \in [user : {"none", "client", "session"}, close : BOOLEAN]
      /\ {"larval", "connecting"} \subseteq Types /\ "open" \in States
      /\ <<>> \in Seq(Packet) /\ WindowMax \in Nat
  BY SizeAssumption DEF Types, NoUser, States
<1> HIDE DEF det
<1>2. ASSUME NEW type \in Types, NEW m \in Nat,
             NEW detach \in [user : {"none", "client", "session"}, close : BOOLEAN],
             NEW c, c = NewChannel(type, m, "ignore", detach)
      PROVE  /\ c \in ChannelRecord /\ c.type = type /\ c.istate = "open" /\ c.ostate = "open"
             /\ c.flags = {} /\ c.detach = detach
  BY <1>1, <1>2 DEF NewChannel, ChannelRecord
<1>3. ASSUME NEW c \in ChannelRecord, NEW d, d = [c EXCEPT !.rwin = n, !.out = <<>>],
             c.istate = "open", c.ostate = "open", c.flags = {}
      PROVE  /\ d \in ChannelRecord /\ d.type = c.type /\ d.istate = "open" /\ d.ostate = "open"
             /\ d.flags = {} /\ d.detach = c.detach /\ d.out = <<>> /\ Sane(d)
  <2>1. /\ d \in ChannelRecord /\ d.type = c.type /\ d.istate = "open" /\ d.ostate = "open"
        /\ d.flags = {} /\ d.detach = c.detach /\ d.out = <<>>
    BY <1>1, <1>3 DEF ChannelRecord
  <2> QED BY <2>1 DEF Sane
<1>4. /\ a \in ChannelRecord /\ a.type = "larval" /\ a.istate = "open" /\ a.ostate = "open"
      /\ a.flags = {} /\ a.detach = det
  BY <1>1, <1>2
<1>5. /\ b \in ChannelRecord /\ b.type = "connecting" /\ b.istate = "open" /\ b.ostate = "open"
      /\ b.flags = {} /\ b.detach = NoUser
  BY <1>1, <1>2
<1>6. /\ LarvalChannel(n) = [a EXCEPT !.rwin = n, !.out = <<>>]
      /\ DialingChannel(n) = [b EXCEPT !.rwin = n, !.out = <<>>]
  BY DEF LarvalChannel, DialingChannel, det
<1> HIDE DEF a, b
<1>7. PICK u : u = [a EXCEPT !.rwin = n, !.out = <<>>]
  OBVIOUS
<1>8. PICK v : v = [b EXCEPT !.rwin = n, !.out = <<>>]
  OBVIOUS
<1>9. /\ u \in ChannelRecord /\ Sane(u) /\ u.flags = {} /\ u.out = <<>>
      /\ u.type = "larval" /\ u.detach = det
  BY <1>3, <1>4, <1>7
<1>10. /\ v \in ChannelRecord /\ Sane(v) /\ v.flags = {} /\ v.out = <<>>
       /\ v.type = "connecting" /\ v.detach = NoUser
  BY <1>3, <1>5, <1>8
<1>11. LarvalChannel(n) = u /\ DialingChannel(n) = v /\ u # v
  BY <1>6, <1>7, <1>8, <1>9, <1>10
<1> QED BY <1>9, <1>10, <1>11 DEF det

\* The first packet on a link.
LEMMA FirstPacket ==
    ASSUME NEW e, Sane(e), e.out = <<>>, e.flags = {}, NEW t \in {"OPENFAIL", "CONFIRM"},
           NEW n \in Nat, NEW d, d = Send(e, t, n)
    PROVE  /\ d \in ChannelRecord /\ Sane(d) /\ d.flags = {} /\ Len(d.out) = 1
           /\ d.out[1].t = t /\ \A i \in 1..Len(d.out) : d.out[i].t \in OpenTypes
           /\ d.type = e.type /\ d.detach = e.detach
<1>1. t \in PacketTypes
  BY DEF PacketTypes
<1>2. d \in ChannelRecord /\ d = [e EXCEPT !.out = Append(e.out, Pkt(t, n))]
  <2>1. Append(e.out, Pkt(t, n)) \in Seq(Packet)
    BY <1>1, Appended
  <2>2. d = [e EXCEPT !.out = Append(e.out, Pkt(t, n))]
    BY DEF Send
  <2> QED BY <2>1, <2>2 DEF Sane, ChannelRecord
<1>3. /\ d.type = e.type /\ d.detach = e.detach /\ d.flags = e.flags
      /\ d.istate = e.istate /\ d.ostate = e.ostate /\ d.out = Append(e.out, Pkt(t, n))
  BY <1>2 DEF Sane, ChannelRecord
<1>4. Len(d.out) = 1 /\ d.out[1].t = t
  <2>1. e.out \in Seq(Packet) /\ Len(e.out) = 0
    BY DEF Sane, ChannelRecord
  <2>2. Len(Append(e.out, Pkt(t, n))) = 1 /\ Append(e.out, Pkt(t, n))[1] = Pkt(t, n)
    BY <2>1
  <2> QED BY <1>3, <2>2 DEF Pkt
<1>5. Sane(d)
  BY <1>2, <1>3 DEF Sane
<1>6. \A i \in 1..Len(d.out) : d.out[i].t \in OpenTypes
  BY <1>4 DEF OpenTypes
<1> QED BY <1>2, <1>3, <1>4, <1>5, <1>6

\* server_input_channel_open keeps the invariant.
LEMMA KeepServerOpen ==
    ASSUME IInv, ServerInputChannelOpen
    PROVE  Kept
<1> DEFINE c == ch["client"]
           s == ch["server"]
           cc == ch'["client"]
           n == Msg("server").n
           lar == LarvalChannel(n)
           con == DialingChannel(n)
<1>0. /\ "server" \in Peers /\ "client" \in Peers
      /\ Other("server") = "client" /\ Receives("server", "OPEN")
      /\ child' = child /\ moved' = moved
  BY DEF Peers, Other, ServerInputChannelOpen
<1>1. Asked(c, s)
  BY <1>0, OpenDue
<1>2. /\ Sane(c) /\ Sane(s) /\ SessionOK(c, s, child) /\ s \in ChannelRecord
      /\ c.out \in Seq(Packet) /\ s.out = <<>> /\ s.flags = {}
  BY <1>0, <1>1 DEF IInv, Asked, Sane, ChannelRecord
<1>3. n \in Nat
  <2>1. Len(c.out) = 1 /\ Msg("server") = c.out[1]
    BY <1>0, <1>1, <1>2 DEF Asked, Msg
  <2>2. c.out[1] \in Packet
    BY <1>2, <2>1, ElementOfSeq
  <2> QED BY <2>1, <2>2 DEF Packet
<1>4. PICK d \in {Send(s, "OPENFAIL", 0), Send(lar, "CONFIRM", 0), con} :
        Handled("server", d, "none")
  BY <1>2 DEF ServerInputChannelOpen, LarvalChannel, DialingChannel
<1>5. Rest'
  BY <1>0, <1>4, RestHolds DEF Handled
<1>6. /\ ch'["server"] = d /\ cc.flags = c.flags /\ cc.type = c.type
      /\ cc.detach = c.detach /\ cc.out = Tail(c.out) /\ Sane(cc)
      /\ d \in ChannelRecord => ch' \in [Peers -> ChannelRecord]
  BY <1>0, <1>4, HandledCh DEF Receives
<1>7. cc.out = <<>> /\ cc.type = "opening" /\ cc.flags = {}
  <2>1. Len(c.out) = 1
    BY <1>1 DEF Asked
  <2>2. Tail(c.out) \in Seq(Packet) /\ Len(Tail(c.out)) = 0
    <3>1. c.out # <<>>
      BY <2>1
    <3> QED BY <1>2, <2>1, <3>1, HeadTailProperties
  <2>3. Tail(c.out) = <<>>
    BY <2>2, EmptySeq
  <2> QED BY <1>1, <1>6, <2>3 DEF Asked
<1>8. /\ Sane(lar) /\ lar.flags = {} /\ lar.out = <<>> /\ lar.type = "larval"
      /\ lar.detach = [user |-> "session", close |-> FALSE]
  BY <1>3, NewRecords
<1>9. /\ con \in ChannelRecord /\ Sane(con) /\ con.flags = {} /\ con.out = <<>>
      /\ con.type = "connecting" /\ con.detach = NoUser
  BY <1>3, NewRecords
<1> HIDE DEF lar, con, cc
<1>11. ASSUME d \in ChannelRecord, Sane(d), d.flags = {}, Len(d.out) \in Nat,
              \A i \in 1..Len(d.out) : d.out[i].t \in OpenTypes,
              Phase(cc, d), SessionOK(c, d, child), d.type # "freed"
       PROVE  Kept
  <2>1. LinkOK(d, cc) /\ LinkOK(cc, d)
    BY <1>7, <1>11, OpenLink
  <2>2. SessionOK(cc, d, child')
    BY <1>0, <1>6, <1>11 DEF SessionOK
  <2>3. IInv'
    BY <1>5, <1>6, <1>11, <2>1, <2>2, OpenKeeps DEF cc
  <2>4. CloseStep
    <3>1. s.type # "freed"
      BY <1>1 DEF Asked
    <3> QED BY <1>2, <1>6, <1>11, <3>1, SameHandshake DEF Peers, Up, cc
  <2>5. ExitStep /\ Sworn
    BY <1>1, <1>2, NoExit DEF Asked, SessionOK, HasChild
  <2> QED BY <2>3, <2>4, <2>5 DEF Kept
<1>13. CASE d = Send(s, "OPENFAIL", 0)
  <2>1. /\ d \in ChannelRecord /\ Sane(d) /\ d.flags = {} /\ Len(d.out) = 1
        /\ d.out[1].t = "OPENFAIL" /\ \A i \in 1..Len(d.out) : d.out[i].t \in OpenTypes
        /\ d.type = s.type /\ d.detach = s.detach
    BY <1>2, <1>13, FirstPacket
  <2>2. Phase(cc, d)
    BY <1>1, <1>7, <2>1 DEF Phase, Refused, Asked
  <2>3. SessionOK(c, d, child)
    BY <1>2, <2>1 DEF SessionOK
  <2> QED BY <1>1, <1>11, <2>1, <2>2, <2>3 DEF Asked
<1>14. CASE d = Send(lar, "CONFIRM", 0)
  <2>1. /\ d \in ChannelRecord /\ Sane(d) /\ d.flags = {} /\ Len(d.out) = 1
        /\ d.out[1].t = "CONFIRM" /\ \A i \in 1..Len(d.out) : d.out[i].t \in OpenTypes
        /\ d.type = "larval" /\ d.detach = [user |-> "session", close |-> FALSE]
    BY <1>8, <1>14, FirstPacket
  <2>2. Phase(cc, d)
    BY <1>7, <2>1 DEF Phase, Confirming, Plain
  <2>3. SessionOK(c, d, child)
    BY <1>1, <1>2, <2>1 DEF SessionOK, Asked
  <2> QED BY <1>11, <2>1, <2>2, <2>3
<1>15. CASE d = con
  <2>1. Len(d.out) = 0 /\ \A i \in 1..Len(d.out) : d.out[i].t \in OpenTypes
    BY <1>9, <1>15
  <2>2. Phase(cc, d)
    BY <1>7, <1>9, <1>15 DEF Phase, Dialing
  <2>3. SessionOK(c, d, child)
    BY <1>2, <1>9, <1>15 DEF SessionOK, NoUser
  <2> QED BY <1>9, <1>11, <1>15, <2>1, <2>2, <2>3
<1> QED BY <1>4, <1>13, <1>14, <1>15

\* channel_input_open_confirmation keeps the invariant.
LEMMA KeepConfirmation ==
    ASSUME IInv, InputOpenConfirmation
    PROVE  Kept
<1> DEFINE c == ch["client"]
           s == ch["server"]
           r == ch'["server"]
           n == Msg("client").n
           d == channel_input_open_confirmation(c, n)
<1>0. /\ "server" \in Peers /\ "client" \in Peers
      /\ Other("client") = "server" /\ Receives("client", "CONFIRM")
      /\ child' = child /\ moved' = moved
  BY DEF Peers, Other, InputOpenConfirmation
<1>1. Confirming(c, s)
  BY <1>0, OpenDue
<1>2. /\ Sane(c) /\ Sane(s) /\ SessionOK(c, s, child) /\ c \in ChannelRecord
      /\ s.out \in Seq(Packet) /\ s.out # <<>> /\ c.out = <<>> /\ c.flags = {}
      /\ LinkOK(c, s) /\ LinkOK(s, c)
  <2>1. Other("server") = "client"
    BY DEF Other
  <2>2. LinkOK(c, s) /\ LinkOK(s, c)
    BY <1>0, <2>1 DEF IInv
  <2>3. Sane(c) /\ Sane(s) /\ SessionOK(c, s, child)
    BY <1>0 DEF IInv
  <2>4. c \in ChannelRecord /\ s.out \in Seq(Packet)
    BY <2>3 DEF Sane, ChannelRecord
  <2>5. s.out # <<>> /\ c.out = <<>> /\ c.flags = {}
    BY <1>0, <1>1 DEF Confirming, Receives
  <2> QED BY <2>2, <2>3, <2>4, <2>5
<1>3. n \in Nat /\ Msg("client") = s.out[1] /\ s.out[1].t = "CONFIRM"
  <2>1. Len(s.out) >= 1 /\ Msg("client") = s.out[1]
    BY <1>0, <1>1, <1>2 DEF Confirming, Msg
  <2>2. s.out[1] \in Packet
    BY <1>2, <2>1, ElementOfSeq
  <2> QED BY <1>1, <2>1, <2>2 DEF Packet, Confirming
<1>4. Handled("client", d, "none")
  BY <1>1 DEF InputOpenConfirmation, Confirming, Outcome
<1>5. Rest'
  BY <1>0, <1>4, RestHolds DEF Handled
<1>6. /\ ch'["client"] = d /\ r.flags = s.flags /\ r.type = s.type
      /\ r.detach = s.detach /\ r.out = Tail(s.out) /\ Sane(r)
      /\ d \in ChannelRecord => ch' \in [Peers -> ChannelRecord]
  BY <1>0, <1>2, <1>4, HandledCh
<1> HIDE DEF r
<1>7. /\ d \in ChannelRecord /\ Sane(d) /\ d.type = "open" /\ d.detach = c.detach
      /\ d.flags = {} /\ Evolves(c, d, {}) /\ Plain(d.out, 1)
  <2> DEFINE e == [c EXCEPT !.rwin = n, !.type = "open"]
  <2> HIDE DEF n, c
  <2>1. /\ e \in ChannelRecord /\ e.type = "open" /\ e.detach = c.detach /\ e.flags = c.flags
        /\ e.istate = c.istate /\ e.ostate = c.ostate /\ e.out = c.out
    BY <1>2, <1>3 DEF ChannelRecord, Types
  <2>2. Sane(e) /\ Evolves(c, e, {})
    BY <1>2, <2>1, EvolvesRefl DEF Sane, Evolves
  <2>3. \E x \in {e, Send(e, "X11REQ", 0)} : d \in {e, Send(x, "EXEC", 0)}
    BY DEF channel_input_open_confirmation
  <2> HIDE DEF e, d
  <2>4. ASSUME NEW x, Sane(x), x.flags = {}, NEW t \in {"X11REQ", "EXEC"}
        PROVE  Calm(x, Send(x, t, 0)) /\ Send(x, t, 0).flags = {}
    <3> DEFINE y == Send(x, t, 0)
    <3>1. y \in ChannelRecord /\ y = [x EXCEPT !.out = Append(x.out, Pkt(t, 0))]
      BY <2>4, Appended, PlainPackets
    <3>2. /\ y.type = x.type /\ y.detach = x.detach /\ y.flags = x.flags
          /\ y.istate = x.istate /\ y.ostate = x.ostate /\ y.out = Append(x.out, Pkt(t, 0))
      BY <2>4, <3>1 DEF ChannelRecord, Sane
    <3>3. Keeps(x, y)
      BY <2>4, <3>1, <3>2 DEF Keeps, Sane
    <3>4. Calm(x, y)
      BY <2>4, <3>2, <3>3, KeepsSends, PlainPackets
    <3> QED BY <2>4, <3>2, <3>4
  <2>5. Calm(e, d) /\ d.flags = {}
    <3>1. PICK x \in {e, Send(e, "X11REQ", 0)} : d \in {e, Send(x, "EXEC", 0)}
      BY <2>3
    <3>2. Sane(e) /\ e.flags = {} /\ Calm(e, e)
      BY <1>2, <2>1, <2>2, CalmRefl
    <3>3. Calm(e, x) /\ x.flags = {}
      BY <2>4, <3>1, <3>2
    <3>4. Calm(x, Send(x, "EXEC", 0)) /\ Send(x, "EXEC", 0).flags = {}
      BY <2>4, <3>3 DEF Calm
    <3>5. Calm(e, Send(x, "EXEC", 0))
      BY <3>2, <3>3, <3>4, CalmTrans
    <3> QED BY <3>1, <3>2, <3>4, <3>5
  <2>6. Sane(d) /\ Evolves(c, d, {})
    BY <1>2, <2>2, <2>5, EvolvesTrans DEF Calm
  <2>7. Plain(c.out, 1) /\ Len(c.out) >= 0
    BY <1>2 DEF Plain
  <2>8. Plain(d.out, 1)
    BY <1>2, <2>6, <2>7, PlainGrow
  <2> QED BY <1>2, <2>1, <2>5, <2>6, <2>8 DEF Calm, Sane
<1> HIDE DEF d
<1>8. LinkOK(d, r) /\ LinkOK(r, d)
  <2>1. LinkOK(d, s)
    BY <1>2, <1>7, LinkGrow
  <2>2. LinkOK(d, r)
    BY <1>6, <2>1 DEF LinkOK
  <2>3. LinkOK(r, d)
    BY <1>2, <1>6, <1>7, LinkPop
  <2> QED BY <2>2, <2>3
<1>9. Phase(d, r)
  <2>1. Plain(r.out, 1)
    <3>1. /\ Len(r.out) = Len(s.out) - 1 /\ Len(s.out) \in Nat
          /\ \A i \in 1..Len(r.out) : r.out[i] = s.out[i+1]
      BY <1>2, <1>6, HeadTailProperties
    <3>2. \A i \in 1..Len(r.out) : i + 1 \in 2..Len(s.out)
      BY <3>1
    <3> QED BY <1>1, <3>1, <3>2 DEF Plain, Confirming
  <2>2. Established(d, r)
    BY <1>1, <1>6, <1>7, <2>1 DEF Established, Confirming
  <2> QED BY <2>2 DEF Phase
<1>10. SessionOK(d, r, child')
  BY <1>0, <1>2, <1>6, <1>7 DEF SessionOK
<1>11. IInv'
  BY <1>5, <1>6, <1>7, <1>8, <1>9, <1>10, OpenKeeps DEF r
<1>12. CloseStep
  <2>1. /\ c.type = "opening" /\ s.type \in {"larval", "open", "abandoned"}
    BY <1>1 DEF Confirming
  <2>2. ~Up /\ Up' /\ Gone = {} /\ Gone' = Gone
    BY <1>2, <1>6, <1>7, <2>1 DEF Up, Gone, Peers, r
  <2>3. Sent' = Sent /\ Rcvd' = Rcvd
    BY <1>2, <1>6, <1>7 DEF Sent, Rcvd, Peers, r
  <2> QED BY <1>0, <2>2, <2>3, Mapping
<1>13. ExitStep /\ Sworn
  <2>1. Head(s.out).t # "EXIT"
    BY <1>2, <1>3
  <2> QED BY <1>2, <1>6, <2>1, ExitsPop DEF ExitStep, Sworn, r
<1> QED BY <1>11, <1>12, <1>13 DEF Kept

\* channel_input_open_failure keeps the invariant.
LEMMA KeepOpenFailure ==
    ASSUME IInv, InputOpenFailure
    PROVE  Kept
<1> DEFINE c == ch["client"]
           s == ch["server"]
           r == ch'["server"]
           d == channel_input_open_failure(c)
<1>0. /\ "server" \in Peers /\ "client" \in Peers
      /\ Other("client") = "server" /\ Receives("client", "OPENFAIL")
      /\ child' = child /\ moved' = moved
  BY DEF Peers, Other, InputOpenFailure
<1>1. Refused(c, s) /\ c.type = "opening"
  BY <1>0, OpenDue
<1>2. /\ Sane(c) /\ Sane(s) /\ SessionOK(c, s, child) /\ c \in ChannelRecord
      /\ s.out \in Seq(Packet) /\ s.out # <<>> /\ c.out = <<>> /\ c.flags = {}
      /\ s.flags = {} /\ Len(s.out) = 1
  BY <1>0, <1>1, SMTT(30) DEF IInv, Refused, Sane, ChannelRecord
<1>3. Handled("client", d, "none")
  BY <1>1 DEF InputOpenFailure, Outcome
<1>4. Rest'
  BY <1>0, <1>3, RestHolds DEF Handled
<1>5. /\ ch'["client"] = d /\ r.flags = s.flags /\ r.type = s.type
      /\ r.detach = s.detach /\ r.out = Tail(s.out) /\ Sane(r)
      /\ d \in ChannelRecord => ch' \in [Peers -> ChannelRecord]
  BY <1>0, <1>2, <1>3, HandledCh
<1> HIDE DEF r
<1>6. r.out = <<>>
  <2>1. r.out \in Seq(Packet) /\ Len(r.out) = 0
    BY <1>2, <1>5, HeadTailProperties
  <2> QED BY <2>1, EmptySeq
<1>7. /\ d \in ChannelRecord /\ d.type = "zombie" /\ d.detach = c.detach /\ d.flags = {}
      /\ d.out = <<>> /\ d.istate = c.istate /\ d.ostate = c.ostate
  BY <1>2 DEF channel_input_open_failure, ChannelRecord, Types
<1>8. Sane(d)
  BY <1>7 DEF Sane
<1> HIDE DEF d
<1>9. LinkOK(d, r) /\ LinkOK(r, d)
  BY <1>2, <1>5, <1>6, <1>7, OpenLink
<1>10. Phase(d, r)
  BY <1>1, <1>5, <1>6, <1>7 DEF Phase, Refused
<1>11. SessionOK(d, r, child')
  BY <1>0, <1>2, <1>5, <1>7 DEF SessionOK
<1>12. IInv'
  BY <1>4, <1>5, <1>7, <1>8, <1>9, <1>10, <1>11, OpenKeeps DEF r
<1>13. CloseStep
  BY <1>1, <1>2, <1>5, <1>7, SameHandshake DEF Peers, Up, r
<1>14. ExitStep /\ Sworn
  <2>1. Head(s.out).t # "EXIT"
    BY <1>1, <1>2 DEF Refused
  <2> QED BY <1>2, <1>5, <2>1, ExitsPop DEF ExitStep, Sworn, r
<1> QED BY <1>12, <1>13, <1>14 DEF Kept

\* channel_post_connecting keeps the invariant.
LEMMA KeepConnecting ==
    ASSUME IInv, HandleConnecting
    PROVE  Kept
<1> DEFINE c == ch["client"]
           s == ch["server"]
           u == [s EXCEPT !.type = "open"]
           z == [s EXCEPT !.type = "zombie"]
           a == Send(u, "CONFIRM", s.lwin)
           b == Send(z, "OPENFAIL", 0)
           g == channel_garbage_collect(b, HasChild)
<1>0. /\ "server" \in Peers /\ "client" \in Peers
      /\ Other("client") = "server" /\ s.type = "connecting"
      /\ child' = child /\ moved' = moved /\ fault' = fault
      /\ Step("server", a) \/ Step("server", g)
  BY DEF Peers, Other, HandleConnecting
<1>1. Dialing(c, s)
  BY <1>0, OpenDue
<1>2. /\ Sane(c) /\ Sane(s) /\ SessionOK(c, s, child) /\ s \in ChannelRecord
      /\ s.out = <<>> /\ s.flags = {} /\ c.out = <<>> /\ c.flags = {} /\ c.type = "opening"
      /\ s.lwin \in Nat /\ s.istate = "open" /\ s.ostate = "open"
      /\ ch \in [Peers -> ChannelRecord] /\ s.detach.user = "none"
  BY <1>0, <1>1 DEF IInv, TypeOK, Dialing, Sane, ChannelRecord, SessionOK
<1>3. Rest'
  BY <1>0, RestHolds DEF Rest
<1>4. ASSUME NEW d, Sane(d), Step("server", d), d.flags = {}, d.detach.user = "none",
             \A i \in 1..Len(d.out) : d.out[i].t \in OpenTypes, Phase(c, d),
             d.type \notin {"none", "larval"}
      PROVE  Kept
  <2>1. ch'["client"] = c /\ ch'["server"] = d /\ ch' \in [Peers -> ChannelRecord]
    BY <1>0, <1>2, <1>4 DEF Step, Sane
  <2>2. LinkOK(c, d) /\ LinkOK(d, c)
    BY <1>2, <1>4, OpenLink
  <2>3. SessionOK(c, d, child')
    BY <1>0, <1>2, <1>4 DEF SessionOK
  <2>4. IInv'
    BY <1>2, <1>3, <1>4, <2>1, <2>2, <2>3, OpenKeeps
  <2>5. Up' = Up /\ ~Up /\ Sent' = Sent /\ Sent = {} /\ Rcvd' = Rcvd /\ "server" \notin Gone
    BY <1>0, <1>2, <1>4, <2>1 DEF Up, Sent, Rcvd, Gone, Peers
  <2>6. Gone' = Gone \/ Gone' = Gone \cup {"server"}
    BY <1>0, <2>1 DEF Gone, Peers
  <2>7. CloseStep
    BY <1>0, <2>5, <2>6, Mapping
  <2>8. ExitStep /\ Sworn
    BY <1>2, NoExit
  <2> QED BY <2>4, <2>7, <2>8 DEF Kept
<1>5. ASSUME NEW t \in {"open", "zombie"}, NEW e, e = [s EXCEPT !.type = t]
      PROVE  /\ Sane(e) /\ e.type = t /\ e.flags = {} /\ e.out = <<>> /\ e.detach = s.detach
  <2>1. /\ e \in ChannelRecord /\ e.type = t /\ e.flags = {} /\ e.out = <<>> /\ e.detach = s.detach
    BY <1>2, <1>5 DEF ChannelRecord, Types
  <2> QED BY <2>1 DEF Sane
<1>6. ASSUME Step("server", a) PROVE Kept
  <2>1. /\ a \in ChannelRecord /\ Sane(a) /\ a.flags = {} /\ Len(a.out) = 1
        /\ a.out[1].t = "CONFIRM" /\ \A i \in 1..Len(a.out) : a.out[i].t \in OpenTypes
        /\ a.type = "open" /\ a.detach = s.detach
    BY <1>2, <1>5, FirstPacket
  <2> HIDE DEF a
  <2>2. Phase(c, a)
    BY <1>2, <2>1 DEF Phase, Confirming, Plain
  <2> QED BY <1>2, <1>4, <1>6, <2>1, <2>2
<1>7. ASSUME Step("server", g) PROVE Kept
  <2>1. /\ b \in ChannelRecord /\ Sane(b) /\ b.flags = {} /\ Len(b.out) = 1
        /\ b.out[1].t = "OPENFAIL" /\ \A i \in 1..Len(b.out) : b.out[i].t \in OpenTypes
        /\ b.type = "zombie" /\ b.detach = s.detach
    BY <1>2, <1>5, FirstPacket
  <2>2. HasChild \in BOOLEAN
    BY DEF HasChild
  <2> HIDE DEF b
  <2>3. /\ Sane(g) /\ g.flags = b.flags /\ g.out = b.out /\ g.type \in {"zombie", "freed"}
        /\ g.detach.user = "none"
    BY <1>2, <2>1, <2>2, GarbageCollect DEF Registered
  <2> HIDE DEF g
  <2>4. Phase(c, g)
    BY <1>2, <2>1, <2>3 DEF Phase, Refused
  <2> QED BY <1>4, <1>7, <2>1, <2>3, <2>4
<1> QED BY <1>0, <1>6, <1>7

\* A reply is a calm step.
LEMMA ReplyCalm ==
    ASSUME NEW d, Sane(d), NEW t \in {"SUCCESS", "REFUSED", "FAILURE"}
    PROVE  Calm(d, Replied(d, t))
<1> DEFINE e == Replied(d, t)
<1>1. CASE e = d
  BY <1>1, CalmRefl
<1>2. CASE "CLOSE_SENT" \notin d.flags /\ e = Send(d, t, 0)
  <2>1. e \in ChannelRecord /\ e = [d EXCEPT !.out = Append(d.out, Pkt(t, 0))]
    BY <1>2, Appended, PlainPackets
  <2> HIDE DEF e
  <2>2. /\ e.type = d.type /\ e.detach = d.detach /\ e.flags = d.flags
        /\ e.istate = d.istate /\ e.ostate = d.ostate /\ e.out = Append(d.out, Pkt(t, 0))
    BY <2>1 DEF Sane, ChannelRecord
  <2>3. Keeps(d, e)
    BY <2>1, <2>2 DEF Keeps, Sane
  <2>4. Calm(d, e)
    BY <1>2, <2>2, <2>3, KeepsSends, PlainPackets
  <2> QED BY <2>4 DEF e
<1> QED BY <1>1, <1>2 DEF Has, Replied

\* The answer to the request for X11 forwarding keeps the invariant.
LEMMA KeepX11 ==
    ASSUME IInv, SessionX11Req
    PROVE  Kept
<1> DEFINE c == ch["server"]
<1>0. /\ "server" \in Peers /\ Receives("server", "X11REQ") /\ "X11REQ" \in PacketTypes \ OpenTypes
      /\ child' = child /\ moved' = moved /\ Sane(c)
  BY DEF SessionX11Req, Peers, PacketTypes, OpenTypes, IInv
<1>1. c.type \in {"larval", "open", "abandoned"} /\ Live("server")
  BY <1>0, Received
<1>2. PICK t \in {"SUCCESS", "REFUSED"} : Handled("server", Replied(c, t), "none")
  BY <1>1 DEF SessionX11Req, ForChannel, Outcome
<1> DEFINE e == Replied(c, t)
<1>3. Calm(c, e)
  BY <1>0, ReplyCalm
<1> HIDE DEF e
<1>4. Advance(c, e, {}) /\ Loyal(c, e)
  BY <1>1, <1>3, CalmAdvance
<1>5. Handled("server", e, "none")
  BY <1>2 DEF e
<1>6. Rest'
  BY <1>0, <1>5, RestHolds DEF Handled
<1> QED BY <1>0, <1>4, <1>5, <1>6, QuietTake

\* session_input_channel_req keeps the invariant.
LEMMA KeepExec ==
    ASSUME IInv, SessionInputChannelReq
    PROVE  Kept
<1> DEFINE c == ch["server"]
           u == Send(c, "ADJUST", WindowMax)
           o == [u EXCEPT !.type = "open", !.lwin = WindowMax,
                          !.efd = (Kind = "session"),
                          !.extusage = IF Kind = "session" THEN "read" ELSE "ignore"]
<1>0. /\ "server" \in Peers /\ Other("server") = "client" /\ Receives("server", "EXEC")
      /\ "EXEC" \in PacketTypes \ OpenTypes /\ moved' = moved
  BY DEF SessionInputChannelReq, Peers, Other, PacketTypes, OpenTypes
<1>1. /\ c.type \in {"larval", "open", "abandoned"} /\ Live("server")
  BY <1>0, Received
<1>2. Sane(c) /\ c \in ChannelRecord /\ SessionOK(ch["client"], c, child)
  BY <1>0 DEF IInv, Sane
<1>3. PICK granted \in BOOLEAN :
        LET ok == granted /\ c.type = "larval" /\ c.detach.user = "session"
            d == IF ok THEN o ELSE c
        IN  /\ ForChannel("server", Replied(d, IF ok THEN "SUCCESS" ELSE "FAILURE"))
            /\ child' = IF ok THEN "running" ELSE child
  BY DEF SessionInputChannelReq
<1>5. ASSUME NEW f, Handled("server", f, "none"), child' = child PROVE Rest'
  BY <1>0, <1>5, RestHolds DEF Handled
<1>6. CASE ~(granted /\ c.type = "larval" /\ c.detach.user = "session")
  <2> DEFINE e == Replied(c, "FAILURE")
  <2>1. Handled("server", e, "none") /\ child' = child
    BY <1>1, <1>3, <1>6 DEF ForChannel, Outcome
  <2>2. Calm(c, e)
    BY <1>2, ReplyCalm
  <2> HIDE DEF e
  <2>3. Advance(c, e, {}) /\ Loyal(c, e)
    BY <1>1, <2>2, CalmAdvance
  <2>4. Rest'
    BY <1>5, <2>1
  <2> QED BY <1>0, <2>1, <2>3, <2>4, QuietTake
<1>7. CASE granted /\ c.type = "larval" /\ c.detach.user = "session"
  <2> DEFINE e == Replied(o, "SUCCESS")
  <2>1. Handled("server", e, "none") /\ child' = "running"
    BY <1>1, <1>3, <1>7 DEF ForChannel, Outcome
  <2>2. "CLOSE_SENT" \notin c.flags /\ ~c.detach.close
    BY <1>2, <1>7 DEF SessionOK
  <2>3. /\ o \in ChannelRecord /\ o.type = "open" /\ o.detach = c.detach /\ o.flags = c.flags
        /\ o.istate = c.istate /\ o.ostate = c.ostate /\ o.out = Append(c.out, Pkt("ADJUST", WindowMax))
    <3>1. WindowMax \in Nat
      BY SizeAssumption
    <3>2. u \in ChannelRecord /\ u = [c EXCEPT !.out = Append(c.out, Pkt("ADJUST", WindowMax))]
      BY <1>2, <3>1, Appended, PlainPackets
    <3>3. /\ u.type = c.type /\ u.detach = c.detach /\ u.flags = c.flags
          /\ u.istate = c.istate /\ u.ostate = c.ostate
          /\ u.out = Append(c.out, Pkt("ADJUST", WindowMax))
      BY <1>2, <3>2 DEF ChannelRecord
    <3>4. (Kind = "session") \in BOOLEAN /\ "open" \in Types
          /\ (IF Kind = "session" THEN "read" ELSE "ignore") \in {"ignore", "read", "write"}
      BY DEF Types
    <3> HIDE DEF u
    <3> QED BY <3>1, <3>2, <3>3, <3>4 DEF ChannelRecord
  <2> HIDE DEF o
  <2>4. Sane(o)
    BY <1>2, <2>3 DEF Sane
  <2>5. Evolves(c, o, {})
    BY <1>2, <2>2, <2>3, SizeAssumption, SendGrows, PlainPackets DEF Evolves
  <2>6. Calm(o, e)
    BY <2>4, ReplyCalm
  <2> HIDE DEF e
  <2>7. Sane(e) /\ Evolves(c, e, {}) /\ e.type = "open" /\ e.detach = c.detach
        /\ "CLOSE_SENT" \notin e.flags
    BY <1>2, <2>2, <2>3, <2>4, <2>5, <2>6, EvolvesTrans DEF Calm
  <2>8. Advance(c, e, {})
    BY <1>7, <2>7 DEF Advance
  <2>9. Rest'
    BY <1>0, <2>1 DEF Rest, Handled, IInv, TypeOK
  <2>10. SessionOK(ch["client"]', ch["server"]', child')
    <3>1. ch'["server"] = e /\ ch'["client"].detach = ch["client"].detach
      BY <1>0, <2>1, HandledCh DEF Receives
    <3> QED BY <1>2, <1>7, <2>1, <2>2, <2>7, <3>1 DEF SessionOK
  <2>11. Sworn
    BY <1>0, <2>1, <2>7, HandledCh DEF Receives, Sworn
  <2> QED BY <1>0, <2>1, <2>8, <2>9, <2>10, <2>11, TakeKeeps
<1> QED BY <1>6, <1>7

\* The child's exit and its collection keep the invariant.
LEMMA KeepChild ==
    ASSUME IInv, ChildExit \/ CollectChildren
    PROVE  Kept
<1> DEFINE c == ch["server"]
           d == [Send(c, "EXIT", 0) EXCEPT !.detach.close = TRUE]
<1>0. /\ Sane(c) /\ c \in ChannelRecord /\ SessionOK(ch["client"], c, child) /\ "server" \in Peers
  BY DEF IInv, Sane, Peers
<1>1. ASSUME ChildExit PROVE Kept
  <2>1. ch' = ch /\ child = "running" /\ child' = "exited" /\ moved' = moved /\ fault' = fault
    BY <1>1 DEF ChildExit
  <2>2. SessionOK(ch'["client"], ch'["server"], child')
    BY <1>0, <2>1 DEF SessionOK
  <2>3. IInv'
    BY <2>1, <2>2 DEF IInv, TypeOK, NoFault
  <2>4. CloseStep
    BY <2>1, SameHandshake DEF Up
  <2> QED BY <2>1, <2>3, <2>4 DEF Kept, ExitStep, Sworn
<1>2. ASSUME CollectChildren, c.detach.user # "session" PROVE Kept
  <2>1. Step("server", c) /\ child = "exited" /\ child' = "reaped" /\ moved' = moved /\ fault' = "none"
    BY <1>2 DEF CollectChildren
  <2>2. ch' = ch
    BY <2>1 DEF Step, IInv, TypeOK
  <2>3. SessionOK(ch'["client"], ch'["server"], child')
    BY <1>0, <1>2, <2>1, <2>2 DEF SessionOK
  <2>4. IInv'
    BY <2>1, <2>2, <2>3 DEF IInv, TypeOK, NoFault
  <2>5. CloseStep
    BY <2>2, SameHandshake DEF Up
  <2> QED BY <2>2, <2>4, <2>5 DEF Kept, ExitStep, Sworn
<1>3. ASSUME CollectChildren, c.detach.user = "session" PROVE Kept
  <2>0. child = "exited" /\ child' = "reaped" /\ moved' = moved
    BY <1>3 DEF CollectChildren
  <2>1. /\ c.type = "open" /\ ~c.detach.close /\ "CLOSE_SENT" \notin c.flags
    BY <1>0, <1>3, <2>0 DEF SessionOK
  <2>2. Step("server", chan_write_failed(d)) /\ fault' = "none"
    BY <1>3, <2>1 DEF CollectChildren, Live
  <2>3. /\ d \in ChannelRecord /\ d.type = "open" /\ d.detach.user = "session" /\ d.detach.close
        /\ d.flags = c.flags /\ d.istate = c.istate /\ d.ostate = c.ostate
        /\ d.out = Append(c.out, Pkt("EXIT", 0))
    <3> DEFINE u == Send(c, "EXIT", 0)
    <3>1. u \in ChannelRecord /\ u = [c EXCEPT !.out = Append(c.out, Pkt("EXIT", 0))]
      BY <1>0, Appended, PlainPackets
    <3>2. /\ u.type = c.type /\ u.detach = c.detach /\ u.flags = c.flags
          /\ u.istate = c.istate /\ u.ostate = c.ostate /\ u.out = Append(c.out, Pkt("EXIT", 0))
      BY <1>0, <3>1 DEF ChannelRecord
    <3> HIDE DEF u
    <3>3. [u.detach EXCEPT !.close = TRUE] \in [user : {"none", "client", "session"}, close : BOOLEAN]
          /\ [u.detach EXCEPT !.close = TRUE].user = u.detach.user
          /\ [u.detach EXCEPT !.close = TRUE].close
      BY <3>1 DEF ChannelRecord
    <3>4. d = [u EXCEPT !.detach = [u.detach EXCEPT !.close = TRUE]]
      BY <3>1 DEF u, ChannelRecord
    <3> HIDE DEF d
    <3> QED BY <1>3, <2>1, <3>1, <3>2, <3>3, <3>4 DEF ChannelRecord
  <2> HIDE DEF d
  <2>4. Sane(d) /\ Evolves(c, d, {})
    <3>1. Sane(d)
      BY <1>0, <2>3 DEF Sane
    <3> QED BY <1>0, <2>1, <2>3, <3>1, SendGrows, PlainPackets DEF Evolves
  <2> DEFINE e == chan_write_failed(d)
  <2>5. Calm(d, e)
    BY <2>3, <2>4, WriteFailed
  <2> HIDE DEF e
  <2>6. Sane(e) /\ Evolves(c, e, {}) /\ e.type = "open" /\ e.detach = d.detach
    BY <1>0, <2>3, <2>4, <2>5, EvolvesTrans DEF Calm
  <2>7. Advance(c, e, {})
    BY <2>1, <2>6 DEF Advance
  <2>8. SessionOK(ch["client"]', ch["server"]', child')
    <3>1. ch'["server"] = e /\ ch'["client"] = ch["client"]
      BY <2>2 DEF Step, IInv, TypeOK, Peers, e
    <3> QED BY <1>0, <2>0, <2>3, <2>6, <3>1 DEF SessionOK
  <2>9. Rest'
    BY <2>0, <2>2 DEF Rest, IInv, TypeOK
  <2>10. Sworn
    <3>1. ch'["server"] = e
      BY <2>2 DEF Step, IInv, TypeOK, Peers, e
    <3> QED BY <2>3, <2>6, <3>1 DEF Sworn
  <2> QED BY <1>0, <2>2, <2>7, <2>8, <2>9, <2>10, StepKeeps DEF e
<1> QED BY <1>1, <1>2, <1>3

\* The invariant holds at the start ...
LEMMA Initially == ASSUME Init PROVE IInv
<1> DEFINE c == ch["client"]
           s == ch["server"]
           det == IF IsSession THEN [user |-> "client", close |-> DetachClose] ELSE NoUser
           n == NewChannel("opening", WindowMax, IF IsSession THEN "write" ELSE "ignore", det)
<1>1. /\ ch = [p \in Peers |-> IF p = "client" THEN ClientChannel
                               ELSE NewChannel("none", 0, "ignore", NoUser)]
      /\ c = ClientChannel /\ s = NewChannel("none", 0, "ignore", NoUser)
  BY DEF Init, Peers
<1>2. /\ det \in [user : {"none", "client", "session"}, close : BOOLEAN] /\ det.user # "session"
      /\ NoUser \in [user : {"none", "client", "session"}, close : BOOLEAN] /\ NoUser.user = "none"
      /\ WindowMax \in Nat /\ {"opening", "none"} \subseteq Types /\ "open" \in States
      /\ IsSession \in BOOLEAN
      /\ (IF IsSession THEN "write" ELSE "ignore") \in {"ignore", "read", "write"}
  BY FlagAssumption, SizeAssumption DEF NoUser, Types, States, IsSession
<1>3. /\ s \in ChannelRecord /\ s.type = "none" /\ s.flags = {} /\ s.out = <<>>
      /\ s.istate = "open" /\ s.ostate = "open" /\ s.detach = NoUser
  <2> HIDE DEF s
  <2>1. <<>> \in Seq(Packet) /\ {} \in SUBSET Flags /\ 0 \in Nat
    BY EmptySeq
  <2> QED BY <1>1, <1>2, <2>1 DEF NewChannel, ChannelRecord
<1>4. /\ n \in ChannelRecord /\ n.type = "opening" /\ n.flags = {} /\ n.out = <<>>
      /\ n.istate = "open" /\ n.ostate = "open" /\ n.detach = det
  <2> HIDE DEF det
  <2> QED BY <1>2 DEF NewChannel, ChannelRecord
<1>5. c = [Send(n, "OPEN", WindowMax) EXCEPT !.efd = IsSession]
  BY <1>1 DEF ClientChannel
<1> HIDE DEF n, c, s, det
<1>6. /\ c \in ChannelRecord /\ c.type = "opening" /\ c.flags = {} /\ c.istate = "open"
      /\ c.ostate = "open" /\ c.detach = det /\ c.out = Append(<<>>, Pkt("OPEN", WindowMax))
  <2> DEFINE u == Send(n, "OPEN", WindowMax)
  <2>1. Append(<<>>, Pkt("OPEN", WindowMax)) \in Seq(Packet)
    BY <1>2, EmptySeq, AppendProperties DEF Pkt, Packet, PacketTypes
  <2>2. u = [n EXCEPT !.out = Append(<<>>, Pkt("OPEN", WindowMax))]
    BY <1>4 DEF Send
  <2>3. /\ u \in ChannelRecord /\ u.type = "opening" /\ u.flags = {} /\ u.istate = "open"
        /\ u.ostate = "open" /\ u.detach = det /\ u.out = Append(<<>>, Pkt("OPEN", WindowMax))
    BY <1>4, <2>1, <2>2 DEF ChannelRecord
  <2> HIDE DEF u
  <2>4. c = [u EXCEPT !.efd = IsSession]
    BY <1>5 DEF u
  <2> QED BY <1>2, <2>3, <2>4 DEF ChannelRecord
<1>7. Len(c.out) = 1 /\ c.out[1].t = "OPEN"
  BY <1>6 DEF Pkt
<1>8. Sane(c) /\ Sane(s)
  BY <1>3, <1>6 DEF Sane
<1>9. LinkOK(c, s) /\ LinkOK(s, c)
  BY <1>3, <1>6, <1>7, OpenLink DEF OpenTypes
<1>10. Phase(c, s)
  BY <1>3, <1>6, <1>7 DEF Phase, Asked
<1>11. SessionOK(c, s, child)
  BY <1>2, <1>3, <1>6 DEF SessionOK, Init
<1>12. TypeOK /\ NoFault
  <2>1. ch \in [Peers -> ChannelRecord]
    BY <1>1, <1>3, <1>6 DEF c, s
  <2>2. moved \in [rd : [Peers -> Nat], wr : [Peers -> Nat], erd : Nat, ewr : Nat, told : Nat,
                   exit : BOOLEAN, lossy : BOOLEAN]
    BY DEF Init
  <2> QED BY <2>1, <2>2 DEF Init, TypeOK, NoFault
<1>13. \A p \in Peers : Sane(ch[p]) /\ LinkOK(ch[p], ch[Other(p)])
  BY <1>8, <1>9 DEF c, s, Peers, Other
<1> QED BY <1>10, <1>11, <1>12, <1>13 DEF IInv, c, s

\* ... and every step keeps it ...
LEMMA Inductive == ASSUME IInv, [Next]_vars PROVE Kept
<1>0. "client" \in Peers /\ "server" \in Peers
  BY DEF Peers
<1>1. CASE UNCHANGED vars
  <2>1. IInv'
    BY <1>1 DEF vars, IInv, TypeOK, NoFault
  <2>2. CloseStep
    BY <1>1, SameHandshake DEF vars, Up
  <2> QED BY <1>1, <2>1, <2>2 DEF Kept, ExitStep, Sworn, vars
<1>2. CASE DispatchClient
  BY <1>0, <1>2, KeepDispatch, KeepClient, KeepConfirmation, KeepOpenFailure DEF DispatchClient
<1>3. CASE DispatchServer
  BY <1>0, <1>3, KeepDispatch, KeepServerOpen, KeepX11, KeepExec DEF DispatchServer
<1>4. CASE \E p \in Peers : \/ ChannelOutputPoll(p)
                            \/ \E r, w, x \in IOResults : HandleOpen(p, r, w, x)
                            \/ HandleOther(p)
                            \/ HandleExpired(p)
  BY <1>4, KeepHandlers, KeepHandleOpen
<1>5. CASE HandleConnecting \/ ChildExit \/ CollectChildren \/ MuxClientGone
  BY <1>0, <1>5, KeepConnecting, KeepChild, KeepHandlers
<1> QED BY <1>1, <1>2, <1>3, <1>4, <1>5 DEF Next

\* ... so it always holds.
LEMMA Invariant == Spec => []IInv
<1>1. IInv /\ [Next]_vars => IInv'
  BY Inductive DEF Kept
<1> QED BY <1>1, Initially, PTL DEF Spec

\* Type correctness: no buffer length or window ever goes below zero, where
\* the code's unsigned counters would wrap around.
THEOREM TypeCorrect == Spec => []TypeOK
BY Invariant, PTL DEF IInv

\* No disconnect and no fatal() between two OpenSSH ends, whatever the order
\* of their steps: channel_from_packet_id always finds its channel, data never
\* follow EOF, and session_exit_message finds the channel of its session.
THEOREM FaultFree == Spec => []NoFault
BY Invariant, PTL DEF IInv

\* CLOSE is the last packet queued on a channel and EOF the last of its data.
THEOREM Quiet == Spec => []QuietAfterClose
<1>1. IInv => QuietAfterClose
  BY DEF IInv, LinkOK, QuietAfterClose, DataTypes
<1> QED BY <1>1, Invariant, PTL

\* A channel that was in use is freed only when both CLOSE messages have
\* crossed and nothing for it can still arrive.
THEOREM FreedClosed == Spec => []FreedAfterClose
<1>1. IInv => FreedAfterClose
  <2>1. SUFFICES ASSUME IInv, NEW p \in Peers, ch[p].type = "freed", ch[p].flags # {}
                 PROVE  BothClosed(ch[p]) /\ ch[Other(p)].out = <<>>
    BY DEF FreedAfterClose, BothClosed
  <2>2. Established(ch["client"], ch["server"])
    BY <2>1 DEF IInv, Phase, Asked, Refused, Dialing, Confirming, Peers
  <2>3. BothClosed(ch[p])
    BY <2>1, <2>2 DEF Established, Peers
  <2>4. LinkOK(ch[Other(p)], ch[p])
    BY <2>1, TwoPeers DEF IInv
  <2> QED BY <2>3, <2>4 DEF LinkOK, BothClosed
<1> QED BY <1>1, Invariant, PTL

\* At the start nothing of the close handshake has happened.
LEMMA InitMaps == ASSUME Init PROVE Close!Init
<1> DEFINE det == IF IsSession THEN [user |-> "client", close |-> DetachClose] ELSE NoUser
           ext == IF IsSession THEN "write" ELSE "ignore"
<1>1. ch["client"] = ClientChannel /\ ch["server"] = NewChannel("none", 0, "ignore", NoUser)
  BY DEF Init, Peers
<1>2. ClientChannel = [Send(NewChannel("opening", WindowMax, ext, det), "OPEN", WindowMax) EXCEPT !.efd = IsSession]
  BY DEF ClientChannel
<1> HIDE DEF det, ext
<1>3. ch["client"].flags = {} /\ ch["client"].type = "opening"
  BY <1>1, <1>2 DEF Send, NewChannel
<1>4. ch["server"].flags = {} /\ ch["server"].type = "none"
  BY <1>1 DEF NewChannel
<1> QED BY <1>3, <1>4 DEF Close!Init, Peers, Has

\* The channel code of the two ends implements the close handshake: with the
\* flags and types of the channels read as ChannelClose's sets, every handler
\* is one of its steps or none (chan_send_close2 once, chan_rcvd_oclose
\* answered, channel_garbage_collect only when both CLOSEs have crossed).
THEOREM ImplementsClose == Spec => CloseHandshake
<1>1. Init => Close!Init
  BY InitMaps
<1>2. IInv /\ [Next]_vars => [Close!Next]_(Close!cvars)
  BY Inductive DEF Kept, CloseStep
<1> QED BY <1>1, <1>2, Invariant, PTL DEF Spec, CloseHandshake, Close!Spec

----------------------------------------------------------------------------
(* The exit status.                                                        *)

\* Unless the client gave up, the session stays with its channel while the
\* child is there, and once it is reaped its status is known or on its way.
ExitInv ==
    ~moved.lossy =>
        /\ child \in {"running", "exited"} => ch["server"].detach.user = "session"
        /\ child = "reaped" => moved.exit \/ Exits(ch["server"].out)

\* What was lost or learnt stays so.
LEMMA MovedGrows ==
    ASSUME IInv, [Next]_vars
    PROVE  (moved.lossy => moved'.lossy) /\ (moved.exit => moved'.exit)
<1>0. moved \in [rd : [Peers -> Nat], wr : [Peers -> Nat], erd : Nat, ewr : Nat, told : Nat,
                 exit : BOOLEAN, lossy : BOOLEAN]
  BY DEF IInv, TypeOK
<1>1. ASSUME moved' = moved PROVE (moved.lossy => moved'.lossy) /\ (moved.exit => moved'.exit)
  BY <1>1
<1>2. ASSUME NEW b, moved' = [moved EXCEPT !.lossy = b], moved.lossy => b
      PROVE  (moved.lossy => moved'.lossy) /\ (moved.exit => moved'.exit)
  BY <1>0, <1>2
<1>3. ASSUME NEW b, moved' = [moved EXCEPT !.exit = b], moved.exit => b
      PROVE  (moved.lossy => moved'.lossy) /\ (moved.exit => moved'.exit)
  BY <1>0, <1>3
<1>4. ASSUME NEW p \in Peers, NEW r \in IOResults, NEW w \in IOResults, NEW x \in IOResults, HandleOpen(p, r, w, x)
      PROVE  (moved.lossy => moved'.lossy) /\ (moved.exit => moved'.exit)
  <2>1. moved' = Moved(p, r, w, x)
    BY <1>4 DEF HandleOpen
  <2>2. Moved(p, r, w, x).lossy = (moved.lossy \/ (p = "client" /\ Failed \in {w, x}))
        /\ Moved(p, r, w, x).exit = moved.exit
    BY <1>0 DEF Moved
  <2> QED BY <2>1, <2>2
<1>5. CASE UNCHANGED vars
  BY <1>1, <1>5 DEF vars
<1>6. CASE DispatchClient
  <2>1. CASE InputStatusConfirm
    <3>1. PICK t, text, f, d, b, k : Answering(t, text, f, d, b, k)
      BY <2>1, Confirmed, Zenon
    <3>2. moved' = [moved EXCEPT !.lossy = b, !.told = k] /\ (moved.lossy => b)
      BY <3>1 DEF Answering
    <3> QED BY <1>0, <3>2
  <2>2. CASE InputExitStatus
    BY <1>3, <2>2 DEF InputExitStatus
  <2> QED BY <1>1, <1>6, <2>1, <2>2 DEF DispatchClient, Dispatch, InputData, InputIeof, InputOclose,
       InputWindowAdjust, InputEow, InputExtendedData, InputOpenConfirmation, InputOpenFailure
<1>7. CASE DispatchServer
  BY <1>1, <1>7 DEF DispatchServer, Dispatch, InputData, InputIeof, InputOclose,
       InputWindowAdjust, InputEow, ServerInputChannelOpen, SessionX11Req, SessionInputChannelReq
<1>8. CASE HandleConnecting \/ ChildExit \/ CollectChildren
  BY <1>1, <1>8 DEF HandleConnecting, ChildExit, CollectChildren
<1>9. CASE MuxClientGone \/ \E p \in Peers : HandleExpired(p)
  BY <1>2, <1>9 DEF MuxClientGone, HandleExpired
<1>10. CASE \E p \in Peers : ChannelOutputPoll(p) \/ HandleOther(p)
  BY <1>1, <1>10 DEF ChannelOutputPoll, HandleOther
<1> QED BY <1>4, <1>5, <1>6, <1>7, <1>8, <1>9, <1>10 DEF Next

\* Starting and reaping the child.
LEMMA ChildSteps ==
    ASSUME IInv, [Next]_vars, child' # child
    PROVE  \/ ChildExit
           \/ CollectChildren
           \/ child' = "running" /\ ch'["server"].detach.user = "session"
<1>1. CASE SessionInputChannelReq
  <2> DEFINE c == ch["server"]
             o == [Send(c, "ADJUST", WindowMax) EXCEPT
                     !.type = "open", !.lwin = WindowMax, !.efd = (Kind = "session"),
                     !.extusage = IF Kind = "session" THEN "read" ELSE "ignore"]
  <2>0. "server" \in Peers /\ Receives("server", "EXEC") /\ "EXEC" \in PacketTypes \ OpenTypes
    BY <1>1 DEF SessionInputChannelReq, Peers, PacketTypes, OpenTypes
  <2>1. Live("server") /\ c \in ChannelRecord
    BY <2>0, Received DEF IInv, Sane
  <2>2. PICK granted \in BOOLEAN :
          LET ok == granted /\ c.type = "larval" /\ c.detach.user = "session"
              d == IF ok THEN o ELSE c
          IN  /\ ForChannel("server", Replied(d, IF ok THEN "SUCCESS" ELSE "FAILURE"))
              /\ child' = IF ok THEN "running" ELSE child
    BY <1>1 DEF SessionInputChannelReq
  <2>3. granted /\ c.type = "larval" /\ c.detach.user = "session" /\ child' = "running"
    BY <2>2
  <2> DEFINE e == Replied(o, "SUCCESS")
  <2>4. Handled("server", e, "none")
    BY <2>1, <2>2, <2>3 DEF ForChannel, Outcome
  <2>5. o.detach = c.detach
    BY <2>1 DEF Send, ChannelRecord
  <2>6. Send(o, "SUCCESS", 0).detach = o.detach
    <3> HIDE DEF o
    <3> QED BY DEF Send
  <2>7. e.detach = c.detach
    BY <2>5, <2>6 DEF Replied
  <2> HIDE DEF e
  <2>8. ch'["server"] = e
    BY <2>0, <2>4, HandledCh DEF Receives
  <2> QED BY <2>3, <2>7, <2>8
<1>2. CASE ~SessionInputChannelReq /\ ~ChildExit /\ ~CollectChildren
  <2>1. ~DispatchClient
    BY DEF DispatchClient, Dispatch, InputData, InputIeof, InputOclose, InputWindowAdjust, InputEow,
           InputExtendedData, InputOpenConfirmation, InputOpenFailure, InputStatusConfirm, InputExitStatus
  <2>2. ~DispatchServer
    BY <1>2 DEF DispatchServer, Dispatch, InputData, InputIeof, InputOclose,
           InputWindowAdjust, InputEow, ServerInputChannelOpen, SessionX11Req
  <2> QED BY <1>2, <2>1, <2>2 DEF Next, vars, HandleConnecting, MuxClientGone, ChannelOutputPoll,
           HandleOther, HandleExpired, HandleOpen
<1> QED BY <1>1, <1>2

\* session_exit_message puts the status in the link.
LEMMA StatusSent ==
    ASSUME IInv, CollectChildren, ch["server"].detach.user = "session"
    PROVE  Exits(ch'["server"].out)
<1> DEFINE c == ch["server"]
           u == Send(c, "EXIT", 0)
           d == [u EXCEPT !.detach.close = TRUE]
<1>1. /\ c \in ChannelRecord /\ SessionOK(ch["client"], c, child) /\ child = "exited" /\ "server" \in Peers
  BY DEF IInv, Sane, Peers, CollectChildren
<1>2. c.type = "open"
  BY <1>1 DEF SessionOK
<1>3. ch' = [ch EXCEPT !["server"] = chan_write_failed(d)]
  BY <1>2 DEF CollectChildren, Live, Step
<1>4. d.out = Append(c.out, Pkt("EXIT", 0)) /\ c.out \in Seq(Packet)
  BY <1>1 DEF Send, ChannelRecord
<1> DEFINE n == Len(c.out) + 1
<1>5. Len(d.out) = n /\ d.out[n].t = "EXIT" /\ d.out \in Seq(Packet) /\ n \in Nat
  <2>1. Pkt("EXIT", 0) \in Packet /\ Pkt("EXIT", 0).t = "EXIT"
    BY DEF Pkt, Packet, PacketTypes
  <2> HIDE DEF d
  <2> QED BY <1>4, <2>1, AppendProperties
<1> HIDE DEF d, u, n
<1>6. Exits(d.out)
  <2>1. n \in 1..Len(d.out)
    BY <1>5 DEF n
  <2> QED BY <1>5, <2>1 DEF Exits
<1>7. \/ chan_write_failed(d).out = d.out
      \/ chan_write_failed(d).out = Append(d.out, Pkt("EOW", 0))
  <2>1. d = [u EXCEPT !.detach.close = TRUE]
    BY DEF d
  <2>2. /\ DOMAIN u = DOMAIN c /\ DOMAIN d = DOMAIN u
        /\ "out" \in DOMAIN d /\ "output" \in DOMAIN d /\ "ostate" \in DOMAIN d
    BY <1>1 DEF d, u, Send, ChannelRecord
  <2> QED BY <2>2 DEF chan_write_failed, Send
<1>8. Exits(chan_write_failed(d).out)
  <2>1. CASE chan_write_failed(d).out = Append(d.out, Pkt("EOW", 0))
    <3> DEFINE z == Append(d.out, Pkt("EOW", 0))
    <3>1. Pkt("EOW", 0) \in Packet
      BY DEF Pkt, Packet, PacketTypes
    <3>2. Len(z) = Len(d.out) + 1 /\ \A i \in 1..Len(d.out) : z[i] = d.out[i]
      BY <1>5, <3>1, AppendProperties
    <3> HIDE DEF z
    <3>3. Exits(z)
      BY <1>5, <1>6, <3>2 DEF Exits
    <3> QED BY <2>1, <3>3 DEF z
  <2> QED BY <1>6, <1>7, <2>1
<1>9. ch'["server"] = chan_write_failed(d)
  BY <1>1, <1>3 DEF IInv, TypeOK
<1> QED BY <1>8, <1>9

\* Every step keeps it.
LEMMA ExitKeeps ==
    ASSUME IInv, ExitInv, [Next]_vars
    PROVE  ExitInv'
<1>1. SUFFICES ASSUME ~moved'.lossy
               PROVE  /\ child' \in {"running", "exited"} => ch'["server"].detach.user = "session"
                      /\ child' = "reaped" => moved'.exit \/ Exits(ch'["server"].out)
  BY DEF ExitInv
<1>2. /\ (child \in {"running", "exited"} => ch["server"].detach.user = "session")
      /\ (child = "reaped" => moved.exit \/ Exits(ch["server"].out))
      /\ (moved.exit => moved'.exit)
  BY <1>1, MovedGrows DEF ExitInv
<1>3. ExitStep /\ Sworn
  BY Inductive DEF Kept
<1>4. CASE child' = child
  BY <1>1, <1>2, <1>3, <1>4 DEF ExitStep, Sworn, HasChild
<1>5. CASE child' # child
  <2>1. CASE ChildExit
    BY <1>2, <2>1 DEF ChildExit
  <2>2. CASE CollectChildren
    BY <1>2, <2>2, StatusSent DEF CollectChildren
  <2> QED BY <1>5, <2>1, <2>2, ChildSteps
<1> QED BY <1>4, <1>5

\* ssh learns the exit status of its command before the channel closes:
\* session_close_by_channel holds the channel until the child was reaped and
\* session_exit_message has sent the status, which CLOSE cannot overtake.
THEOREM StatusBeforeClose == Spec => []ExitStatusBeforeClose
<1>1. Init => ExitInv
  BY DEF Init, ExitInv
<1>2. IInv /\ ExitInv /\ [Next]_vars => ExitInv'
  BY ExitKeeps
<1>3. IInv /\ ExitInv => ExitStatusBeforeClose
  <2> SUFFICES ASSUME IInv, ExitInv, child # "none", "CLOSE_RCVD" \in ch["client"].flags, ~moved.lossy
               PROVE  moved.exit
    BY DEF ExitStatusBeforeClose, Has
  <2>1. "CLOSE_SENT" \in ch["server"].flags /\ ch["server"].out = <<>>
    BY DEF IInv, LinkOK, Peers, Other
  <2>2. child \notin {"running", "exited"}
    BY <2>1 DEF IInv, SessionOK, ExitInv
  <2>3. child = "reaped"
    BY <2>2 DEF IInv, TypeOK
  <2> QED BY <2>1, <2>3 DEF ExitInv, Exits
<1> QED BY <1>1, <1>2, <1>3, Invariant, PTL DEF Spec

----------------------------------------------------------------------------
(* Bytes in a link.                                                        *)

\* Induction over the natural numbers, for sets.
LEMMA SetInduction ==
    ASSUME NEW T, T \subseteq Nat, 0 \in T, \A n \in Nat : n \in T => n + 1 \in T
    PROVE  T = Nat
<1> SUFFICES ASSUME Nat \ T # {} PROVE FALSE
  OBVIOUS
<1> DEFINE R == {ss \in Nat \X Nat : ss[1] < ss[2]}
<1>1. IsWellFoundedOn(R, Nat)
  BY NatLessThanWellFounded DEF OpToRel
<1>2. Nat \ T \subseteq Nat
  OBVIOUS
<1> HIDE DEF R
<1>3. PICK x \in Nat \ T : \A y \in Nat \ T : ~(<<y, x>> \in R)
  BY <1>1, <1>2, WFMin
<1>4. x # 0 /\ x - 1 \in Nat /\ x - 1 < x /\ (x - 1) + 1 = x
  OBVIOUS
<1>5. x - 1 \notin T
  BY <1>4
<1>6. <<x - 1, x>> \in R
  BY <1>4 DEF R
<1> QED BY <1>3, <1>4, <1>5, <1>6

\* What a packet counts for.
Weight(m, types) == IF m.t \in types THEN m.n ELSE 0

\* f sums up the first n packets of s.
Adds(f, s, types, n) == f[0] = 0 /\ \A i \in 1..n : f[i] = f[i - 1] + Weight(s[i], types)
\* f adds up the first n packets of s.
IsSum(f, s, types, n) == f \in [0..n -> Nat] /\ Adds(f, s, types, n)

\* Sizes are not negative.
LEMMA WeightNat == ASSUME NEW m \in Packet, NEW types PROVE Weight(m, types) \in Nat
BY DEF Weight, Packet

\* The sum with one more packet that counts for k.
Longer(f, n, k) == [i \in 0..(n + 1) |-> IF i = n + 1 THEN f[n] + k ELSE f[i]]

\* What g, f made longer by one packet of k bytes, is worth.
LongerSum(g, f, n, k) == g \in [0..(n + 1) -> Nat] /\ g[n + 1] = f[n] + k /\ g[n] = f[n]

\* It is one more sum.
LEMMA SumGrows ==
    ASSUME NEW s, NEW types, NEW n \in Nat, NEW f, IsSum(f, s, types, n), NEW k \in Nat
    PROVE  LongerSum(Longer(f, n, k), f, n, k) /\ Adds(Longer(f, n, k), s, types, n)
<1> DEFINE g == Longer(f, n, k)
<1>1. f \in [0..n -> Nat] /\ f[0] = 0 /\ \A i \in 1..n : f[i] = f[i - 1] + Weight(s[i], types)
  BY DEF IsSum, Adds
<1>2. g[n + 1] = f[n] + k /\ \A i \in 0..n : g[i] = f[i]
  BY DEF Longer
<1>3. g \in [0..(n + 1) -> Nat]
  <2>1. f[n] + k \in Nat
    BY <1>1
  <2> QED BY <1>1, <2>1 DEF Longer
<1>4. \A i \in 1..n : i \in 0..n /\ i - 1 \in 0..n
  OBVIOUS
<1> HIDE DEF g
<1>5. 0 \in 0..n /\ n \in 0..n
  OBVIOUS
<1>6. \A i \in 1..n : g[i] = g[i - 1] + Weight(s[i], types)
  BY <1>1, <1>2, <1>4
<1> QED BY <1>1, <1>2, <1>3, <1>5, <1>6 DEF g, LongerSum, Adds

\* Every link has a sum.
LEMMA SumExists ==
    ASSUME NEW s \in Seq(Packet), NEW types
    PROVE  \E f : IsSum(f, s, types, Len(s))
<1> DEFINE T == {n \in Nat : n <= Len(s) => \E f : IsSum(f, s, types, n)}
<1>1. 0 \in T
  <2>1. IsSum([i \in 0..0 |-> 0], s, types, 0)
    BY DEF IsSum, Adds
  <2> QED BY <2>1
<1>2. ASSUME NEW n \in Nat, n \in T PROVE n + 1 \in T
  <2> SUFFICES ASSUME n + 1 <= Len(s) PROVE \E f : IsSum(f, s, types, n + 1)
    OBVIOUS
  <2>1. PICK f : IsSum(f, s, types, n)
    BY <1>2
  <2> DEFINE k == Weight(s[n + 1], types)
             g == Longer(f, n, k)
  <2>2. s[n + 1] \in Packet
    OBVIOUS
  <2>3. k \in Nat
    BY <2>2, WeightNat
  <2> HIDE DEF k
  <2>4. LongerSum(g, f, n, k) /\ Adds(g, s, types, n)
    BY ONLY n \in Nat, <2>1, <2>3, SumGrows
  <2> HIDE DEF g
  <2>5. /\ g \in [0..(n + 1) -> Nat] /\ g[0] = 0 /\ g[n + 1] = f[n] + k /\ g[n] = f[n]
        /\ \A i \in 1..n : g[i] = g[i - 1] + Weight(s[i], types)
    BY <2>4 DEF LongerSum, Adds
  <2>6. \A i \in 1..(n + 1) : g[i] = g[i - 1] + Weight(s[i], types)
    <3> TAKE i \in 1..(n + 1)
    <3>1. CASE i = n + 1
      <4>1. i - 1 = n
        BY <3>1
      <4> QED BY <2>5, <3>1, <4>1 DEF k
    <3>2. CASE i # n + 1
      <4>1. i \in 1..n
        BY <3>2
      <4> QED BY <2>5, <4>1
    <3> QED BY <3>1, <3>2
  <2>7. IsSum(g, s, types, n + 1)
    BY <2>5, <2>6 DEF IsSum, Adds
  <2> QED BY <2>7
<1>3. T = Nat
  <2> HIDE DEF T
  <2>1. T \subseteq Nat
    BY DEF T
  <2> QED BY <1>1, <1>2, <2>1, SetInduction
<1>4. Len(s) \in Nat /\ Len(s) <= Len(s)
  OBVIOUS
<1> QED BY <1>3, <1>4

\* Sums of the same packets are the same.
LEMMA SumUnique ==
    ASSUME NEW s, NEW types, NEW n \in Nat, NEW f, IsSum(f, s, types, n),
           NEW g, Adds(g, s, types, n)
    PROVE  \A i \in 0..n : g[i] = f[i]
<1> DEFINE T == {i \in Nat : i <= n => g[i] = f[i]}
<1>1. 0 \in T
  BY DEF IsSum, Adds
<1>2. ASSUME NEW i \in Nat, i \in T PROVE i + 1 \in T
  <2> SUFFICES ASSUME i + 1 <= n PROVE g[i + 1] = f[i + 1]
    OBVIOUS
  <2>1. i + 1 \in 1..n /\ (i + 1) - 1 = i /\ g[i] = f[i]
    BY <1>2
  <2> QED BY <2>1 DEF IsSum, Adds
<1>3. T = Nat
  <2> HIDE DEF T
  <2>1. T \subseteq Nat
    BY DEF T
  <2> QED BY <1>1, <1>2, <2>1, SetInduction
<1> QED BY <1>3

\* What Carried computes is that sum.
LEMMA CarriedIs ==
    ASSUME NEW s \in Seq(Packet), NEW types, NEW f, IsSum(f, s, types, Len(s))
    PROVE  Carried(s, types) = f[Len(s)]
<1> DEFINE n == Len(s)
           sum == CHOOSE h : h = [i \in 0..n |-> IF i = 0 THEN 0 ELSE h[i - 1] + (IF s[i].t \in types THEN s[i].n ELSE 0)]
<1>1. n \in Nat
  OBVIOUS
<1>2. f = [i \in 0..n |-> IF i = 0 THEN 0 ELSE f[i - 1] + (IF s[i].t \in types THEN s[i].n ELSE 0)]
  <2>1. f \in [0..n -> Nat] /\ f[0] = 0 /\ \A i \in 1..n : f[i] = f[i - 1] + Weight(s[i], types)
    BY DEF IsSum, Adds
  <2>2. \A i \in 0..n : f[i] = IF i = 0 THEN 0 ELSE f[i - 1] + (IF s[i].t \in types THEN s[i].n ELSE 0)
    BY <1>1, <2>1 DEF Weight
  <2> QED BY <2>1, <2>2
<1>3. sum = [i \in 0..n |-> IF i = 0 THEN 0 ELSE sum[i - 1] + (IF s[i].t \in types THEN s[i].n ELSE 0)]
  BY <1>2
<1>4. Carried(s, types) = sum[n]
  BY DEF Carried
<1> HIDE DEF sum
<1>5. Adds(sum, s, types, n)
  BY <1>1, <1>3 DEF Weight, Adds
<1>6. \A i \in 0..n : sum[i] = f[i]
  <2>1. IsSum(f, s, types, n)
    OBVIOUS
  <2> HIDE DEF n
  <2> QED BY ONLY <1>1, <1>5, <2>1, SumUnique
<1>7. n \in 0..n
  BY <1>1
<1> QED BY <1>4, <1>6, <1>7

\* The bytes in a link are counted by a natural number: none in an empty
\* link, one more packet's when it is queued, one less when it is taken.
LEMMA CarriedNat ==
    ASSUME NEW s \in Seq(Packet), NEW types PROVE Carried(s, types) \in Nat
<1>1. PICK f : IsSum(f, s, types, Len(s))
  BY SumExists
<1>2. Len(s) \in 0..Len(s)
  OBVIOUS
<1> QED BY <1>1, <1>2, CarriedIs DEF IsSum, Adds

\* An empty link carries nothing.
LEMMA CarriedEmpty == \A types : Carried(<<>>, types) = 0
<1> TAKE types
<1>0. <<>> \in Seq(Packet) /\ Len(<<>>) = 0
  BY EmptySeq
<1>1. PICK f : IsSum(f, <<>>, types, Len(<<>>))
  BY <1>0, SumExists
<1> QED BY <1>0, <1>1, CarriedIs DEF IsSum, Adds

\* One more packet adds its bytes to the link.
LEMMA CarriedAppend ==
    ASSUME NEW s \in Seq(Packet), NEW m \in Packet, NEW types
    PROVE  Carried(Append(s, m), types) = Carried(s, types) + Weight(m, types)
<1> DEFINE n == Len(s)
           z == Append(s, m)
           k == Weight(m, types)
<1>1. n \in Nat /\ k \in Nat /\ z \in Seq(Packet) /\ Len(z) = n + 1 /\ z[n + 1] = m /\ \A i \in 1..n : z[i] = s[i]
  BY WeightNat, AppendProperties
<1> HIDE DEF n, z, k
<1>2. PICK f : IsSum(f, s, types, n)
  BY SumExists DEF n
<1> DEFINE g == Longer(f, n, k)
<1>3. LongerSum(g, f, n, k) /\ Adds(g, s, types, n)
  BY ONLY <1>1, <1>2, SumGrows
<1> HIDE DEF g
<1>4. /\ g \in [0..(n + 1) -> Nat] /\ g[0] = 0 /\ g[n + 1] = f[n] + k /\ g[n] = f[n]
      /\ \A i \in 1..n : g[i] = g[i - 1] + Weight(s[i], types)
  BY <1>3 DEF LongerSum, Adds
<1>5. \A i \in 1..(n + 1) : g[i] = g[i - 1] + Weight(z[i], types)
  <2> TAKE i \in 1..(n + 1)
  <2>1. CASE i = n + 1
    <3>1. i - 1 = n
      BY <1>1, <2>1
    <3> QED BY <1>1, <1>4, <2>1, <3>1 DEF k
  <2>2. CASE i # n + 1
    <3>1. i \in 1..n
      BY <1>1, <2>2
    <3> QED BY <1>1, <1>4, <3>1
  <2> QED BY <2>1, <2>2
<1>6. IsSum(g, z, types, n + 1)
  BY <1>4, <1>5 DEF IsSum, Adds
<1>7. Carried(z, types) = g[n + 1] /\ Carried(s, types) = f[n]
  BY <1>1, <1>2, <1>6, CarriedIs DEF n
<1> QED BY <1>4, <1>7 DEF z, k

\* Taking the first packet takes its bytes from the link.
LEMMA CarriedTail ==
    ASSUME NEW s \in Seq(Packet), s # <<>>, NEW types
    PROVE  Carried(s, types) = Weight(Head(s), types) + Carried(Tail(s), types)
<1> DEFINE n == Len(s)
           u == Tail(s)
           k == Weight(s[1], types)
<1>1. /\ n \in Nat /\ n >= 1 /\ u \in Seq(Packet) /\ Len(u) = n - 1 /\ Head(s) = s[1] /\ s[1] \in Packet
      /\ \A i \in 1..(n - 1) : u[i] = s[i + 1]
  BY HeadTailProperties
<1>2. k \in Nat
  BY <1>1, WeightNat
<1> HIDE DEF n, u, k
<1>3. PICK h : IsSum(h, u, types, n - 1)
  BY <1>1, SumExists
<1>4. h \in [0..(n - 1) -> Nat] /\ h[0] = 0 /\ \A i \in 1..(n - 1) : h[i] = h[i - 1] + Weight(u[i], types)
  BY <1>3 DEF IsSum, Adds
<1> DEFINE g == [i \in 0..n |-> IF i = 0 THEN 0 ELSE k + h[i - 1]]
<1>5. g[0] = 0 /\ \A i \in 1..n : g[i] = k + h[i - 1]
  BY <1>1
<1>6. g \in [0..n -> Nat]
  BY <1>1, <1>2, <1>4
<1> HIDE DEF g
<1>7. \A i \in 1..n : g[i] = g[i - 1] + Weight(s[i], types)
  <2> TAKE i \in 1..n
  <2>1. CASE i = 1
    <3>1. g[1] = k + h[0] /\ g[0] = 0 /\ h[0] = 0
      BY <1>1, <1>4, <1>5
    <3>2. g[1] = g[0] + Weight(s[1], types)
      BY <1>2, <3>1 DEF k
    <3> QED BY <2>1, <3>2
  <2>2. CASE i # 1
    <3> DEFINE j == i - 1
    <3>1. j \in 1..n /\ j \in 1..(n - 1) /\ j + 1 = i /\ j - 1 \in 0..(n - 1)
      BY <1>1, <2>2
    <3> HIDE DEF j
    <3>2. g[i] = k + h[j] /\ g[j] = k + h[j - 1] /\ h[j] = h[j - 1] + Weight(u[j], types) /\ u[j] = s[i]
      <4>1. i - 1 = j
        BY DEF j
      <4> QED BY <1>1, <1>4, <1>5, <3>1, <4>1
    <3>3. Weight(s[i], types) \in Nat /\ h[j - 1] \in Nat
      <4>1. s[i] \in Packet
        BY DEF n
      <4> QED BY <1>4, <3>1, <4>1, WeightNat
    <3>4. g[i] = g[j] + Weight(s[i], types)
      BY <1>2, <3>2, <3>3
    <3> QED BY <3>4 DEF j
  <2> QED BY <2>1, <2>2
<1>8. IsSum(g, s, types, n)
  BY <1>5, <1>6, <1>7 DEF IsSum, Adds
<1>9. Carried(s, types) = g[n] /\ Carried(u, types) = h[n - 1]
  BY <1>1, <1>3, <1>8, CarriedIs DEF n
<1>10. g[n] = k + h[n - 1]
  BY <1>1, <1>5
<1> QED BY <1>1, <1>9, <1>10 DEF u, k

\* A link without such packets carries nothing.
LEMMA CarriedNone ==
    ASSUME NEW s \in Seq(Packet), NEW types, \A i \in 1..Len(s) : s[i].t \notin types
    PROVE  Carried(s, types) = 0
<1> DEFINE f == [i \in 0..Len(s) |-> 0]
<1>1. IsSum(f, s, types, Len(s))
  BY DEF IsSum, Adds, Weight
<1>2. Carried(s, types) = f[Len(s)]
  BY <1>1, CarriedIs
<1> QED BY <1>2

----------------------------------------------------------------------------
(* What the channel code makes of the four counters and the link.          *)

\* The packets that use up a window, and those that give it.
DataPackets == {"DATA", "EXT"}
CreditPackets == {"ADJUST", "CONFIRM", "OPEN"}

\* What the server sends at once, and whether it has stderr at all.
Bounded(s) ==
    \A i \in 1..Len(s) : /\ s[i].t = "DATA" => s[i].n <= MaxPacket
                         /\ s[i].t = "EXT" => IsSession
\* Nothing in a link says that its sender's output is closed.
NoEow(s) == \A i \in 1..Len(s) : s[i].t # "EOW"

\* The same bytes are in the link.
SameSums(c, d) ==
    /\ \A T \in {DataPackets, CreditPackets, {"DATA"}, {"EXT"}} : Carried(d.out, T) = Carried(c.out, T)
    /\ Bounded(c.out) => Bounded(d.out)

\* One more packet in the link of a channel.
LEMMA SendSums ==
    ASSUME NEW c \in ChannelRecord, NEW t \in PacketTypes, NEW n \in Nat
    PROVE  /\ Append(c.out, Pkt(t, n)) \in Seq(Packet)
           /\ \A T : Carried(Append(c.out, Pkt(t, n)), T) = Carried(c.out, T) + (IF t \in T THEN n ELSE 0)
           /\ Send(c, t, n) = [c EXCEPT !.out = Append(c.out, Pkt(t, n))]
           /\ Send(c, t, n) \in ChannelRecord
<1>1. c.out \in Seq(Packet) /\ Pkt(t, n) \in Packet /\ Pkt(t, n).t = t /\ Pkt(t, n).n = n
  BY DEF ChannelRecord, Pkt, Packet
<1>2. Append(c.out, Pkt(t, n)) \in Seq(Packet)
  BY <1>1, AppendProperties
<1>3. ASSUME NEW T PROVE Carried(Append(c.out, Pkt(t, n)), T) = Carried(c.out, T) + (IF t \in T THEN n ELSE 0)
  <2>1. Carried(Append(c.out, Pkt(t, n)), T) = Carried(c.out, T) + Weight(Pkt(t, n), T)
    BY <1>1, CarriedAppend
  <2> QED BY <1>1, <2>1 DEF Weight
<1>4. Send(c, t, n) = [c EXCEPT !.out = Append(c.out, Pkt(t, n))]
  BY DEF Send
<1> QED BY <1>2, <1>3, <1>4 DEF ChannelRecord

\* The packets that do neither.
Mute == PacketTypes \ (DataPackets \cup CreditPackets)

\* A packet of allowed size, or one that is no data.
LEMMA SendBounded ==
    ASSUME NEW s \in Seq(Packet), NEW m \in Packet
    PROVE  /\ Bounded(s) /\ (m.t = "DATA" => m.n <= MaxPacket) /\ (m.t = "EXT" => IsSession)
                => Bounded(Append(s, m))
           /\ NoEow(s) /\ m.t # "EOW" => NoEow(Append(s, m))
<1>1. /\ Len(Append(s, m)) = Len(s) + 1 /\ Append(s, m)[Len(s) + 1] = m
      /\ \A i \in 1..Len(s) : Append(s, m)[i] = s[i]
  BY AppendProperties
<1>2. \A i \in 1..(Len(s) + 1) : i \in 1..Len(s) \/ i = Len(s) + 1
  OBVIOUS
<1> QED BY <1>1, <1>2 DEF Bounded, NoEow

\* A packet that carries neither data nor credit.
LEMMA MuteSums ==
    ASSUME NEW c \in ChannelRecord, NEW d, NEW t \in Mute, NEW n \in Nat,
           d.out \in {c.out, Append(c.out, Pkt(t, n))}
    PROVE  SameSums(c, d)
<1>1. CASE d.out = c.out
  BY <1>1 DEF SameSums
<1>2. CASE d.out = Append(c.out, Pkt(t, n))
  <2>1. t \in PacketTypes /\ \A T \in {DataPackets, CreditPackets, {"DATA"}, {"EXT"}} : t \notin T
    BY DEF Mute, DataPackets
  <2>2. \A T : Carried(d.out, T) = Carried(c.out, T) + (IF t \in T THEN n ELSE 0)
    BY <1>2, <2>1, SendSums
  <2>3. \A T : Carried(c.out, T) \in Nat
    BY CarriedNat DEF ChannelRecord
  <2>4. Bounded(c.out) => Bounded(d.out)
    <3>1. c.out \in Seq(Packet) /\ Pkt(t, n) \in Packet /\ Pkt(t, n).t = t /\ t # "DATA" /\ t # "EXT"
      BY <2>1 DEF ChannelRecord, Pkt, Packet
    <3> QED BY <1>2, <3>1, SendBounded
  <2> QED BY <2>1, <2>2, <2>3, <2>4 DEF SameSums
<1> QED BY <1>1, <1>2

\* A channel that was never open.
FreshTypes == {"none", "larval", "opening", "connecting", "zombie"}
\* Or that was freed before it was.
Unused(c) == c.type \in FreshTypes \/ (c.type = "freed" /\ c.flags = {})

\* Code that moves no byte and gives no credit; it may drop what it buffers.
Quiescent(c, d) ==
    /\ d \in ChannelRecord
    /\ d.lwin = c.lwin /\ d.cons = c.cons /\ d.rwin = c.rwin
    /\ d.extended = c.extended /\ d.extusage = c.extusage
    /\ d.input <= c.input /\ d.output <= c.output
    /\ SameSums(c, d)
    /\ Unused(d) => Unused(c)
    /\ d.type \in {"none", "larval", "opening"} => d.type = c.type

\* Doing nothing is quiet, and so are two quiet pieces of code in turn.
LEMMA QuiescentRefl == ASSUME NEW c \in ChannelRecord PROVE Quiescent(c, c)
BY DEF Quiescent, SameSums, ChannelRecord

LEMMA QuiescentTrans ==
    ASSUME NEW c \in ChannelRecord, NEW d, NEW e, Quiescent(c, d), Quiescent(d, e)
    PROVE  Quiescent(c, e)
<1>1. c.input \in Nat /\ c.output \in Nat /\ d.input \in Nat /\ d.output \in Nat /\ e.input \in Nat /\ e.output \in Nat
  BY DEF Quiescent, ChannelRecord
<1>2. e.input <= c.input /\ e.output <= c.output
  <2>1. d.input <= c.input /\ d.output <= c.output /\ e.input <= d.input /\ e.output <= d.output
    BY DEF Quiescent
  <2> QED BY ONLY <1>1, <2>1
<1>3. SameSums(c, e)
  BY DEF Quiescent, SameSums
<1> QED BY <1>2, <1>3 DEF Quiescent

\* The same, where nothing is dropped either.
Still(c, d) ==
    /\ Quiescent(c, d)
    /\ d.input = c.input /\ d.output = c.output
    /\ NoEow(c.out) => NoEow(d.out)

\* The same of code that drops nothing.
LEMMA StillRefl == ASSUME NEW c \in ChannelRecord PROVE Still(c, c)
BY QuiescentRefl DEF Still

LEMMA StillTrans ==
    ASSUME NEW c \in ChannelRecord, NEW d, NEW e, Still(c, d), Still(d, e)
    PROVE  Still(c, e)
BY QuiescentTrans DEF Still

\* The parts of a record that such code may set.
LEMMA QuiescentBy ==
    ASSUME NEW c \in ChannelRecord, NEW d \in ChannelRecord,
           d.lwin = c.lwin, d.cons = c.cons, d.rwin = c.rwin, d.extended = c.extended, d.extusage = c.extusage,
           d.input \in {c.input, 0}, d.output \in {c.output, 0},
           NEW t \in Mute, NEW n \in Nat, d.out \in {c.out, Append(c.out, Pkt(t, n))},
           c.flags \subseteq d.flags, d.type \in {c.type, "abandoned"} \/ (d.type = "freed" /\ (d.flags # {} \/ c.type = "zombie"))
    PROVE  /\ Quiescent(c, d)
           /\ d.input = c.input /\ d.output = c.output /\ t # "EOW" => Still(c, d)
<1>1. SameSums(c, d)
  BY MuteSums
<1>2. c.input \in Nat /\ c.output \in Nat
  BY DEF ChannelRecord
<1>3. d.input <= c.input /\ d.output <= c.output
  BY <1>2
<1>4. (Unused(d) => Unused(c)) /\ (d.type \in {"none", "larval", "opening"} => d.type = c.type)
  BY DEF Unused, FreshTypes
<1>5. Quiescent(c, d)
  BY <1>1, <1>3, <1>4 DEF Quiescent
<1>6. NoEow(c.out) /\ t # "EOW" => NoEow(d.out)
  <2>1. c.out \in Seq(Packet) /\ Pkt(t, n) \in Packet /\ Pkt(t, n).t = t
    BY DEF ChannelRecord, Pkt, Packet, Mute
  <2> QED BY <2>1, SendBounded
<1> QED BY <1>5, <1>6 DEF Still

\* The single assignments of nchan.c.
LEMMA SmallUpdates ==
    ASSUME NEW c \in ChannelRecord
    PROVE  /\ \A i \in States : Still(c, [c EXCEPT !.istate = i]) /\ Still(c, [c EXCEPT !.ostate = i])
           /\ Still(c, [c EXCEPT !.efd = FALSE])
           /\ \A F \in SUBSET Flags : Still(c, [c EXCEPT !.flags = c.flags \cup F])
           /\ \A u \in [user : {"none", "client", "session"}, close : BOOLEAN] : Still(c, [c EXCEPT !.detach = u])
           /\ Still(c, [c EXCEPT !.type = "abandoned"])
           /\ c.flags # {} \/ c.type = "zombie" => Still(c, [c EXCEPT !.type = "freed"])
           /\ Quiescent(c, [c EXCEPT !.input = 0]) /\ Quiescent(c, [c EXCEPT !.output = 0])
           /\ \A t \in Mute : /\ Quiescent(c, Send(c, t, 0))
                              /\ t # "EOW" => Still(c, Send(c, t, 0))
<1>0. "EOF" \in Mute /\ 0 \in Nat /\ "EOF" # "EOW" /\ "abandoned" \in Types /\ "freed" \in Types
  BY DEF Mute, PacketTypes, DataPackets, CreditPackets, Types
<1>1. ASSUME NEW i \in States PROVE Still(c, [c EXCEPT !.istate = i]) /\ Still(c, [c EXCEPT !.ostate = i])
  <2>1. ASSUME NEW d \in {[c EXCEPT !.istate = i], [c EXCEPT !.ostate = i]} PROVE Still(c, d)
    <3>1. /\ d \in ChannelRecord /\ d.lwin = c.lwin /\ d.cons = c.cons /\ d.rwin = c.rwin /\ d.extended = c.extended
          /\ d.extusage = c.extusage /\ d.input = c.input /\ d.output = c.output /\ d.out = c.out
          /\ d.flags = c.flags /\ d.type = c.type
      BY <2>1 DEF ChannelRecord
    <3> QED BY <1>0, <3>1, QuiescentBy
  <2> QED BY <2>1
<1>2. Still(c, [c EXCEPT !.efd = FALSE])
  <2> DEFINE d == [c EXCEPT !.efd = FALSE]
  <2>1. /\ d \in ChannelRecord /\ d.lwin = c.lwin /\ d.cons = c.cons /\ d.rwin = c.rwin /\ d.extended = c.extended
        /\ d.extusage = c.extusage /\ d.input = c.input /\ d.output = c.output /\ d.out = c.out
        /\ d.flags = c.flags /\ d.type = c.type
    BY DEF ChannelRecord
  <2> HIDE DEF d
  <2>2. Still(c, d)
    BY <1>0, <2>1, QuiescentBy
  <2> QED BY <2>2 DEF d
<1>3. ASSUME NEW F \in SUBSET Flags PROVE Still(c, [c EXCEPT !.flags = c.flags \cup F])
  <2> DEFINE d == [c EXCEPT !.flags = c.flags \cup F]
  <2>0. c.flags \cup F \in SUBSET Flags
    BY DEF ChannelRecord
  <2>1. /\ d \in ChannelRecord /\ d.lwin = c.lwin /\ d.cons = c.cons /\ d.rwin = c.rwin /\ d.extended = c.extended
        /\ d.extusage = c.extusage /\ d.input = c.input /\ d.output = c.output /\ d.out = c.out
        /\ c.flags \subseteq d.flags /\ d.type = c.type
    BY <2>0 DEF ChannelRecord
  <2> HIDE DEF d
  <2>2. Still(c, d)
    BY <1>0, <2>1, QuiescentBy
  <2> QED BY <2>2 DEF d
<1>4. ASSUME NEW u \in [user : {"none", "client", "session"}, close : BOOLEAN] PROVE Still(c, [c EXCEPT !.detach = u])
  <2> DEFINE d == [c EXCEPT !.detach = u]
  <2>1. /\ d \in ChannelRecord /\ d.lwin = c.lwin /\ d.cons = c.cons /\ d.rwin = c.rwin /\ d.extended = c.extended
        /\ d.extusage = c.extusage /\ d.input = c.input /\ d.output = c.output /\ d.out = c.out
        /\ d.flags = c.flags /\ d.type = c.type
    BY DEF ChannelRecord
  <2> HIDE DEF d
  <2>2. Still(c, d)
    BY <1>0, <2>1, QuiescentBy
  <2> QED BY <2>2 DEF d
<1>5. ASSUME NEW y \in {"abandoned", "freed"}, y = "freed" => c.flags # {} \/ c.type = "zombie"
      PROVE  Still(c, [c EXCEPT !.type = y])
  <2> DEFINE d == [c EXCEPT !.type = y]
  <2>1. /\ d \in ChannelRecord /\ d.lwin = c.lwin /\ d.cons = c.cons /\ d.rwin = c.rwin /\ d.extended = c.extended
        /\ d.extusage = c.extusage /\ d.input = c.input /\ d.output = c.output /\ d.out = c.out
        /\ d.flags = c.flags /\ d.type = y
    BY <1>0 DEF ChannelRecord
  <2> HIDE DEF d
  <2>2. Still(c, d)
    BY <1>0, <1>5, <2>1, QuiescentBy
  <2> QED BY <2>2 DEF d
<1>6. Quiescent(c, [c EXCEPT !.input = 0]) /\ Quiescent(c, [c EXCEPT !.output = 0])
  <2>1. ASSUME NEW d \in {[c EXCEPT !.input = 0], [c EXCEPT !.output = 0]} PROVE Quiescent(c, d)
    <3>1. /\ d \in ChannelRecord /\ d.lwin = c.lwin /\ d.cons = c.cons /\ d.rwin = c.rwin /\ d.extended = c.extended
          /\ d.extusage = c.extusage /\ d.input \in {c.input, 0} /\ d.output \in {c.output, 0} /\ d.out = c.out
          /\ d.flags = c.flags /\ d.type = c.type
      BY <2>1 DEF ChannelRecord
    <3> QED BY <1>0, <3>1, QuiescentBy
  <2> QED BY <2>1
<1>7. ASSUME NEW t \in Mute PROVE Quiescent(c, Send(c, t, 0)) /\ (t # "EOW" => Still(c, Send(c, t, 0)))
  <2> DEFINE d == Send(c, t, 0)
  <2>1. d \in ChannelRecord /\ d = [c EXCEPT !.out = Append(c.out, Pkt(t, 0))]
    BY SendSums DEF Mute
  <2> HIDE DEF d
  <2>2. /\ d.lwin = c.lwin /\ d.cons = c.cons /\ d.rwin = c.rwin /\ d.extended = c.extended
        /\ d.extusage = c.extusage /\ d.input = c.input /\ d.output = c.output /\ d.out = Append(c.out, Pkt(t, 0))
        /\ d.flags = c.flags /\ d.type = c.type
    BY <2>1 DEF ChannelRecord
  <2>3. Quiescent(c, d) /\ (t # "EOW" => Still(c, d))
    BY <1>0, <2>1, <2>2, QuiescentBy
  <2> QED BY <2>3 DEF d
<1>8. Still(c, [c EXCEPT !.type = "abandoned"])
  BY <1>5
<1>9. c.flags # {} \/ c.type = "zombie" => Still(c, [c EXCEPT !.type = "freed"])
  BY <1>5
<1> QED BY <1>1, <1>2, <1>3, <1>4, <1>6, <1>7, <1>8, <1>9

----------------------------------------------------------------------------
(* The functions of nchan.c move no data.                                  *)

\* Quiet code leaves a well-formed channel.
LEMMA StillRecord == ASSUME NEW c, NEW d, Still(c, d) \/ Quiescent(c, d) PROVE d \in ChannelRecord
BY DEF Still, Quiescent

\* Still is the stronger of the two.
LEMMA StillQuiet == ASSUME NEW c, NEW d, Still(c, d) PROVE Quiescent(c, d)
BY DEF Still

\* The states, flags and packets the closing code uses; none of these packets carries anything.
LEMMA Constants ==
    /\ {"open", "drain", "closed"} \subseteq States
    /\ \A f \in {"EOF_SENT", "EOF_RCVD", "CLOSE_SENT", "CLOSE_RCVD"} : {f} \in SUBSET Flags
    /\ {"EOF", "CLOSE", "EOW", "EXIT", "X11REQ", "EXEC", "SUCCESS", "REFUSED", "FAILURE", "OPENFAIL"}
         \subseteq Mute
    /\ NoUser \in [user : {"none", "client", "session"}, close : BOOLEAN]
BY DEF States, Flags, Mute, PacketTypes, DataPackets, CreditPackets, NoUser

\* Closing the input side moves no byte.
LEMMA StillReads ==
    ASSUME NEW c \in ChannelRecord
    PROVE  /\ Still(c, chan_read_failed(c)) /\ Still(c, chan_rcvd_eow(c))
           /\ Still(c, chan_shutdown_extended_read(c))
BY SmallUpdates, StillRefl, Constants DEF chan_read_failed, chan_rcvd_eow, chan_shutdown_extended_read

\* Neither does sending EOF or CLOSE.
LEMMA StillSends ==
    ASSUME NEW c \in ChannelRecord
    PROVE  Still(c, chan_send_eof2(c)) /\ Still(c, chan_send_close2(c))
<1>1. ASSUME NEW t \in {"EOF", "CLOSE"}, NEW F \in SUBSET Flags
      PROVE  Still(c, [Send(c, t, 0) EXCEPT !.flags = @ \cup F])
  <2> DEFINE d == Send(c, t, 0)
  <2>1. Still(c, d) /\ d \in ChannelRecord
    BY SmallUpdates, Constants, StillRecord
  <2> HIDE DEF d
  <2>2. Still(d, [d EXCEPT !.flags = d.flags \cup F])
    BY <2>1, SmallUpdates
  <2>3. Still(c, [d EXCEPT !.flags = d.flags \cup F])
    BY <2>1, <2>2, StillTrans
  <2> QED BY <2>3 DEF d
<1> QED BY <1>1, Constants DEF chan_send_eof2, chan_send_close2

\* chan_ibuf_empty moves no byte.
LEMMA StillIbuf == ASSUME NEW c \in ChannelRecord PROVE Still(c, chan_ibuf_empty(c))
<1> DEFINE d == IF Has(c, "CLOSE_SENT") THEN c ELSE chan_send_eof2(c)
<1>1. Still(c, d) /\ d \in ChannelRecord
  BY StillSends, StillRefl, StillRecord
<1>2. chan_ibuf_empty(c) = c \/ chan_ibuf_empty(c) = [d EXCEPT !.istate = "closed"]
  BY DEF chan_ibuf_empty
<1> HIDE DEF d
<1>3. Still(d, [d EXCEPT !.istate = "closed"])
  BY <1>1, SmallUpdates, Constants
<1> QED BY <1>1, <1>2, <1>3, StillTrans, StillRefl

\* chan_obuf_empty empties a buffer that is empty.
LEMMA StillObuf == ASSUME NEW c \in ChannelRecord PROVE Still(c, chan_obuf_empty(c))
<1>1. CASE c.output > 0 \/ c.ostate # "drain"
  BY <1>1, StillRefl DEF chan_obuf_empty
<1>2. CASE ~(c.output > 0 \/ c.ostate # "drain")
  <2>1. c.output = 0
    BY <1>2 DEF ChannelRecord
  <2>2. chan_obuf_empty(c) = [c EXCEPT !.ostate = "closed"]
    BY <1>2, <2>1 DEF chan_obuf_empty, ChannelRecord
  <2>3. Still(c, [c EXCEPT !.ostate = "closed"])
    BY SmallUpdates, Constants
  <2> QED BY <2>2, <2>3
<1> QED BY <1>1, <1>2

\* channel_pre_open only calls chan_obuf_empty.
LEMMA StillPreOpen == ASSUME NEW c \in ChannelRecord PROVE Still(c, channel_pre_open(c))
BY StillObuf, StillRefl DEF channel_pre_open

\* The states of the output side.
Draining(c) == [c EXCEPT !.ostate = IF @ = "open" THEN "drain" ELSE @]
Flagged(c, f) == [c EXCEPT !.flags = @ \cup {f}]

\* Noting a flag and starting to drain move no byte.
LEMMA StillFlags ==
    ASSUME NEW c \in ChannelRecord, NEW f \in {"EOF_RCVD", "CLOSE_RCVD"}
    PROVE  Still(c, Flagged(c, f)) /\ Still(c, Draining(c)) /\ Still(c, Draining(Flagged(c, f)))
<1>1. ASSUME NEW d \in ChannelRecord PROVE Still(d, Draining(d))
  <2>1. Draining(d) = [d EXCEPT !.ostate = IF d.ostate = "open" THEN "drain" ELSE d.ostate]
    BY DEF Draining
  <2>2. (IF d.ostate = "open" THEN "drain" ELSE d.ostate) \in States
    BY Constants DEF ChannelRecord
  <2> QED BY <2>1, <2>2, SmallUpdates
<1>2. Still(c, Flagged(c, f))
  BY SmallUpdates, Constants DEF Flagged
<1> QED BY <1>1, <1>2, StillTrans, StillRecord

\* chan_rcvd_ieof moves no byte.
LEMMA StillIeof == ASSUME NEW c \in ChannelRecord PROVE Still(c, chan_rcvd_ieof(c))
<1> DEFINE d == Draining(Flagged(c, "EOF_RCVD"))
<1>1. Still(c, d) /\ d \in ChannelRecord
  BY StillFlags, StillRecord
<1>2. d = [c EXCEPT !.flags = @ \cup {"EOF_RCVD"}, !.ostate = IF @ = "open" THEN "drain" ELSE @]
  BY DEF Draining, Flagged, ChannelRecord
<1>3. chan_rcvd_ieof(c) \in {d, chan_obuf_empty(d)}
  BY <1>2 DEF chan_rcvd_ieof
<1> HIDE DEF d
<1> QED BY <1>1, <1>3, StillObuf, StillTrans

\* chan_rcvd_oclose moves no byte.
LEMMA StillOclose == ASSUME NEW c \in ChannelRecord PROVE Still(c, chan_rcvd_oclose(c))
<1> DEFINE d == Flagged(c, "CLOSE_RCVD")
           e == Draining(d)
           f == IF e.istate = "drain" THEN chan_send_eof2(e) ELSE e
           g == chan_shutdown_extended_read(f)
<1>1. Still(c, d) /\ d \in ChannelRecord /\ Still(c, e) /\ e \in ChannelRecord
  BY StillFlags, StillRecord
<1>2. chan_rcvd_oclose(c) \in {[[d EXCEPT !.ostate = "closed"] EXCEPT !.istate = "closed"], e, [g EXCEPT !.istate = "closed"]}
  BY DEF chan_rcvd_oclose, Draining, Flagged
<1> HIDE DEF d
<1>3. Still(c, [[d EXCEPT !.ostate = "closed"] EXCEPT !.istate = "closed"])
  <2> DEFINE k == [d EXCEPT !.ostate = "closed"]
  <2>1. Still(d, k) /\ k \in ChannelRecord
    BY <1>1, SmallUpdates, Constants, StillRecord
  <2> HIDE DEF k
  <2>2. Still(k, [k EXCEPT !.istate = "closed"])
    BY <2>1, SmallUpdates, Constants
  <2>3. Still(c, k)
    BY <1>1, <2>1, StillTrans
  <2> QED BY <2>2, <2>3, StillTrans DEF k
<1> HIDE DEF e
<1>4. Still(c, f) /\ f \in ChannelRecord
  BY <1>1, StillSends, StillTrans, StillRecord
<1> HIDE DEF f
<1>5. Still(c, g) /\ g \in ChannelRecord
  BY <1>4, StillReads, StillTrans, StillRecord
<1> HIDE DEF g
<1>6. Still(c, [g EXCEPT !.istate = "closed"])
  BY <1>5, SmallUpdates, Constants, StillTrans
<1> QED BY <1>1, <1>2, <1>3, <1>6

\* chan_write_failed drops the output and moves nothing.
LEMMA QuietWriteFailed == ASSUME NEW c \in ChannelRecord PROVE Quiescent(c, chan_write_failed(c))
<1> DEFINE d == IF IsSession THEN Send(c, "EOW", 0) ELSE c
           e == [d EXCEPT !.output = 0]
<1>1. Quiescent(c, d) /\ d \in ChannelRecord
  BY SmallUpdates, Constants, QuiescentRefl, StillRecord
<1>2. chan_write_failed(c) = c \/ chan_write_failed(c) = [e EXCEPT !.ostate = "closed"]
  BY DEF chan_write_failed
<1> HIDE DEF d
<1>3. Quiescent(c, e) /\ e \in ChannelRecord
  BY <1>1, SmallUpdates, QuiescentTrans, StillRecord
<1> HIDE DEF e
<1>4. Quiescent(e, [e EXCEPT !.ostate = "closed"])
  BY <1>3, SmallUpdates, Constants, StillQuiet
<1> QED BY <1>2, <1>3, <1>4, QuiescentTrans, QuiescentRefl

\* client_status_confirm moves no byte but the text.
LEMMA QuietStatus ==
    ASSUME NEW c \in ChannelRecord, NEW t, NEW text \in Nat
    PROVE  /\ [c EXCEPT !.extended = c.extended + text] \in ChannelRecord
           /\ Quiescent([c EXCEPT !.extended = c.extended + text], client_status_confirm(c, t, text))
<1> DEFINE e == [c EXCEPT !.extended = c.extended + text]
           d == chan_read_failed(e)
<1>0. e \in ChannelRecord
  <2>1. c.extended + text \in Nat
    BY DEF ChannelRecord
  <2> QED BY <2>1 DEF ChannelRecord
<1>1. client_status_confirm(c, t, text) = IF t = "FAILURE" THEN chan_write_failed(d) ELSE e
  BY DEF client_status_confirm
<1> HIDE DEF e
<1>2. Quiescent(e, d) /\ d \in ChannelRecord /\ Quiescent(e, e)
  BY <1>0, StillReads, StillQuiet, StillRecord, QuiescentRefl
<1> HIDE DEF d
<1>3. Quiescent(d, chan_write_failed(d))
  BY <1>2, QuietWriteFailed
<1>4. Quiescent(e, client_status_confirm(c, t, text))
  BY <1>0, <1>1, <1>2, <1>3, QuiescentTrans
<1> QED BY <1>0, <1>4 DEF e

\* Queueing the CLOSE moves no byte.
LEMMA StillClose == ASSUME NEW c \in ChannelRecord, NEW b PROVE Still(c, WithClose(c, b))
BY StillSends, StillRefl DEF WithClose

\* The user's callback moves no byte.
LEMMA StillDetach == ASSUME NEW c \in ChannelRecord, NEW h, NEW b PROVE Still(c, DetachUser(c, h, b))
BY SmallUpdates, StillRefl, Constants DEF DetachUser, channel_cancel_cleanup

\* channel_garbage_collect moves no byte.
LEMMA StillCollect == ASSUME NEW c \in ChannelRecord, NEW h PROVE Still(c, channel_garbage_collect(c, h))
<1> DEFINE d == IF Registered(c) THEN WithClose(c, c.detach.close) ELSE c
           e == IF Registered(d) /\ IsDead(d, d.detach.close) THEN DetachUser(d, h, FALSE) ELSE d
           f == WithClose(e, TRUE)
<1>1. Still(c, d) /\ d \in ChannelRecord
  BY StillClose, StillRefl, StillRecord
<1>2. /\ channel_garbage_collect(c, h) \in {e, f, [f EXCEPT !.type = "freed"]}
      /\ channel_garbage_collect(c, h) \in {e, f} \/ IsDead(f, TRUE)
  BY DEF channel_garbage_collect
<1> HIDE DEF d
<1>3. Still(c, e) /\ e \in ChannelRecord
  BY <1>1, StillDetach, StillTrans, StillRecord
<1> HIDE DEF e
<1>4. Still(c, f) /\ f \in ChannelRecord
  BY <1>3, StillClose, StillTrans, StillRecord
<1>5. IsDead(f, TRUE) => f.flags # {} \/ f.type = "zombie"
  BY DEF IsDead, Has
<1> HIDE DEF f
<1>6. IsDead(f, TRUE) => Still(c, [f EXCEPT !.type = "freed"])
  BY <1>4, <1>5, SmallUpdates, StillTrans
<1> QED BY <1>2, <1>3, <1>4, <1>6

\* channel_force_close drops both buffers and moves nothing.
LEMMA QuietForceClose == ASSUME NEW c \in ChannelRecord, NEW h PROVE Quiescent(c, channel_force_close(c, h))
<1> DEFINE d == chan_read_failed(c)
           k == [d EXCEPT !.input = IF d.istate = "drain" THEN 0 ELSE @]
           e == chan_ibuf_empty(k)
           f == chan_write_failed(e)
           g == DetachUser(f, h, TRUE)
           j == [g EXCEPT !.efd = FALSE]
<1>1. Quiescent(c, d) /\ d \in ChannelRecord
  BY StillReads, StillQuiet, StillRecord
<1>2. channel_force_close(c, h) = [j EXCEPT !.type = "abandoned"]
  BY DEF channel_force_close
<1> HIDE DEF d
<1>3. Quiescent(c, k) /\ k \in ChannelRecord
  <2>1. CASE d.istate = "drain"
    <3>1. k = [d EXCEPT !.input = 0]
      BY <2>1
    <3> QED BY <1>1, <3>1, SmallUpdates, QuiescentTrans, StillRecord
  <2>2. CASE d.istate # "drain"
    <3>1. k = d
      BY <1>1, <2>2 DEF ChannelRecord
    <3> QED BY <1>1, <3>1
  <2> QED BY <2>1, <2>2
<1> HIDE DEF k
<1>4. Quiescent(c, e) /\ e \in ChannelRecord
  BY <1>3, StillIbuf, StillQuiet, QuiescentTrans, StillRecord
<1> HIDE DEF e
<1>5. Quiescent(c, f) /\ f \in ChannelRecord
  BY <1>4, QuietWriteFailed, QuiescentTrans, StillRecord
<1> HIDE DEF f
<1>6. Quiescent(c, g) /\ g \in ChannelRecord
  BY <1>5, StillDetach, StillQuiet, QuiescentTrans, StillRecord
<1> HIDE DEF g
<1>7. Quiescent(c, j) /\ j \in ChannelRecord
  BY <1>6, SmallUpdates, StillQuiet, QuiescentTrans, StillRecord
<1> HIDE DEF j
<1>8. Quiescent(j, [j EXCEPT !.type = "abandoned"])
  BY <1>7, SmallUpdates, StillQuiet
<1> QED BY <1>2, <1>7, <1>8, QuiescentTrans

----------------------------------------------------------------------------
(* The code that does move data keeps the windows in step.                 *)

\* A channel that was never open holds nothing and granted nothing.
Blank(c) ==
    /\ Unused(c) => c.input = 0 /\ c.output = 0 /\ c.extended = 0 /\ c.cons = 0
    /\ c.type \in {"none", "larval"} => c.lwin = 0
    /\ c.type = "opening" => c.rwin = 0

\* The stderr a client holds.
Buffered(c) == IF EfdWrite(c) THEN c.extended ELSE 0

\* What an end may still be sent, holds, or has consumed and not yet granted anew.
Budget(c) == c.lwin + c.cons + c.output + Buffered(c)

\* What an end sent or may still send, and what it is granting.
Sending(c) == c.rwin + Carried(c.out, DataPackets)
Granted(c) == Carried(c.out, CreditPackets)

\* Code that keeps an end within any bound that local_window_max is within.
Limited(c, d) == \A N \in Nat : WindowMax <= N /\ Budget(c) <= N => Budget(d) <= N

\* Code that was given credit for some bytes, and took others off the link.
Flows(c, d, credit, data) ==
    /\ d \in ChannelRecord
    /\ Sending(d) <= Sending(c) + credit
    /\ Granted(d) + c.lwin <= d.lwin + Granted(c) + data
    /\ Limited(c, d)
    /\ Blank(c) => Blank(d)

\* All of these are natural numbers.
LEMMA Counters ==
    ASSUME NEW c \in ChannelRecord
    PROVE  /\ c.lwin \in Nat /\ c.cons \in Nat /\ c.output \in Nat /\ c.input \in Nat
           /\ c.extended \in Nat /\ c.rwin \in Nat
           /\ Buffered(c) \in Nat /\ Budget(c) \in Nat /\ Sending(c) \in Nat /\ Granted(c) \in Nat
<1>1. /\ c.lwin \in Nat /\ c.cons \in Nat /\ c.output \in Nat /\ c.input \in Nat
      /\ c.extended \in Nat /\ c.rwin \in Nat /\ c.out \in Seq(Packet)
  BY DEF ChannelRecord
<1>2. Carried(c.out, DataPackets) \in Nat /\ Carried(c.out, CreditPackets) \in Nat
  BY <1>1, CarriedNat
<1>3. Buffered(c) \in Nat
  BY <1>1 DEF Buffered
<1>4. Sending(c) \in Nat /\ Granted(c) \in Nat
  BY <1>1, <1>2 DEF Sending, Granted
<1>5. Budget(c) \in Nat
  <2>1. c.lwin \in Nat /\ c.cons \in Nat /\ c.output \in Nat
    BY <1>1
  <2>2. c.lwin + c.cons + c.output + Buffered(c) \in Nat
    BY ONLY <1>3, <2>1
  <2> QED BY ONLY <2>2 DEF Budget
<1> QED BY <1>1, <1>3, <1>4, <1>5

\* Code that adds nothing to what an end granted, holds and consumed, or
\* leaves no more than a whole window of it.
LEMMA LimitedBy ==
    ASSUME NEW c \in ChannelRecord, NEW d \in ChannelRecord, Budget(d) <= Budget(c) \/ Budget(d) <= WindowMax
    PROVE  Limited(c, d)
<1>1. Budget(c) \in Nat /\ Budget(d) \in Nat /\ WindowMax \in Nat
  BY Counters, SizeAssumption
<1> QED BY <1>1 DEF Limited

\* Code that runs after code that took a packet.
LEMMA FlowsTrans ==
    ASSUME NEW c \in ChannelRecord, NEW d, NEW e, NEW credit \in Nat, NEW data \in Nat,
           Flows(c, d, credit, data), Flows(d, e, 0, 0)
    PROVE  Flows(c, e, credit, data)
<1>1. d \in ChannelRecord /\ e \in ChannelRecord
  BY DEF Flows
<1>2. /\ c.lwin \in Nat /\ Sending(c) \in Nat /\ Granted(c) \in Nat
      /\ d.lwin \in Nat /\ Sending(d) \in Nat /\ Granted(d) \in Nat
      /\ e.lwin \in Nat /\ Sending(e) \in Nat /\ Granted(e) \in Nat
  BY <1>1, Counters
<1>3. /\ Sending(d) <= Sending(c) + credit /\ Granted(d) + c.lwin <= d.lwin + Granted(c) + data
      /\ Sending(e) <= Sending(d) + 0 /\ Granted(e) + d.lwin <= e.lwin + Granted(d) + 0
  BY DEF Flows
<1>4. Sending(e) <= Sending(c) + credit /\ Granted(e) + c.lwin <= e.lwin + Granted(c) + data
  BY ONLY <1>2, <1>3, credit \in Nat, data \in Nat
<1>5. Limited(c, e) /\ (Blank(c) => Blank(e))
  BY DEF Flows, Limited
<1> QED BY <1>1, <1>4, <1>5 DEF Flows

\* Code that moves no byte, whatever it took off the link.
LEMMA QuietFlows ==
    ASSUME NEW c \in ChannelRecord, NEW d, Quiescent(c, d), NEW credit \in Nat, NEW data \in Nat
    PROVE  Flows(c, d, credit, data)
<1>1. /\ d \in ChannelRecord /\ d.lwin = c.lwin /\ d.cons = c.cons /\ d.rwin = c.rwin
      /\ d.extended = c.extended /\ d.extusage = c.extusage /\ d.input <= c.input /\ d.output <= c.output
      /\ (Unused(d) => Unused(c)) /\ (d.type \in {"none", "larval", "opening"} => d.type = c.type)
  BY DEF Quiescent
<1>2. Carried(d.out, DataPackets) = Carried(c.out, DataPackets) /\ Carried(d.out, CreditPackets) = Carried(c.out, CreditPackets)
  BY DEF Quiescent, SameSums
<1>3. Sending(d) = Sending(c) /\ Granted(d) = Granted(c) /\ Buffered(d) = Buffered(c)
  BY <1>1, <1>2 DEF Sending, Granted, Buffered, EfdWrite
<1>4. /\ c.lwin \in Nat /\ c.cons \in Nat /\ c.output \in Nat /\ c.input \in Nat /\ d.output \in Nat /\ d.input \in Nat
      /\ Buffered(c) \in Nat /\ Sending(c) \in Nat /\ Granted(c) \in Nat
  BY <1>1, Counters
<1>5. Sending(d) <= Sending(c) + credit /\ Granted(d) + c.lwin <= d.lwin + Granted(c) + data
  BY <1>1, <1>3, <1>4
<1>6. Budget(d) = c.lwin + c.cons + d.output + Buffered(c) /\ Budget(c) = c.lwin + c.cons + c.output + Buffered(c)
  BY <1>1, <1>3 DEF Budget
<1>7. Budget(d) <= Budget(c) /\ Budget(d) \in Nat /\ Budget(c) \in Nat
  <2>1. d.output <= c.output
    BY <1>1
  <2> QED BY ONLY <1>4, <1>6, <2>1
<1>8. Limited(c, d)
  BY <1>1, <1>7, LimitedBy
<1>9. Blank(c) => Blank(d)
  BY <1>1, <1>4 DEF Blank
<1> QED BY <1>1, <1>5, <1>8, <1>9 DEF Flows

\* Code of an open channel, by what it makes of the counters.
LEMMA OpenFlows ==
    ASSUME NEW c \in ChannelRecord, NEW d \in ChannelRecord, d.type \in {"open", "abandoned"},
           NEW credit \in Nat, NEW data \in Nat,
           Sending(d) <= Sending(c) + credit, Granted(d) + c.lwin <= d.lwin + Granted(c) + data,
           Budget(d) <= Budget(c)
    PROVE  Flows(c, d, credit, data)
<1>1. Blank(d)
  BY DEF Blank, Unused, FreshTypes
<1>3. Limited(c, d)
  BY LimitedBy
<1> QED BY <1>1, <1>3 DEF Flows

\* The same for code that took no packet.
LEMMA LocalFlows ==
    ASSUME NEW c \in ChannelRecord, NEW d \in ChannelRecord, d.type \in {"open", "abandoned"},
           Sending(d) <= Sending(c), Granted(d) + c.lwin <= d.lwin + Granted(c), Budget(d) <= Budget(c)
    PROVE  Flows(c, d, 0, 0)
<1>1. /\ Sending(c) \in Nat /\ Granted(c) \in Nat /\ c.lwin \in Nat
      /\ Sending(d) \in Nat /\ Granted(d) \in Nat /\ d.lwin \in Nat
  BY Counters
<1>2. Sending(c) + 0 = Sending(c) /\ d.lwin + Granted(c) + 0 = d.lwin + Granted(c)
  BY <1>1
<1>3. Sending(d) <= Sending(c) + 0 /\ Granted(d) + c.lwin <= d.lwin + Granted(c) + 0
  BY <1>2
<1>4. Blank(d)
  BY DEF Blank, Unused, FreshTypes
<1>6. Limited(c, d)
  BY LimitedBy
<1> QED BY <1>3, <1>4, <1>6 DEF Flows

\* channel_handle_rfd reads within the window of the peer and changes no window.
LEMMA FlowRfd ==
    ASSUME NEW c \in ChannelRecord, c.type = "open", NEW r \in Int
    PROVE  Flows(c, channel_handle_rfd(c, r), 0, 0)
<1> DEFINE d == channel_handle_rfd(c, r)
<1>1. CASE d \in {c, chan_read_failed(c)}
  BY <1>1, StillRefl, StillReads, StillQuiet, QuietFlows
<1>2. CASE r > 0 /\ d = [c EXCEPT !.input = @ + r]
  <2>1. c.input + r \in Nat
    BY <1>2 DEF ChannelRecord
  <2>2. /\ d \in ChannelRecord /\ d.type = "open" /\ d.lwin = c.lwin /\ d.cons = c.cons /\ d.rwin = c.rwin
        /\ d.extended = c.extended /\ d.extusage = c.extusage /\ d.output = c.output /\ d.out = c.out
    BY <1>2, <2>1 DEF ChannelRecord
  <2> HIDE DEF d
  <2>3. Sending(d) = Sending(c) /\ Granted(d) = Granted(c) /\ Budget(d) = Budget(c)
    BY <2>2 DEF Sending, Granted, Buffered, EfdWrite, Budget
  <2>4. Sending(c) \in Nat /\ Granted(c) \in Nat /\ Budget(c) \in Nat /\ c.lwin \in Nat
    BY Counters
  <2>5. Sending(d) <= Sending(c) /\ Granted(d) + c.lwin <= d.lwin + Granted(c) /\ Budget(d) <= Budget(c)
    BY <2>2, <2>3, <2>4
  <2> QED BY <2>2, <2>5, LocalFlows DEF d
<1> QED BY <1>1, <1>2 DEF channel_handle_rfd

\* What channel_handle_wfd writes is consumed.
LEMMA FlowWfd ==
    ASSUME NEW c \in ChannelRecord, c.type = "open", NEW w \in Int, w <= c.output
    PROVE  Flows(c, channel_handle_wfd(c, w), 0, 0)
<1> DEFINE d == channel_handle_wfd(c, w)
<1>1. CASE d \in {c, chan_write_failed(c)}
  BY <1>1, QuiescentRefl, QuietWriteFailed, QuietFlows
<1>2. CASE w > 0 /\ d = [c EXCEPT !.output = @ - w, !.cons = @ + w]
  <2>1. c.output - w \in Nat /\ c.cons + w \in Nat
    BY <1>2 DEF ChannelRecord
  <2>2. /\ d \in ChannelRecord /\ d.type = "open" /\ d.lwin = c.lwin /\ d.cons = c.cons + w /\ d.rwin = c.rwin
        /\ d.extended = c.extended /\ d.extusage = c.extusage /\ d.output = c.output - w /\ d.out = c.out
    BY <1>2, <2>1 DEF ChannelRecord
  <2> HIDE DEF d
  <2>3. Sending(d) = Sending(c) /\ Granted(d) = Granted(c) /\ Buffered(d) = Buffered(c)
    BY <2>2 DEF Sending, Granted, Buffered, EfdWrite
  <2>4. /\ Sending(c) \in Nat /\ Granted(c) \in Nat /\ Buffered(c) \in Nat /\ Budget(c) \in Nat /\ c.lwin \in Nat
        /\ c.cons \in Nat /\ c.output \in Nat
    BY Counters
  <2>5. Budget(d) = Budget(c)
    <3>1. Budget(d) = c.lwin + (c.cons + w) + (c.output - w) + Buffered(c)
      BY <2>2, <2>3 DEF Budget
    <3>2. Budget(c) = c.lwin + c.cons + c.output + Buffered(c)
      BY DEF Budget
    <3> QED BY ONLY <2>4, <3>1, <3>2, w \in Int
  <2>6. Sending(d) <= Sending(c) /\ Granted(d) + c.lwin <= d.lwin + Granted(c) /\ Budget(d) <= Budget(c)
    BY <2>2, <2>3, <2>4, <2>5
  <2> QED BY <2>2, <2>6, LocalFlows DEF d
<1> QED BY <1>1, <1>2 DEF channel_handle_wfd

\* channel_handle_efd: stderr written is consumed, stderr read changes no window.
LEMMA FlowEfd ==
    ASSUME NEW c \in ChannelRecord, c.type = "open", NEW x \in Int,
           x < 0 => x = Failed, EfdWrite(c) => x <= c.extended
    PROVE  Flows(c, channel_handle_efd(c, x), 0, 0)
<1> DEFINE d == channel_handle_efd(c, x)
<1>1. CASE d \in {c, [c EXCEPT !.efd = FALSE]}
  <2>1. Quiescent(c, c) /\ Still(c, [c EXCEPT !.efd = FALSE])
    BY QuiescentRefl, SmallUpdates
  <2>2. Quiescent(c, [c EXCEPT !.efd = FALSE])
    BY <2>1, StillQuiet
  <2> HIDE DEF d
  <2>3. Quiescent(c, d)
    BY <1>1, <2>1, <2>2
  <2> QED BY <2>3, QuietFlows DEF d
<1>2. CASE EfdWrite(c) /\ x > 0 /\ d = [c EXCEPT !.extended = @ - x, !.cons = @ + x]
  <2>1. c.extended - x \in Nat /\ c.cons + x \in Nat
    BY <1>2 DEF ChannelRecord
  <2>2. /\ d \in ChannelRecord /\ d.type = "open" /\ d.lwin = c.lwin /\ d.cons = c.cons + x /\ d.rwin = c.rwin
        /\ d.extended = c.extended - x /\ d.extusage = c.extusage /\ d.output = c.output /\ d.out = c.out
    BY <1>2, <2>1 DEF ChannelRecord
  <2> HIDE DEF d
  <2>3. Sending(d) = Sending(c) /\ Granted(d) = Granted(c) /\ Buffered(d) = c.extended - x /\ Buffered(c) = c.extended
    BY <1>2, <2>2 DEF Sending, Granted, Buffered, EfdWrite
  <2>4. /\ Sending(c) \in Nat /\ Granted(c) \in Nat /\ c.extended \in Nat /\ c.lwin \in Nat
        /\ c.cons \in Nat /\ c.output \in Nat /\ Budget(c) \in Nat
    BY Counters
  <2>5. Budget(d) = Budget(c)
    <3>1. Budget(d) = c.lwin + (c.cons + x) + c.output + (c.extended - x)
      BY <2>2, <2>3 DEF Budget
    <3>2. Budget(c) = c.lwin + c.cons + c.output + c.extended
      BY <2>3 DEF Budget
    <3> QED BY ONLY <2>4, <3>1, <3>2, x \in Int
  <2>6. Sending(d) <= Sending(c) /\ Granted(d) + c.lwin <= d.lwin + Granted(c) /\ Budget(d) <= Budget(c)
    BY <2>2, <2>3, <2>4, <2>5
  <2> QED BY <2>2, <2>6, LocalFlows DEF d
<1>3. CASE EfdRead(c) /\ x > 0 /\ d = [c EXCEPT !.extended = @ + x]
  <2>1. c.extended + x \in Nat
    BY <1>3 DEF ChannelRecord
  <2>2. /\ d \in ChannelRecord /\ d.type = "open" /\ d.lwin = c.lwin /\ d.cons = c.cons /\ d.rwin = c.rwin
        /\ d.extusage = c.extusage /\ d.output = c.output /\ d.out = c.out
    BY <1>3, <2>1 DEF ChannelRecord
  <2> HIDE DEF d
  <2>3. Sending(d) = Sending(c) /\ Granted(d) = Granted(c) /\ Budget(d) = Budget(c)
    BY <1>3, <2>2 DEF Sending, Granted, Buffered, EfdWrite, EfdRead, Budget
  <2>4. Sending(c) \in Nat /\ Granted(c) \in Nat /\ Budget(c) \in Nat /\ c.lwin \in Nat
    BY Counters
  <2>5. Sending(d) <= Sending(c) /\ Granted(d) + c.lwin <= d.lwin + Granted(c) /\ Budget(d) <= Budget(c)
    BY <2>2, <2>3, <2>4
  <2> QED BY <2>2, <2>5, LocalFlows DEF d
<1> QED BY <1>1, <1>2, <1>3 DEF channel_handle_efd, Failed

\* channel_check_window grants what was consumed, once.
LEMMA FlowWindow ==
    ASSUME NEW c \in ChannelRecord
    PROVE  Flows(c, channel_check_window(c), 0, 0)
<1> DEFINE n == c.cons
           k == Send(c, "ADJUST", n)
           d == [k EXCEPT !.lwin = @ + n, !.cons = 0]
<1>1. CASE channel_check_window(c) = c
  BY <1>1, QuiescentRefl, QuietFlows
<1>2. CASE c.type = "open" /\ channel_check_window(c) = d
  <2>1. n \in Nat /\ c.lwin + n \in Nat /\ "ADJUST" \in PacketTypes
    BY DEF ChannelRecord, PacketTypes
  <2> HIDE DEF n
  <2>2. /\ k = [c EXCEPT !.out = Append(c.out, Pkt("ADJUST", n))] /\ k \in ChannelRecord
        /\ \A T : Carried(Append(c.out, Pkt("ADJUST", n)), T) = Carried(c.out, T) + (IF "ADJUST" \in T THEN n ELSE 0)
    BY <2>1, SendSums
  <2>3. /\ k.type = "open" /\ k.lwin = c.lwin /\ k.rwin = c.rwin /\ k.out = Append(c.out, Pkt("ADJUST", n))
        /\ k.extended = c.extended /\ k.extusage = c.extusage /\ k.output = c.output
    BY <1>2, <2>2 DEF ChannelRecord
  <2> HIDE DEF k
  <2>4. /\ d \in ChannelRecord /\ d.type = "open" /\ d.lwin = c.lwin + n /\ d.cons = 0 /\ d.rwin = c.rwin
        /\ d.extended = c.extended /\ d.extusage = c.extusage /\ d.output = c.output /\ d.out = k.out
    BY <2>1, <2>2, <2>3 DEF ChannelRecord
  <2> HIDE DEF d
  <2>5. /\ Sending(c) \in Nat /\ Granted(c) \in Nat /\ Buffered(c) \in Nat /\ Budget(c) \in Nat /\ c.lwin \in Nat
        /\ c.cons \in Nat /\ c.output \in Nat /\ Carried(c.out, DataPackets) \in Nat
    BY Counters, CarriedNat DEF ChannelRecord
  <2>6. Sending(d) = Sending(c) /\ Granted(d) = Granted(c) + n /\ Buffered(d) = Buffered(c)
    <3>1. "ADJUST" \notin DataPackets /\ "ADJUST" \in CreditPackets
      BY DEF DataPackets, CreditPackets
    <3>2. Carried(d.out, DataPackets) = Carried(c.out, DataPackets) + 0 /\ Granted(d) = Granted(c) + n
      BY <2>2, <2>3, <2>4, <3>1 DEF Granted
    <3> QED BY <2>4, <2>5, <3>2 DEF Sending, Buffered, EfdWrite
  <2>7. Budget(d) = Budget(c)
    <3>1. Budget(d) = (c.lwin + n) + 0 + c.output + Buffered(c)
      BY <2>4, <2>6 DEF Budget
    <3>2. Budget(c) = c.lwin + n + c.output + Buffered(c)
      BY DEF Budget, n
    <3> QED BY ONLY <2>1, <2>5, <3>1, <3>2
  <2>8. Sending(d) <= Sending(c) /\ Granted(d) + c.lwin <= d.lwin + Granted(c) /\ Budget(d) <= Budget(c)
    <3>1. d.lwin = c.lwin + n
      BY <2>4
    <3> QED BY ONLY <2>1, <2>5, <2>6, <2>7, <3>1
  <2> QED BY <1>2, <2>4, <2>8, LocalFlows
<1> QED BY <1>1, <1>2 DEF channel_check_window

\* Bytes that leave a buffer of an open channel as one packet.
LEMMA FlowSend ==
    ASSUME NEW c \in ChannelRecord, c.type = "open", NEW t \in DataPackets, NEW n \in Nat, n <= c.rwin,
           NEW d \in ChannelRecord, d.type = "open", d.out = Append(c.out, Pkt(t, n)),
           d.rwin = c.rwin - n, d.lwin = c.lwin, d.cons = c.cons, d.output = c.output,
           d.extusage = c.extusage, EfdWrite(c) => d.extended = c.extended
    PROVE  Flows(c, d, 0, 0)
<1>1. t \in PacketTypes /\ t \notin CreditPackets
  BY DEF DataPackets, CreditPackets, PacketTypes
<1>2. \A T : Carried(d.out, T) = Carried(c.out, T) + (IF t \in T THEN n ELSE 0)
  BY <1>1, SendSums
<1>3. /\ Sending(c) \in Nat /\ Granted(c) \in Nat /\ Budget(c) \in Nat /\ c.lwin \in Nat /\ c.rwin \in Nat
      /\ Carried(c.out, DataPackets) \in Nat
  BY Counters, CarriedNat DEF ChannelRecord
<1>4. Carried(d.out, DataPackets) = Carried(c.out, DataPackets) + n
  BY <1>2
<1>5. Granted(d) = Granted(c)
  BY <1>1, <1>2, <1>3 DEF Granted
<1>6. Sending(d) = Sending(c)
  <2>1. Sending(d) = (c.rwin - n) + (Carried(c.out, DataPackets) + n) /\ Sending(c) = c.rwin + Carried(c.out, DataPackets)
    BY <1>4 DEF Sending
  <2> QED BY ONLY <1>3, <2>1, n \in Nat
<1>7. Budget(d) = Budget(c)
  BY DEF Budget, Buffered, EfdWrite
<1>8. Sending(d) <= Sending(c) /\ Granted(d) + c.lwin <= d.lwin + Granted(c) /\ Budget(d) <= Budget(c)
  BY <1>3, <1>5, <1>6, <1>7
<1> QED BY <1>8, LocalFlows

\* A packet fits the buffer, the window of the peer and the packet size.
LEMMA ChunkFits ==
    ASSUME NEW c \in ChannelRecord, NEW len \in Nat
    PROVE  /\ Chunk(c, len) \in Nat /\ Chunk(c, len) <= len
           /\ Chunk(c, len) <= c.rwin /\ Chunk(c, len) <= MaxPacket
<1>1. c.rwin \in Nat /\ MaxPacket \in Nat
  BY SizeAssumption DEF ChannelRecord
<1> QED BY <1>1 DEF Chunk, Lesser

\* A DATA and an EXTENDED_DATA packet of n bytes are sent.
DataSent(c, n) == [Send(c, "DATA", n) EXCEPT !.input = @ - n, !.rwin = @ - n]
ExtSent(c, n) == [Send(c, "EXT", n) EXCEPT !.extended = @ - n, !.rwin = @ - n]

\* What is sent leaves the buffer and the window of the sender.
LEMMA SentData ==
    ASSUME NEW c \in ChannelRecord, NEW n \in Nat, n <= c.rwin
    PROVE  /\ n <= c.input =>
                /\ DataSent(c, n) \in ChannelRecord
                /\ DataSent(c, n) = [c EXCEPT !.out = Append(c.out, Pkt("DATA", n)), !.input = c.input - n, !.rwin = c.rwin - n]
           /\ n <= c.extended =>
                /\ ExtSent(c, n) \in ChannelRecord
                /\ ExtSent(c, n) = [c EXCEPT !.out = Append(c.out, Pkt("EXT", n)), !.extended = c.extended - n, !.rwin = c.rwin - n]
<1>1. c.rwin - n \in Nat /\ (n <= c.input => c.input - n \in Nat) /\ (n <= c.extended => c.extended - n \in Nat)
  BY DEF ChannelRecord
<1>2. ASSUME n <= c.input
      PROVE  /\ DataSent(c, n) \in ChannelRecord
             /\ DataSent(c, n) = [c EXCEPT !.out = Append(c.out, Pkt("DATA", n)), !.input = c.input - n, !.rwin = c.rwin - n]
  <2>1. Append(c.out, Pkt("DATA", n)) \in Seq(Packet)
    BY SendSums DEF PacketTypes
  <2>2. DataSent(c, n) = [c EXCEPT !.out = Append(c.out, Pkt("DATA", n)), !.input = c.input - n, !.rwin = c.rwin - n]
    BY DEF DataSent, Send, ChannelRecord
  <2> QED BY <1>1, <1>2, <2>1, <2>2 DEF ChannelRecord
<1>3. ASSUME n <= c.extended
      PROVE  /\ ExtSent(c, n) \in ChannelRecord
             /\ ExtSent(c, n) = [c EXCEPT !.out = Append(c.out, Pkt("EXT", n)), !.extended = c.extended - n, !.rwin = c.rwin - n]
  <2>1. Append(c.out, Pkt("EXT", n)) \in Seq(Packet)
    BY SendSums DEF PacketTypes
  <2>2. ExtSent(c, n) = [c EXCEPT !.out = Append(c.out, Pkt("EXT", n)), !.extended = c.extended - n, !.rwin = c.rwin - n]
    BY DEF ExtSent, Send, ChannelRecord
  <2> QED BY <1>1, <1>3, <2>1, <2>2 DEF ChannelRecord
<1> QED BY <1>2, <1>3

\* channel_output_poll_input_open moves window into the link.
LEMMA FlowPollInput ==
    ASSUME NEW c \in ChannelRecord, c.type = "open"
    PROVE  /\ Flows(c, channel_output_poll_input_open(c), 0, 0)
           /\ channel_output_poll_input_open(c).type = "open"
           /\ channel_output_poll_input_open(c).extusage = c.extusage
<1> DEFINE d == channel_output_poll_input_open(c)
           n == Chunk(c, c.input)
<1>1. CASE d \in {c, chan_ibuf_empty(c)}
  <2>1. Quiescent(c, d)
    BY <1>1, QuiescentRefl, StillIbuf, StillQuiet
  <2>2. d.type = "open"
    BY <1>1 DEF chan_ibuf_empty, chan_send_eof2, Send, ChannelRecord
  <2> QED BY <2>1, <2>2, QuietFlows DEF Quiescent
<1>2. CASE d = DataSent(c, n)
  <2>1. c.input \in Nat
    BY DEF ChannelRecord
  <2>2. n \in Nat /\ n <= c.input /\ n <= c.rwin
    BY <2>1, ChunkFits
  <2> HIDE DEF n
  <2>3. d \in ChannelRecord /\ d = [c EXCEPT !.out = Append(c.out, Pkt("DATA", n)), !.input = c.input - n, !.rwin = c.rwin - n]
    <3>1. /\ DataSent(c, n) \in ChannelRecord
          /\ DataSent(c, n) = [c EXCEPT !.out = Append(c.out, Pkt("DATA", n)), !.input = c.input - n, !.rwin = c.rwin - n]
      BY ONLY c \in ChannelRecord, <2>2, SentData
    <3> HIDE DEF d
    <3> QED BY ONLY <1>2, <3>1
  <2> HIDE DEF d
  <2>4. /\ d.type = "open" /\ d.out = Append(c.out, Pkt("DATA", n)) /\ d.rwin = c.rwin - n /\ d.lwin = c.lwin
        /\ d.cons = c.cons /\ d.output = c.output /\ d.extusage = c.extusage /\ d.extended = c.extended
    BY <2>3 DEF ChannelRecord
  <2>5. "DATA" \in DataPackets
    BY DEF DataPackets
  <2>6. Flows(c, d, 0, 0)
    BY <2>2, <2>3, <2>4, <2>5, FlowSend
  <2> QED BY <2>4, <2>6 DEF d
<1> QED BY <1>1, <1>2 DEF channel_output_poll_input_open, DataSent

\* So does channel_output_poll_extended_read.
LEMMA FlowPollExtended ==
    ASSUME NEW c \in ChannelRecord, c.type = "open", EfdRead(c)
    PROVE  Flows(c, channel_output_poll_extended_read(c), 0, 0)
<1> DEFINE d == channel_output_poll_extended_read(c)
           n == Chunk(c, c.extended)
<1>1. CASE d = c
  BY <1>1, QuiescentRefl, QuietFlows
<1>2. CASE d = ExtSent(c, n)
  <2>1. c.extended \in Nat
    BY DEF ChannelRecord
  <2>2. n \in Nat /\ n <= c.extended /\ n <= c.rwin
    BY <2>1, ChunkFits
  <2> HIDE DEF n
  <2>3. d \in ChannelRecord /\ d = [c EXCEPT !.out = Append(c.out, Pkt("EXT", n)), !.extended = c.extended - n, !.rwin = c.rwin - n]
    <3>1. /\ ExtSent(c, n) \in ChannelRecord
          /\ ExtSent(c, n) = [c EXCEPT !.out = Append(c.out, Pkt("EXT", n)), !.extended = c.extended - n, !.rwin = c.rwin - n]
      BY ONLY c \in ChannelRecord, <2>2, SentData
    <3> HIDE DEF d
    <3> QED BY ONLY <1>2, <3>1
  <2> HIDE DEF d
  <2>4. /\ d.type = "open" /\ d.out = Append(c.out, Pkt("EXT", n)) /\ d.rwin = c.rwin - n /\ d.lwin = c.lwin
        /\ d.cons = c.cons /\ d.output = c.output /\ d.extusage = c.extusage
    BY <2>3 DEF ChannelRecord
  <2>5. "EXT" \in DataPackets /\ ~EfdWrite(c)
    BY DEF DataPackets, EfdWrite, EfdRead
  <2>6. Flows(c, d, 0, 0)
    BY <2>2, <2>3, <2>4, <2>5, FlowSend
  <2> QED BY <2>6 DEF d
<1> QED BY <1>1, <1>2 DEF channel_output_poll_extended_read, ExtSent

\* channel_output_poll keeps to the window it was given.
LEMMA FlowPoll ==
    ASSUME NEW c \in ChannelRecord, c.type = "open"
    PROVE  Flows(c, channel_output_poll(c), 0, 0)
<1> DEFINE d == IF c.istate # "closed" THEN channel_output_poll_input_open(c) ELSE c
<1>1. Flows(c, d, 0, 0) /\ d \in ChannelRecord /\ d.type = "open"
  BY FlowPollInput, QuiescentRefl, QuietFlows DEF Flows
<1>2. channel_output_poll(c) = IF ~Has(d, "EOF_SENT") /\ EfdRead(d) THEN channel_output_poll_extended_read(d) ELSE d
  BY DEF channel_output_poll
<1> HIDE DEF d
<1>3. EfdRead(d) => Flows(d, channel_output_poll_extended_read(d), 0, 0)
  BY <1>1, FlowPollExtended
<1> QED BY <1>1, <1>2, <1>3, FlowsTrans

\* DATA within the window.
LEMMA FlowData ==
    ASSUME NEW c \in ChannelRecord, NEW n \in Nat, n <= c.lwin
    PROVE  Flows(c, channel_input_data(c, n), 0, n)
<1> DEFINE d == channel_input_data(c, n)
<1>1. CASE d = c
  BY <1>1, QuiescentRefl, QuietFlows
<1>2. CASE c.type = "open" /\ d \in {[c EXCEPT !.lwin = c.lwin - n, !.cons = c.cons + n],
                                    [c EXCEPT !.lwin = c.lwin - n, !.output = c.output + n]}
  <2>1. c.lwin - n \in Nat /\ c.cons + n \in Nat /\ c.output + n \in Nat
    BY DEF ChannelRecord
  <2>2. /\ d \in ChannelRecord /\ d.type = "open" /\ d.lwin = c.lwin - n /\ d.rwin = c.rwin /\ d.out = c.out
        /\ d.extended = c.extended /\ d.extusage = c.extusage
        /\ \/ d.cons = c.cons + n /\ d.output = c.output
           \/ d.cons = c.cons /\ d.output = c.output + n
    <3> HIDE DEF d
    <3>1. CASE d = [c EXCEPT !.lwin = c.lwin - n, !.cons = c.cons + n]
      BY <1>2, <2>1, <3>1 DEF ChannelRecord
    <3>2. CASE d = [c EXCEPT !.lwin = c.lwin - n, !.output = c.output + n]
      BY <1>2, <2>1, <3>2 DEF ChannelRecord
    <3> QED BY <1>2, <3>1, <3>2
  <2> HIDE DEF d
  <2>3. Sending(d) = Sending(c) /\ Granted(d) = Granted(c) /\ Buffered(d) = Buffered(c)
    BY <2>2 DEF Sending, Granted, Buffered, EfdWrite
  <2>4. /\ Sending(c) \in Nat /\ Granted(c) \in Nat /\ Buffered(c) \in Nat /\ c.lwin \in Nat
        /\ c.cons \in Nat /\ c.output \in Nat
    BY Counters
  <2>5. Budget(d) = Budget(c)
    <3>1. \/ Budget(d) = (c.lwin - n) + (c.cons + n) + c.output + Buffered(c)
          \/ Budget(d) = (c.lwin - n) + c.cons + (c.output + n) + Buffered(c)
      BY <2>2, <2>3 DEF Budget
    <3>2. Budget(c) = c.lwin + c.cons + c.output + Buffered(c)
      BY DEF Budget
    <3> QED BY ONLY <2>4, <3>1, <3>2, n \in Nat
  <2>6. Sending(d) <= Sending(c) + 0 /\ Granted(d) + c.lwin <= d.lwin + Granted(c) + n
    <3>1. d.lwin = c.lwin - n
      BY <2>2
    <3> QED BY ONLY <2>3, <2>4, <3>1, n \in Nat
  <2>7. Budget(d) <= Budget(c)
    BY <2>5, Counters
  <2> QED BY <2>2, <2>6, <2>7, OpenFlows DEF d
<1>3. c.lwin \in Nat /\ ~(n > c.lwin)
  BY DEF ChannelRecord
<1> QED BY <1>1, <1>2, <1>3 DEF channel_input_data

\* EXTENDED_DATA, which the client checks against its window itself.
LEMMA FlowExtended ==
    ASSUME NEW c \in ChannelRecord, NEW n \in Nat
    PROVE  Flows(c, channel_input_extended_data(c, n), 0, n)
<1> DEFINE d == channel_input_extended_data(c, n)
<1>1. CASE d = c
  BY <1>1, QuiescentRefl, QuietFlows
<1>2. CASE c.type = "open" /\ EfdWrite(c) /\ ~(n > c.lwin) /\ d = [c EXCEPT !.extended = c.extended + n, !.lwin = c.lwin - n]
  <2>1. c.lwin - n \in Nat /\ c.extended + n \in Nat
    BY <1>2 DEF ChannelRecord
  <2>2. /\ d \in ChannelRecord /\ d.type = "open" /\ d.lwin = c.lwin - n /\ d.rwin = c.rwin /\ d.out = c.out
        /\ d.extended = c.extended + n /\ d.extusage = c.extusage /\ d.cons = c.cons /\ d.output = c.output
    BY <1>2, <2>1 DEF ChannelRecord
  <2> HIDE DEF d
  <2>3. Sending(d) = Sending(c) /\ Granted(d) = Granted(c) /\ Buffered(c) = c.extended /\ Buffered(d) = c.extended + n
    BY <1>2, <2>2 DEF Sending, Granted, Buffered, EfdWrite
  <2>4. /\ Sending(c) \in Nat /\ Granted(c) \in Nat /\ c.extended \in Nat /\ c.lwin \in Nat
        /\ c.cons \in Nat /\ c.output \in Nat
    BY Counters
  <2>5. Budget(d) = Budget(c)
    <3>1. Budget(d) = (c.lwin - n) + c.cons + c.output + (c.extended + n)
      BY <2>2, <2>3 DEF Budget
    <3>2. Budget(c) = c.lwin + c.cons + c.output + c.extended
      BY <2>3 DEF Budget
    <3> QED BY ONLY <2>4, <3>1, <3>2, n \in Nat
  <2>6. Sending(d) <= Sending(c) + 0 /\ Granted(d) + c.lwin <= d.lwin + Granted(c) + n
    <3>1. d.lwin = c.lwin - n
      BY <2>2
    <3> QED BY ONLY <2>3, <2>4, <3>1, n \in Nat
  <2>7. Budget(d) <= Budget(c)
    BY <2>5, Counters
  <2> QED BY <2>2, <2>6, <2>7, OpenFlows DEF d
<1> QED BY <1>1, <1>2 DEF channel_input_extended_data

\* WINDOW_ADJUST gives the sender what the link carried.
LEMMA FlowAdjust ==
    ASSUME NEW c \in ChannelRecord, NEW n \in Nat, c.type # "opening"
    PROVE  Flows(c, channel_input_window_adjust(c, n), n, 0)
<1> DEFINE d == channel_input_window_adjust(c, n)
<1>1. c.rwin + n \in Nat
  BY DEF ChannelRecord
<1>2. d = [c EXCEPT !.rwin = c.rwin + n]
  BY DEF channel_input_window_adjust
<1> HIDE DEF d
<1>3. /\ d \in ChannelRecord /\ d.rwin = c.rwin + n /\ d.lwin = c.lwin /\ d.cons = c.cons /\ d.output = c.output /\ d.type = c.type
      /\ d.extended = c.extended /\ d.extusage = c.extusage /\ d.out = c.out /\ d.flags = c.flags /\ d.input = c.input
  BY <1>1, <1>2 DEF ChannelRecord
<1>4. Carried(c.out, DataPackets) \in Nat /\ c.rwin \in Nat /\ Sending(c) \in Nat /\ Granted(c) \in Nat /\ c.lwin \in Nat
  BY Counters, CarriedNat DEF ChannelRecord
<1>5. Sending(d) = c.rwin + n + Carried(c.out, DataPackets) /\ Sending(c) = c.rwin + Carried(c.out, DataPackets)
  BY <1>3 DEF Sending
<1>6. Sending(d) <= Sending(c) + n
  BY ONLY <1>4, <1>5, n \in Nat
<1>7. Granted(d) = Granted(c) /\ Budget(d) = Budget(c) /\ (Blank(c) => Blank(d))
  BY <1>3 DEF Granted, Budget, Buffered, EfdWrite, Blank, Unused
<1>8. Granted(d) + c.lwin <= d.lwin + Granted(c) + 0
  BY <1>3, <1>4, <1>7
<1>9. Flows(c, d, n, 0)
  <2>1. Budget(d) <= Budget(c)
    BY <1>3, <1>7, Counters
  <2> QED BY <1>3, <1>6, <1>7, <1>8, <2>1, LimitedBy DEF Flows
<1> QED BY <1>9 DEF d

----------------------------------------------------------------------------
(* The invariant of the two ends.                                          *)

\* What c sent or may send is within what s granted.
Within(c, s) == Sending(c) + Granted(s) <= s.lwin

\* What an end may have granted, hold and have consumed when the texts put on
\* the client's stderr came to told bytes.
Limit(p, told) == WindowMax + (IF p = "client" THEN told ELSE 0)

\* No window is overrun, and no end has more outstanding than it may.
FlowIn(told) ==
    /\ fault # "window"
    /\ \A p \in Peers : /\ Within(ch[Other(p)], ch[p])
                        /\ Budget(ch[p]) <= Limit(p, told) /\ Blank(ch[p])

FlowInv == FlowIn(moved.told)

\* The limits are natural numbers.
LEMMA Limits ==
    ASSUME NEW p, NEW told \in Nat, NEW more \in Nat
    PROVE  /\ Limit(p, told) \in Nat /\ WindowMax <= Limit(p, told)
           /\ Limit(p, told) <= Limit(p, told + more)
           /\ Limit("client", told + more) = Limit("client", told) + more
BY SizeAssumption DEF Limit

\* So code that is limited stays within them.
LEMMA LimitedTo ==
    ASSUME NEW c, NEW d, Limited(c, d), NEW p, NEW told \in Nat, Budget(c) <= Limit(p, told)
    PROVE  Budget(d) <= Limit(p, told)
<1>1. Limit(p, told) \in Nat /\ WindowMax <= Limit(p, told)
  BY Limits
<1> QED BY <1>1 DEF Limited

\* The part of the invariant the packet handlers need.
LEMMA FlowWithin == ASSUME FlowInv PROVE \A q \in Peers : Within(ch[Other(q)], ch[q]) /\ Blank(ch[q])
BY DEF FlowInv, FlowIn

\* The invariant is what WindowAgreement asks for, and more.
LEMMA FlowGoal == ASSUME FlowInv PROVE WindowAgreement
<1> SUFFICES ASSUME NEW p \in Peers
             PROVE  /\ Promised(p) <= ch[p].lwin
                    /\ ch[p].lwin + ch[p].cons + ch[p].output
                       + (IF EfdWrite(ch[p]) THEN ch[p].extended ELSE 0) <= WindowMax + Uncharged(p)
  BY DEF WindowAgreement, FlowInv, FlowIn
<1>1. Within(ch[Other(p)], ch[p]) /\ Budget(ch[p]) <= WindowMax + Uncharged(p)
  BY DEF FlowInv, FlowIn, Limit, Uncharged
<1>2. Promised(p) = Sending(ch[Other(p)]) + Granted(ch[p])
  BY DEF Promised, Sending, Granted, DataPackets, CreditPackets
<1> QED BY <1>1, <1>2 DEF Within, Budget, Buffered

\* A step of one end alone.
LEMMA FlowStep ==
    ASSUME IInv, NEW told \in Nat, FlowIn(told), NEW p \in Peers, NEW d, Step(p, d), Flows(ch[p], d, 0, 0), fault' # "window"
    PROVE  FlowIn(told)'
<1> DEFINE q == Other(p)
           c == ch[p]
           s == ch[q]
<1>1. q \in Peers /\ q # p /\ Other(q) = p /\ Peers = {p, q}
  BY TwoPeers
<1>2. ch \in [Peers -> ChannelRecord]
  BY DEF IInv, TypeOK
<1>3. c \in ChannelRecord /\ s \in ChannelRecord /\ d \in ChannelRecord
  BY <1>1, <1>2 DEF Flows
<1>4. ch'[p] = d /\ ch'[q] = s
  BY <1>1, <1>2 DEF Step
<1>5. /\ Within(s, c) /\ Within(c, s) /\ Budget(c) <= Limit(p, told) /\ Blank(c) /\ Budget(s) <= Limit(q, told) /\ Blank(s)
  BY <1>1 DEF FlowIn
<1>6. /\ Sending(d) <= Sending(c) + 0 /\ Granted(d) + c.lwin <= d.lwin + Granted(c) + 0
      /\ Budget(d) <= Limit(p, told) /\ Blank(d)
  BY <1>5, LimitedTo DEF Flows
<1>7. /\ Sending(c) \in Nat /\ Granted(c) \in Nat /\ c.lwin \in Nat
      /\ Sending(s) \in Nat /\ Granted(s) \in Nat /\ s.lwin \in Nat
      /\ Sending(d) \in Nat /\ Granted(d) \in Nat /\ d.lwin \in Nat
  BY <1>3, Counters
<1>8. Within(s, d) /\ Within(d, s)
  <2>1. Sending(s) + Granted(c) <= c.lwin /\ Sending(c) + Granted(s) <= s.lwin
    BY <1>5 DEF Within
  <2>2. Sending(s) + Granted(d) <= d.lwin /\ Sending(d) + Granted(s) <= s.lwin
    BY ONLY <1>6, <1>7, <2>1
  <2> QED BY <2>2 DEF Within
<1> HIDE DEF c, s
<1>9. \A o \in Peers : /\ Within(ch'[Other(o)], ch'[o])
                       /\ Budget(ch'[o]) <= Limit(o, told) /\ Blank(ch'[o])
  BY <1>1, <1>4, <1>5, <1>6, <1>8
<1> QED BY <1>9 DEF FlowIn

\* The packet an end takes, and what it leaves in the link.
LEMMA TakenSums ==
    ASSUME IInv, NEW p \in Peers, NEW d, NEW f, Handled(p, d, f), ch[Other(p)].out # <<>>
    PROVE  /\ ch'[p] = d /\ ch'[Other(p)] \in ChannelRecord /\ Msg(p) \in Packet
           /\ Sending(ch'[Other(p)]) + Weight(Msg(p), DataPackets) = Sending(ch[Other(p)])
           /\ Granted(ch'[Other(p)]) + Weight(Msg(p), CreditPackets) = Granted(ch[Other(p)])
           /\ ch'[Other(p)].lwin = ch[Other(p)].lwin
           /\ Budget(ch'[Other(p)]) = Budget(ch[Other(p)])
           /\ Blank(ch[Other(p)]) => Blank(ch'[Other(p)])
           /\ \A T : Carried(ch[Other(p)].out, T) = Weight(Msg(p), T) + Carried(ch'[Other(p)].out, T)
<1> DEFINE q == Other(p)
           s == ch[q]
           u == ch'[q]
<1>1. q \in Peers
  BY TwoPeers
<1>2. s \in ChannelRecord /\ s.out \in Seq(Packet)
  BY <1>1 DEF IInv, TypeOK, ChannelRecord
<1>3. ch'[p] = d /\ u = [s EXCEPT !.out = Tail(s.out)] /\ u \in ChannelRecord
  BY HandledCh DEF Sane
<1>4. Msg(p) = Head(s.out) /\ Msg(p) \in Packet
  BY <1>2 DEF Msg
<1>5. \A T : Carried(s.out, T) = Weight(Msg(p), T) + Carried(Tail(s.out), T)
  BY <1>2, <1>4, CarriedTail
<1>6. /\ u.rwin = s.rwin /\ u.lwin = s.lwin /\ u.cons = s.cons /\ u.output = s.output /\ u.extended = s.extended /\ u.input = s.input
      /\ u.extusage = s.extusage /\ u.type = s.type /\ u.flags = s.flags /\ u.out = Tail(s.out)
  BY <1>2, <1>3 DEF ChannelRecord
<1> HIDE DEF u, s
<1>7. \A T : Weight(Msg(p), T) \in Nat /\ Carried(Tail(s.out), T) \in Nat
  BY <1>2, <1>3, <1>4, <1>6, WeightNat, CarriedNat DEF ChannelRecord
<1>8. s.rwin \in Nat
  BY <1>2 DEF ChannelRecord
<1>9. Sending(u) + Weight(Msg(p), DataPackets) = Sending(s)
  <2>1. Sending(u) = s.rwin + Carried(Tail(s.out), DataPackets) /\ Sending(s) = s.rwin + (Weight(Msg(p), DataPackets) + Carried(Tail(s.out), DataPackets))
    BY <1>5, <1>6 DEF Sending
  <2>2. Weight(Msg(p), DataPackets) \in Nat /\ Carried(Tail(s.out), DataPackets) \in Nat
    BY <1>7
  <2> QED BY ONLY <1>8, <2>1, <2>2
<1>10. Granted(u) + Weight(Msg(p), CreditPackets) = Granted(s)
  <2>1. Granted(u) = Carried(Tail(s.out), CreditPackets) /\ Granted(s) = Weight(Msg(p), CreditPackets) + Carried(Tail(s.out), CreditPackets)
    BY <1>5, <1>6 DEF Granted
  <2>2. Weight(Msg(p), CreditPackets) \in Nat /\ Carried(Tail(s.out), CreditPackets) \in Nat
    BY <1>7
  <2> QED BY ONLY <2>1, <2>2
<1>11. Budget(u) = Budget(s) /\ (Blank(s) => Blank(u))
  BY <1>6 DEF Budget, Buffered, EfdWrite, Blank, Unused
<1>12. \A T : Carried(s.out, T) = Weight(Msg(p), T) + Carried(u.out, T)
  BY <1>5, <1>6
<1> QED BY <1>3, <1>4, <1>6, <1>9, <1>10, <1>11, <1>12 DEF u, s

\* A step that takes a packet, by what it makes of the counters.
LEMMA FlowTakeBy ==
    ASSUME IInv, NEW told \in Nat, FlowIn(told), NEW more \in Nat,
           NEW p \in Peers, NEW d \in ChannelRecord, NEW f, Handled(p, d, f), ch[Other(p)].out # <<>>,
           Sending(d) <= Sending(ch[p]) + Weight(Msg(p), CreditPackets),
           Granted(d) + ch[p].lwin <= d.lwin + Granted(ch[p]) + Weight(Msg(p), DataPackets),
           Budget(d) <= Limit(p, told + more), Blank(d), fault' # "window"
    PROVE  FlowIn(told + more)'
<1> DEFINE q == Other(p)
           c == ch[p]
           s == ch[q]
           u == ch'[q]
           a == Weight(Msg(p), CreditPackets)
           b == Weight(Msg(p), DataPackets)
<1>1. q \in Peers /\ q # p /\ Other(q) = p /\ Peers = {p, q}
  BY TwoPeers
<1>2. c \in ChannelRecord /\ s \in ChannelRecord
  BY <1>1 DEF IInv, TypeOK
<1>3. /\ ch'[p] = d /\ u \in ChannelRecord /\ Sending(u) + b = Sending(s) /\ Granted(u) + a = Granted(s)
      /\ u.lwin = s.lwin /\ Budget(u) = Budget(s) /\ (Blank(s) => Blank(u)) /\ a \in Nat /\ b \in Nat
  BY TakenSums, WeightNat
<1>5. /\ Within(s, c) /\ Within(c, s) /\ Blank(s) /\ Budget(s) <= Limit(q, told)
  BY <1>1 DEF FlowIn
<1>6. Sending(d) <= Sending(c) + a /\ Granted(d) + c.lwin <= d.lwin + Granted(c) + b
  OBVIOUS
<1>7. Budget(u) <= Limit(q, told + more)
  <2>1. Limit(q, told) \in Nat /\ Limit(q, told + more) \in Nat /\ Limit(q, told) <= Limit(q, told + more)
    <3>1. told + more \in Nat
      OBVIOUS
    <3> QED BY <3>1, Limits
  <2>2. Budget(s) \in Nat /\ Budget(u) = Budget(s) /\ Budget(s) <= Limit(q, told)
    BY <1>2, <1>3, <1>5, Counters
  <2> QED BY ONLY <2>1, <2>2
<1> HIDE DEF c, s, u, a, b
<1>8. Within(u, d) /\ Within(d, u)
  <2>0. /\ Sending(c) \in Nat /\ Granted(c) \in Nat /\ c.lwin \in Nat
        /\ Sending(s) \in Nat /\ Granted(s) \in Nat /\ s.lwin \in Nat
        /\ Sending(d) \in Nat /\ Granted(d) \in Nat /\ d.lwin \in Nat
        /\ Sending(u) \in Nat /\ Granted(u) \in Nat
    BY <1>2, <1>3, Counters
  <2>1. Sending(s) + Granted(c) <= c.lwin /\ Sending(c) + Granted(s) <= s.lwin
    BY <1>5 DEF Within
  <2>2. /\ Sending(u) + b = Sending(s) /\ Granted(u) + a = Granted(s) /\ u.lwin = s.lwin
        /\ Sending(d) <= Sending(c) + a /\ Granted(d) + c.lwin <= d.lwin + Granted(c) + b
        /\ a \in Nat /\ b \in Nat
    BY <1>3, <1>6
  <2>3. Sending(u) + Granted(d) <= d.lwin /\ Sending(d) + Granted(u) <= u.lwin
    BY ONLY <2>0, <2>1, <2>2
  <2> QED BY <2>3 DEF Within
<1>9. \A o \in Peers : /\ Within(ch'[Other(o)], ch'[o])
                       /\ Budget(ch'[o]) <= Limit(o, told + more) /\ Blank(ch'[o])
  BY <1>1, <1>3, <1>5, <1>7, <1>8 DEF u
<1> QED BY <1>9 DEF FlowIn

\* A step that takes a packet and puts no text on stderr.
LEMMA FlowTake ==
    ASSUME IInv, NEW told \in Nat, FlowIn(told), NEW p \in Peers, NEW d, NEW f, Handled(p, d, f), ch[Other(p)].out # <<>>,
           Flows(ch[p], d, Weight(Msg(p), CreditPackets), Weight(Msg(p), DataPackets)), fault' # "window"
    PROVE  FlowIn(told)'
<1>1. Budget(ch[p]) <= Limit(p, told) /\ Blank(ch[p])
  BY DEF FlowIn
<1>2. d \in ChannelRecord /\ Budget(d) <= Limit(p, told) /\ Blank(d)
  BY <1>1, LimitedTo DEF Flows
<1>3. told + 0 = told /\ 0 \in Nat
  OBVIOUS
<1>4. FlowIn(told + 0)'
  BY <1>2, <1>3, FlowTakeBy DEF Flows
<1> QED BY <1>3, <1>4

----------------------------------------------------------------------------
(* The packet handlers keep the windows in step.                           *)

\* A packet handler that moves no byte.
LEMMA QuietTakeFlow ==
    ASSUME IInv, NEW told \in Nat, FlowIn(told), NEW p \in Peers, NEW d, NEW f, Handled(p, d, f), ch[Other(p)].out # <<>>,
           Quiescent(ch[p], d), f # "window"
    PROVE  FlowIn(told)'
<1>1. Msg(p) \in Packet /\ fault' = f
  BY TakenSums DEF Handled
<1>2. Weight(Msg(p), CreditPackets) \in Nat /\ Weight(Msg(p), DataPackets) \in Nat
  BY <1>1, WeightNat
<1>3. ch[p] \in ChannelRecord
  BY DEF IInv, TypeOK
<1> QED BY <1>1, <1>2, <1>3, QuietFlows, FlowTake

\* A packet in the link counts for no more than the link carries.
LEMMA WithinWindow ==
    ASSUME IInv, \A q \in Peers : Within(ch[Other(q)], ch[q]), NEW p \in Peers, NEW t \in DataPackets, Receives(p, t)
    PROVE  Msg(p).n \in Nat /\ Msg(p).n <= ch[p].lwin
<1> DEFINE q == Other(p)
           s == ch[q]
           n == Msg(p).n
<1>1. q \in Peers /\ s.out # <<>> /\ Msg(p) = Head(s.out) /\ Msg(p).t = t
  BY TwoPeers DEF Receives, Msg
<1>2. s \in ChannelRecord /\ ch[p] \in ChannelRecord /\ s.out \in Seq(Packet) /\ s.rwin \in Nat /\ ch[p].lwin \in Nat
  BY <1>1 DEF IInv, TypeOK, ChannelRecord
<1>3. Msg(p) \in Packet /\ n \in Nat
  <2>1. Msg(p) \in Packet
    BY <1>1, <1>2
  <2> QED BY <2>1 DEF Packet
<1>4. Weight(Msg(p), DataPackets) = n
  BY <1>1 DEF Weight
<1>5. Carried(s.out, DataPackets) = n + Carried(Tail(s.out), DataPackets)
  BY <1>1, <1>2, <1>4, CarriedTail
<1>6. Carried(Tail(s.out), DataPackets) \in Nat /\ Granted(ch[p]) \in Nat
  <2>1. Tail(s.out) \in Seq(Packet)
    BY <1>1, <1>2
  <2> QED BY <1>2, <2>1, CarriedNat, Counters
<1>7. s.rwin + Carried(s.out, DataPackets) + Granted(ch[p]) <= ch[p].lwin
  BY DEF Within, Sending
<1> HIDE DEF n, s
<1>8. n <= ch[p].lwin
  BY ONLY <1>2, <1>3, <1>5, <1>6, <1>7
<1> QED BY <1>3, <1>8 DEF n

\* The handlers both ends have.
LEMMA FlowDispatch ==
    ASSUME IInv, NEW told \in Nat, FlowIn(told), NEW p \in Peers, Dispatch(p)
    PROVE  FlowIn(told)'
<1>0. ch[p] \in ChannelRecord
  BY DEF IInv, TypeOK
<1>1. ASSUME InputData(p) PROVE FlowIn(told)'
  <2>1. Receives(p, "DATA") /\ "DATA" \in PacketTypes \ OpenTypes /\ "DATA" \in DataPackets /\ "DATA" \notin CreditPackets
    BY <1>1 DEF InputData, PacketTypes, OpenTypes, DataPackets, CreditPackets
  <2>2. Live(p)
    BY <2>1, Received
  <2>3. Msg(p).n \in Nat /\ Msg(p).n <= ch[p].lwin
    BY <2>1, WithinWindow DEF FlowIn
  <2>4. ~WindowExceeded(ch[p], Msg(p).n)
    BY <1>0, <2>3 DEF WindowExceeded, ChannelRecord
  <2>5. Handled(p, channel_input_data(ch[p], Msg(p).n), "none")
    BY <1>1, <2>2, <2>4 DEF InputData
  <2>6. Weight(Msg(p), CreditPackets) = 0 /\ Weight(Msg(p), DataPackets) = Msg(p).n /\ ch[Other(p)].out # <<>>
    BY <2>1 DEF Weight, Receives
  <2>7. Flows(ch[p], channel_input_data(ch[p], Msg(p).n), Weight(Msg(p), CreditPackets), Weight(Msg(p), DataPackets))
    BY <1>0, <2>3, <2>6, FlowData
  <2>8. fault' # "window"
    BY <2>5 DEF Handled
  <2> QED BY <2>5, <2>6, <2>7, <2>8, FlowTake
<1>2. ASSUME InputIeof(p) \/ InputOclose(p) \/ InputEow(p) PROVE FlowIn(told)'
  <2>1. PICK t \in {"EOF", "CLOSE", "EOW"} : Receives(p, t)
    BY <1>2 DEF InputIeof, InputOclose, InputEow
  <2>2. Live(p) /\ ch[Other(p)].out # <<>>
    <3>1. t \in PacketTypes \ OpenTypes
      BY DEF PacketTypes, OpenTypes
    <3> QED BY <2>1, <3>1, Received DEF Receives
  <2>3. PICK d \in {chan_rcvd_ieof(ch[p]), chan_rcvd_oclose(ch[p]), chan_rcvd_eow(ch[p])} : Handled(p, d, "none")
    BY <1>2, <2>2 DEF InputIeof, InputOclose, InputEow, ForChannel, IfChannel, Outcome
  <2>4. Quiescent(ch[p], d)
    BY <1>0, StillIeof, StillOclose, StillReads, StillQuiet
  <2> QED BY <2>2, <2>3, <2>4, QuietTakeFlow
<1>3. ASSUME InputWindowAdjust(p) PROVE FlowIn(told)'
  <2>1. Receives(p, "ADJUST") /\ "ADJUST" \in PacketTypes \ OpenTypes /\ "ADJUST" \notin DataPackets /\ "ADJUST" \in CreditPackets
    BY <1>3 DEF InputWindowAdjust, PacketTypes, OpenTypes, DataPackets, CreditPackets
  <2>2. Live(p) /\ Msg(p).n \in Nat /\ ch[p].type # "opening"
    BY <2>1, Received
  <2>3. Handled(p, channel_input_window_adjust(ch[p], Msg(p).n), "none")
    BY <1>3, <2>2 DEF InputWindowAdjust, IfChannel
  <2>4. Weight(Msg(p), CreditPackets) = Msg(p).n /\ Weight(Msg(p), DataPackets) = 0 /\ ch[Other(p)].out # <<>>
    BY <2>1 DEF Weight, Receives
  <2>5. Flows(ch[p], channel_input_window_adjust(ch[p], Msg(p).n), Weight(Msg(p), CreditPackets), Weight(Msg(p), DataPackets))
    BY <1>0, <2>2, <2>4, FlowAdjust
  <2>6. fault' # "window"
    BY <2>3 DEF Handled
  <2> QED BY <2>3, <2>4, <2>5, <2>6, FlowTake
<1> QED BY <1>1, <1>2, <1>3 DEF Dispatch

\* The handlers of the client alone.
LEMMA FlowClient ==
    ASSUME IInv, NEW told \in Nat, FlowIn(told), InputExtendedData \/ InputExitStatus
    PROVE  FlowIn(told)'
<1> DEFINE c == ch["client"]
<1>0. "client" \in Peers /\ c \in ChannelRecord
  BY DEF IInv, TypeOK, Peers
<1>1. ASSUME InputExtendedData PROVE FlowIn(told)'
  <2>1. Receives("client", "EXT") /\ "EXT" \in PacketTypes \ OpenTypes /\ "EXT" \in DataPackets /\ "EXT" \notin CreditPackets
    BY <1>1 DEF InputExtendedData, PacketTypes, OpenTypes, DataPackets, CreditPackets
  <2>2. Live("client") /\ Msg("client").n \in Nat
    BY <1>0, <2>1, Received
  <2>3. PICK f : Handled("client", channel_input_extended_data(c, Msg("client").n), f) /\ f # "window"
    BY <1>1, <2>2 DEF InputExtendedData, Outcome
  <2>4. Weight(Msg("client"), CreditPackets) = 0 /\ Weight(Msg("client"), DataPackets) = Msg("client").n /\ ch[Other("client")].out # <<>>
    BY <2>1 DEF Weight, Receives
  <2>5. Flows(c, channel_input_extended_data(c, Msg("client").n), Weight(Msg("client"), CreditPackets), Weight(Msg("client"), DataPackets))
    BY <1>0, <2>2, <2>4, FlowExtended
  <2>6. fault' # "window"
    BY <2>3 DEF Handled
  <2> QED BY <1>0, <2>3, <2>4, <2>5, <2>6, FlowTake
<1>2. ASSUME InputExitStatus PROVE FlowIn(told)'
  <2>1. ch[Other("client")].out # <<>>
    BY <1>2 DEF InputExitStatus, Receives
  <2>2. Handled("client", c, "none")
    BY <1>2 DEF InputExitStatus, IfChannel
  <2>3. Quiescent(c, c)
    BY <1>0, QuiescentRefl
  <2> QED BY <1>0, <2>1, <2>2, <2>3, QuietTakeFlow
<1> QED BY <1>1, <1>2

\* The reply to a request: a text is put on stderr that no window was charged
\* for, and what the client may have outstanding grows by as much.
LEMMA FlowStatus ==
    ASSUME IInv, NEW told \in Nat, FlowIn(told), told = moved.told, InputStatusConfirm
    PROVE  FlowInv'
<1> DEFINE c == ch["client"]
<1>0. "client" \in Peers /\ c \in ChannelRecord
  BY DEF IInv, TypeOK, Peers
<1>1. PICK t \in {"SUCCESS", "REFUSED", "FAILURE"}, text \in {0, ErrorText}, f \in {"exit", "none"}, b \in BOOLEAN :
        \E d \in {c, client_status_confirm(c, t, text)}, k \in {moved.told, moved.told + text} :
          Answering(t, text, f, d, b, k)
  BY Confirmed
<1>2. PICK d \in {c, client_status_confirm(c, t, text)}, k \in {moved.told, moved.told + text} :
        Answering(t, text, f, d, b, k)
  BY <1>1
<1>3. /\ Receives("client", t) /\ Handled("client", d, f) /\ moved' = [moved EXCEPT !.lossy = b, !.told = k]
      /\ text # 0 => EfdWrite(c)
      /\ (d = c /\ k = told) \/ (d = client_status_confirm(c, t, text) /\ k = told + text)
  BY <1>2 DEF Answering
<1>4. /\ moved'.told = k /\ ch[Other("client")].out # <<>> /\ f # "window" /\ fault' # "window"
      /\ text \in Nat /\ told + text \in Nat /\ t \in PacketTypes \ OpenTypes
  BY <1>3, SizeAssumption DEF IInv, TypeOK, Receives, Handled, PacketTypes, OpenTypes
<1>5. ASSUME d = c, k = told PROVE FlowInv'
  <2>1. Quiescent(c, d)
    BY <1>0, <1>5, QuiescentRefl
  <2>2. FlowIn(told)'
    BY <1>0, <1>3, <1>4, <2>1, QuietTakeFlow
  <2> QED BY <1>4, <1>5, <2>2 DEF FlowInv
<1>6. ASSUME d = client_status_confirm(c, t, text), k = told + text PROVE FlowInv'
  <2> DEFINE e == [c EXCEPT !.extended = c.extended + text]
  <2>1. e \in ChannelRecord /\ Quiescent(e, d)
    BY <1>0, <1>4, <1>6, QuietStatus
  <2>2. c.type \in {"open", "abandoned"}
    BY <1>0, <1>3, <1>4, Received
  <2>3. /\ e.lwin = c.lwin /\ e.rwin = c.rwin /\ e.out = c.out /\ e.cons = c.cons /\ e.output = c.output
        /\ e.extusage = c.extusage /\ e.extended = c.extended + text /\ e.type = c.type
    BY <1>0 DEF ChannelRecord
  <2> HIDE DEF e
  <2>4. Sending(e) = Sending(c) /\ Granted(e) = Granted(c)
    BY <2>3 DEF Sending, Granted
  <2>5. /\ c.lwin \in Nat /\ c.cons \in Nat /\ c.output \in Nat /\ c.extended \in Nat /\ Buffered(c) \in Nat
        /\ Budget(c) \in Nat /\ Sending(c) \in Nat /\ Granted(c) \in Nat
    BY <1>0, Counters
  <2>6. Buffered(e) = Buffered(c) + text
    <3>1. CASE EfdWrite(c)
      BY <2>3, <3>1 DEF Buffered, EfdWrite
    <3>2. CASE ~EfdWrite(c)
      BY <1>3, <2>3, <2>5, <3>2 DEF Buffered, EfdWrite
    <3> QED BY <3>1, <3>2
  <2>7. Budget(e) = Budget(c) + text
    <3>1. Budget(e) = c.lwin + c.cons + c.output + (Buffered(c) + text) /\ Budget(c) = c.lwin + c.cons + c.output + Buffered(c)
      BY <2>3, <2>6 DEF Budget
    <3>2. text \in Nat
      BY <1>4
    <3> QED BY ONLY <2>5, <3>1, <3>2
  <2>8. Flows(e, d, 0, 0)
    BY <2>1, QuietFlows
  <2>9. Budget(d) <= Limit("client", told + text)
    <3>1. Budget(c) <= Limit("client", told)
      BY <1>0 DEF FlowIn
    <3>2. Limit("client", told + text) = Limit("client", told) + text /\ Limit("client", told) \in Nat
      BY <1>4, Limits
    <3>3. Budget(e) <= Limit("client", told + text)
      BY ONLY <1>4, <2>5, <2>7, <3>1, <3>2
    <3>4. Limited(e, d)
      BY <2>8 DEF Flows
    <3> QED BY <1>4, <3>3, <3>4, LimitedTo
  <2>10. Blank(d)
    BY <2>1, <2>2, <2>3 DEF Quiescent, Blank, Unused, FreshTypes
  <2>11. /\ d \in ChannelRecord /\ Weight(Msg("client"), CreditPackets) = 0 /\ Weight(Msg("client"), DataPackets) = 0
    BY <1>3, <2>8 DEF Flows, Receives, Weight, CreditPackets, DataPackets
  <2>12. /\ Sending(d) <= Sending(c) + Weight(Msg("client"), CreditPackets)
         /\ Granted(d) + c.lwin <= d.lwin + Granted(c) + Weight(Msg("client"), DataPackets)
    BY <2>3, <2>4, <2>8, <2>11 DEF Flows
  <2>13. FlowIn(told + text)'
    BY <1>0, <1>3, <1>4, <2>9, <2>10, <2>11, <2>12, FlowTakeBy
  <2> QED BY <1>4, <1>6, <2>13 DEF FlowInv
<1> QED BY <1>3, <1>5, <1>6

\* A refused open leaves a channel that was never used.
LEMMA FlowOpenFailure ==
    ASSUME IInv, NEW told \in Nat, FlowIn(told), InputOpenFailure
    PROVE  FlowIn(told)'
<1> DEFINE c == ch["client"]
           d == channel_input_open_failure(c)
<1>0. "client" \in Peers /\ c \in ChannelRecord
  BY DEF IInv, TypeOK, Peers
<1>1. Receives("client", "OPENFAIL") /\ ch[Other("client")].out # <<>>
  BY DEF InputOpenFailure, Receives
<1>2. c.type = "opening"
  BY <1>1, OpenDue
<1>3. Handled("client", d, "none")
  BY <1>2 DEF InputOpenFailure, Outcome
<1>4. d = [c EXCEPT !.type = "zombie"] /\ "zombie" \in Types
  BY DEF channel_input_open_failure, Types
<1> HIDE DEF d
<1>5. /\ d \in ChannelRecord /\ d.lwin = c.lwin /\ d.cons = c.cons /\ d.rwin = c.rwin /\ d.extended = c.extended
      /\ d.extusage = c.extusage /\ d.input = c.input /\ d.output = c.output /\ d.out = c.out
      /\ d.type = "zombie"
  BY <1>0, <1>4 DEF ChannelRecord
<1>6. SameSums(c, d)
  BY <1>5 DEF SameSums
<1>7. Unused(c) /\ c.input <= c.input /\ c.output <= c.output
  BY <1>0, <1>2 DEF Unused, FreshTypes, ChannelRecord
<1>8. Quiescent(c, d)
  BY <1>5, <1>6, <1>7 DEF Quiescent
<1> QED BY <1>0, <1>1, <1>3, <1>8, QuietTakeFlow

\* The confirmation gives the client the window of the server.
LEMMA FlowConfirmation ==
    ASSUME IInv, NEW told \in Nat, FlowIn(told), InputOpenConfirmation
    PROVE  FlowIn(told)'
<1> DEFINE c == ch["client"]
           n == Msg("client").n
           k == [c EXCEPT !.rwin = n, !.type = "open"]
           d == channel_input_open_confirmation(c, n)
<1>0. "client" \in Peers /\ c \in ChannelRecord
  BY DEF IInv, TypeOK, Peers
<1>1. Receives("client", "CONFIRM") /\ ch[Other("client")].out # <<>> /\ Msg("client").t = "CONFIRM"
  BY DEF InputOpenConfirmation, Receives
<1>2. Confirming(ch["client"], ch["server"])
  BY <1>1, OpenDue
<1>3. Handled("client", d, "none")
  BY <1>2 DEF InputOpenConfirmation, Outcome, Confirming
<1>4. Msg("client") \in Packet
  BY <1>0, <1>1, <1>3, TakenSums
<1>5. n \in Nat /\ Weight(Msg("client"), CreditPackets) = n /\ Weight(Msg("client"), DataPackets) = 0
  BY <1>1, <1>4 DEF Packet, Weight, CreditPackets, DataPackets
<1> HIDE DEF n
<1>6. k \in ChannelRecord /\ k.rwin = n /\ k.out = c.out /\ k.lwin = c.lwin /\ k.type = "open"
      /\ k.cons = c.cons /\ k.output = c.output /\ k.extended = c.extended /\ k.extusage = c.extusage
  BY <1>0, <1>5 DEF ChannelRecord, Types
<1> DEFINE x == IF DetachClose THEN Send(k, "X11REQ", 0) ELSE k
<1>7. d = IF IsSession THEN Send(x, "EXEC", 0) ELSE k
  BY DEF channel_input_open_confirmation
<1> HIDE DEF k, d
<1>8. Still(k, d)
  <2>1. Still(k, x) /\ x \in ChannelRecord
    BY <1>6, SmallUpdates, StillRefl, Constants, StillRecord
  <2> HIDE DEF x
  <2>2. Still(x, Send(x, "EXEC", 0))
    BY <2>1, SmallUpdates, Constants
  <2> QED BY <1>6, <1>7, <2>1, <2>2, StillRefl, StillTrans
<1>9. Flows(c, k, n, 0)
  <2>1. Granted(k) = Granted(c) /\ Budget(k) = Budget(c)
    BY <1>6 DEF Granted, Budget, Buffered, EfdWrite
  <2>2. Sending(k) = n + Carried(c.out, DataPackets) /\ Sending(c) = c.rwin + Carried(c.out, DataPackets)
    BY <1>6 DEF Sending
  <2>3. Carried(c.out, DataPackets) \in Nat /\ c.rwin \in Nat /\ Granted(c) \in Nat /\ c.lwin \in Nat /\ Budget(c) \in Nat
    BY <1>0, CarriedNat, Counters DEF ChannelRecord
  <2>4. Sending(k) <= Sending(c) + n
    BY ONLY <1>5, <2>2, <2>3
  <2>5. Granted(k) + c.lwin <= k.lwin + Granted(c) + 0 /\ Budget(k) <= Budget(c)
    BY <1>6, <2>1, <2>3
  <2> QED BY <1>0, <1>5, <1>6, <2>4, <2>5, OpenFlows
<1>10. Flows(c, d, n, 0)
  <2>1. Flows(k, d, 0, 0)
    BY <1>6, <1>8, StillQuiet, QuietFlows
  <2> QED BY <1>0, <1>5, <1>9, <2>1, FlowsTrans
<1>11. fault' # "window"
  BY <1>3 DEF Handled
<1> QED BY <1>0, <1>1, <1>3, <1>5, <1>10, <1>11, FlowTake

\* The channels a server makes for an open request, and the packet it answers
\* with.
LEMMA NewCounters ==
    ASSUME NEW n \in Nat, NEW e \in {LarvalChannel(n), DialingChannel(n)}
    PROVE  /\ e \in ChannelRecord /\ e.out = <<>> /\ e.rwin = n /\ e.cons = 0 /\ e.output = 0
           /\ e.input = 0 /\ e.extended = 0 /\ e.extusage = "ignore"
           /\ e.istate = "open" /\ e.flags = {}
           /\ \/ e = LarvalChannel(n) /\ e.type = "larval" /\ e.lwin = 0
              \/ e = DialingChannel(n) /\ e.type = "connecting" /\ e.lwin = WindowMax
<1>1. e \in ChannelRecord
  BY NewRecords
<1>2. /\ e.out = <<>> /\ e.rwin = n /\ e.cons = 0 /\ e.output = 0 /\ e.input = 0 /\ e.extended = 0
      /\ e.extusage = "ignore" /\ e.istate = "open" /\ e.flags = {}
      /\ \/ e = LarvalChannel(n) /\ e.type = "larval" /\ e.lwin = 0
         \/ e = DialingChannel(n) /\ e.type = "connecting" /\ e.lwin = WindowMax
  <2>1. CASE e = LarvalChannel(n)
    BY <2>1 DEF LarvalChannel, NewChannel
  <2>2. CASE e = DialingChannel(n)
    BY <2>2 DEF DialingChannel, NewChannel
  <2> QED BY <2>1, <2>2
<1> QED BY <1>1, <1>2

\* The confirmation of a new channel, the first packet in its link.
LEMMA Confirms ==
    ASSUME NEW c \in ChannelRecord, c.out = <<>>, NEW n \in Nat
    PROVE  /\ Send(c, "CONFIRM", n) \in ChannelRecord
           /\ Send(c, "CONFIRM", n) = [c EXCEPT !.out = Append(c.out, Pkt("CONFIRM", n))]
           /\ \A T : Carried(Append(c.out, Pkt("CONFIRM", n)), T) = IF "CONFIRM" \in T THEN n ELSE 0
<1>1. "CONFIRM" \in PacketTypes
  BY DEF PacketTypes
<1>2. /\ Send(c, "CONFIRM", n) \in ChannelRecord
      /\ Send(c, "CONFIRM", n) = [c EXCEPT !.out = Append(c.out, Pkt("CONFIRM", n))]
      /\ \A T : Carried(Append(c.out, Pkt("CONFIRM", n)), T) = Carried(c.out, T) + (IF "CONFIRM" \in T THEN n ELSE 0)
  BY ONLY c \in ChannelRecord, n \in Nat, <1>1, SendSums
<1>3. \A T : Carried(c.out, T) = 0
  BY CarriedEmpty
<1> QED BY <1>2, <1>3

\* What the server makes of the client's OPEN.
LEMMA ServerOpens ==
    ASSUME IInv, ServerInputChannelOpen
    PROVE  /\ Asked(ch["client"], ch["server"]) /\ Msg("server").n \in Nat /\ Msg("server").t = "OPEN"
           /\ ch["client"].out # <<>>
           /\ \E d \in {Send(ch["server"], "OPENFAIL", 0), Send(LarvalChannel(Msg("server").n), "CONFIRM", 0),
                        DialingChannel(Msg("server").n)} : Handled("server", d, "none")
<1> DEFINE c == ch["client"]
           s == ch["server"]
           n == Msg("server").n
<1>0. /\ "server" \in Peers /\ "client" \in Peers
      /\ Other("server") = "client" /\ Receives("server", "OPEN") /\ Msg("server").t = "OPEN"
  BY DEF Peers, Other, ServerInputChannelOpen, Receives
<1>1. Asked(c, s)
  BY <1>0, OpenDue
<1>2. c.out \in Seq(Packet) /\ s.out = <<>> /\ c.out # <<>>
  BY <1>0, <1>1 DEF IInv, Asked, Sane, ChannelRecord
<1>3. n \in Nat
  <2>1. Len(c.out) = 1 /\ Msg("server") = c.out[1]
    BY <1>0, <1>1, <1>2 DEF Asked, Msg
  <2>2. c.out[1] \in Packet
    BY <1>2, <2>1, ElementOfSeq
  <2> QED BY <2>1, <2>2 DEF Packet
<1>4. \E d \in {Send(s, "OPENFAIL", 0), Send(LarvalChannel(n), "CONFIRM", 0), DialingChannel(n)} :
        Handled("server", d, "none")
  BY <1>2 DEF ServerInputChannelOpen, LarvalChannel, DialingChannel
<1> QED BY <1>0, <1>1, <1>2, <1>3, <1>4

\* server_input_channel_open takes the window the OPEN carries.
LEMMA FlowServerOpen ==
    ASSUME IInv, NEW told \in Nat, FlowIn(told), ServerInputChannelOpen
    PROVE  FlowIn(told)'
<1> DEFINE s == ch["server"]
           n == Msg("server").n
           lar == LarvalChannel(n)
           con == DialingChannel(n)
           ans == Send(lar, "CONFIRM", 0)
<1>0. "server" \in Peers /\ Other("server") = "client" /\ s \in ChannelRecord
  BY DEF IInv, TypeOK, Peers, Other
<1>1. Asked(ch["client"], s) /\ n \in Nat /\ Msg("server").t = "OPEN" /\ ch["client"].out # <<>>
  BY ServerOpens
<1>2. PICK d \in {Send(s, "OPENFAIL", 0), ans, con} : Handled("server", d, "none")
  BY ServerOpens
<1>3. Weight(Msg("server"), CreditPackets) = n /\ Weight(Msg("server"), DataPackets) = 0
  BY <1>1 DEF Weight, CreditPackets, DataPackets
<1>4. s.type = "none" /\ s.out = <<>> /\ s.lwin = 0
  <2>1. Blank(s)
    BY <1>0 DEF FlowIn
  <2> QED BY <1>1, <2>1 DEF Asked, Blank
<1>5. Sending(s) \in Nat /\ Granted(s) \in Nat /\ \A T : Carried(<<>>, T) = 0
  BY <1>0, Counters, CarriedEmpty
<1> HIDE DEF n
<1>6. ASSUME NEW e \in ChannelRecord, Sending(e) = n, Granted(e) = 0, e.lwin \in {0, WindowMax}, e.cons = 0, e.output = 0,
             e.input = 0, e.extended = 0, (e.type = "larval" /\ e.lwin = 0) \/ e.type = "connecting"
      PROVE  Flows(s, e, n, 0)
  <2>1. Sending(e) <= Sending(s) + n
    BY <1>1, <1>5, <1>6
  <2>2. Granted(e) + s.lwin <= e.lwin + Granted(s) + 0
    BY <1>4, <1>5, <1>6, SizeAssumption
  <2>3. Budget(e) <= WindowMax
    BY <1>6, SizeAssumption DEF Budget, Buffered
  <2>4. Blank(e)
    BY <1>6 DEF Blank
  <2>5. Limited(s, e)
    BY <1>0, <1>6, <2>3, LimitedBy
  <2> QED BY <1>6, <2>1, <2>2, <2>4, <2>5 DEF Flows
<1>7. CASE d = Send(s, "OPENFAIL", 0)
  <2>1. Quiescent(s, d)
    BY <1>0, <1>7, SmallUpdates, Constants
  <2> QED BY <1>0, <1>1, <1>2, <2>1, QuietTakeFlow
<1>8. Flows(s, con, n, 0)
  <2>1. /\ con \in ChannelRecord /\ con.out = <<>> /\ con.rwin = n /\ con.cons = 0 /\ con.output = 0
        /\ con.input = 0 /\ con.extended = 0 /\ con.type = "connecting" /\ con.lwin = WindowMax
    <3>1. con.type # "larval"
      BY DEF DialingChannel, NewChannel
    <3> QED BY <1>1, <3>1, NewCounters
  <2> HIDE DEF con
  <2>2. Sending(con) = n /\ Granted(con) = 0
    BY <1>1, <1>5, <2>1 DEF Sending, Granted
  <2> QED BY <1>6, <2>1, <2>2
<1>9. Flows(s, ans, n, 0)
  <2>1. /\ lar \in ChannelRecord /\ lar.out = <<>> /\ lar.rwin = n /\ lar.cons = 0 /\ lar.output = 0
        /\ lar.input = 0 /\ lar.extended = 0 /\ lar.type = "larval" /\ lar.lwin = 0
    <3>1. lar.type # "connecting"
      BY DEF LarvalChannel, NewChannel
    <3> QED BY <1>1, <3>1, NewCounters
  <2> HIDE DEF lar
  <2>2. /\ ans \in ChannelRecord /\ ans = [lar EXCEPT !.out = Append(lar.out, Pkt("CONFIRM", 0))]
        /\ \A T : Carried(Append(lar.out, Pkt("CONFIRM", 0)), T) = 0
    BY <2>1, Confirms
  <2> HIDE DEF ans
  <2>3. /\ ans.out = Append(lar.out, Pkt("CONFIRM", 0)) /\ ans.rwin = n /\ ans.cons = 0 /\ ans.output = 0
        /\ ans.input = 0 /\ ans.extended = 0 /\ ans.type = "larval" /\ ans.lwin = 0
    BY <2>1, <2>2 DEF ChannelRecord
  <2>4. \A T : Carried(ans.out, T) = 0
    BY <2>2, <2>3
  <2>5. Sending(ans) = n /\ Granted(ans) = 0
    BY <1>1, <2>3, <2>4 DEF Sending, Granted
  <2> QED BY <1>6, <2>2, <2>3, <2>5
<1>10. CASE d \in {ans, con}
  <2>1. fault' # "window"
    BY <1>2 DEF Handled
  <2> HIDE DEF ans, con
  <2> QED BY <1>0, <1>1, <1>2, <1>3, <1>8, <1>9, <1>10, <2>1, FlowTake DEF n
<1> QED BY <1>2, <1>7, <1>10

\* The connection to the forwarded port is up: until now the client may send
\* nothing, so that the window it is told of is all it has.
LEMMA FlowConnecting ==
    ASSUME IInv, NEW told \in Nat, FlowIn(told), HandleConnecting
    PROVE  FlowIn(told)'
<1> DEFINE c == ch["client"]
           s == ch["server"]
           u == [s EXCEPT !.type = "open"]
           z == [s EXCEPT !.type = "zombie"]
           a == Send(u, "CONFIRM", s.lwin)
           b == Send(z, "OPENFAIL", 0)
           g == channel_garbage_collect(b, HasChild)
<1>0. /\ "server" \in Peers /\ "client" \in Peers /\ Peers = {"client", "server"}
      /\ Other("client") = "server" /\ Other("server") = "client" /\ s.type = "connecting"
      /\ fault' = fault /\ fault # "window"
      /\ Step("server", a) \/ Step("server", g)
  BY DEF Peers, Other, HandleConnecting
<1>1. Dialing(c, s)
  BY <1>0, OpenDue
<1>2. /\ s \in ChannelRecord /\ c \in ChannelRecord /\ ch \in [Peers -> ChannelRecord] /\ s.lwin \in Nat
      /\ c.out = <<>> /\ c.type = "opening" /\ s.out = <<>>
  BY <1>0, <1>1 DEF IInv, TypeOK, Dialing, ChannelRecord
<1>3. ASSUME Step("server", a) PROVE FlowIn(told)'
  <2>1. ch'["client"] = c /\ ch'["server"] = a
    BY <1>0, <1>2, <1>3 DEF Step
  <2>2. /\ u \in ChannelRecord /\ u.out = <<>> /\ u.type = "open" /\ u.lwin = s.lwin /\ u.rwin = s.rwin /\ u.cons = s.cons
        /\ u.output = s.output /\ u.extended = s.extended /\ u.extusage = s.extusage
    BY <1>2 DEF ChannelRecord, Types
  <2> HIDE DEF u
  <2>3. /\ a \in ChannelRecord /\ a = [u EXCEPT !.out = Append(u.out, Pkt("CONFIRM", s.lwin))]
        /\ \A T : Carried(Append(u.out, Pkt("CONFIRM", s.lwin)), T) = IF "CONFIRM" \in T THEN s.lwin ELSE 0
    BY <1>2, <2>2, Confirms
  <2> HIDE DEF a
  <2>4. /\ a.out = Append(u.out, Pkt("CONFIRM", s.lwin)) /\ a.type = "open" /\ a.lwin = s.lwin /\ a.rwin = s.rwin /\ a.cons = s.cons
        /\ a.output = s.output /\ a.extended = s.extended /\ a.extusage = s.extusage
    BY <2>2, <2>3 DEF ChannelRecord
  <2>5. \A T : Carried(<<>>, T) = 0
    BY CarriedEmpty
  <2>6. \A T : Carried(a.out, T) = IF "CONFIRM" \in T THEN s.lwin ELSE 0
    BY <2>3, <2>4
  <2>7. /\ Within(s, c) /\ Within(c, s) /\ Budget(s) <= Limit("server", told) /\ Blank(c) /\ Budget(c) <= Limit("client", told)
    BY <1>0 DEF FlowIn
  <2>8. Sending(c) = 0 /\ Sending(a) = Sending(s) /\ Granted(a) = s.lwin /\ s.rwin \in Nat
    <3>1. Carried(a.out, DataPackets) = 0 /\ Granted(a) = s.lwin /\ Carried(s.out, DataPackets) = 0 /\ Carried(c.out, DataPackets) = 0
      BY <1>2, <2>5, <2>6 DEF Granted, DataPackets, CreditPackets
    <3>2. s.rwin \in Nat /\ c.rwin = 0
      BY <1>2, <2>7 DEF Blank, ChannelRecord
    <3> QED BY <2>4, <3>1, <3>2 DEF Sending
  <2>9. Within(a, c) /\ Within(c, a)
    BY <1>2, <2>4, <2>7, <2>8 DEF Within
  <2>10. Budget(a) = Budget(s) /\ Blank(a)
    BY <2>4 DEF Budget, Buffered, EfdWrite, Blank, Unused, FreshTypes
  <2> HIDE DEF c, s
  <2>11. \A o \in Peers : /\ Within(ch'[Other(o)], ch'[o])
                          /\ Budget(ch'[o]) <= Limit(o, told) /\ Blank(ch'[o])
    BY <1>0, <2>1, <2>7, <2>9, <2>10
  <2> QED BY <1>0, <2>11 DEF FlowIn
<1>4. ASSUME Step("server", g) PROVE FlowIn(told)'
  <2>1. /\ z \in ChannelRecord /\ z.lwin = s.lwin /\ z.cons = s.cons /\ z.rwin = s.rwin /\ z.extended = s.extended
        /\ z.extusage = s.extusage /\ z.input = s.input /\ z.output = s.output /\ z.out = s.out /\ z.type = "zombie"
    BY <1>2 DEF ChannelRecord, Types
  <2> HIDE DEF z
  <2>2. Quiescent(s, z)
    <3>1. SameSums(s, z)
      BY <2>1 DEF SameSums
    <3>2. Unused(s) /\ s.input <= s.input /\ s.output <= s.output
      BY <1>0, <1>2 DEF Unused, FreshTypes, ChannelRecord
    <3> QED BY <2>1, <3>1, <3>2 DEF Quiescent
  <2>3. Quiescent(s, b) /\ b \in ChannelRecord
    BY <1>2, <2>1, <2>2, SmallUpdates, Constants, QuiescentTrans, StillRecord
  <2> HIDE DEF b
  <2>4. Quiescent(s, g)
    BY <1>2, <2>3, StillCollect, StillQuiet, QuiescentTrans
  <2> HIDE DEF g
  <2>5. Flows(s, g, 0, 0)
    BY <1>2, <2>4, QuietFlows
  <2> QED BY <1>0, <1>4, <2>5, FlowStep
<1> QED BY <1>0, <1>3, <1>4

\* The channel of a session whose command was started.
Running(c) ==
    [Send(c, "ADJUST", WindowMax) EXCEPT
       !.type = "open", !.lwin = WindowMax, !.efd = (Kind = "session"),
       !.extusage = IF Kind = "session" THEN "read" ELSE "ignore"]

\* The channel of a session whose command runs.
LEMMA RunningRecord ==
    ASSUME NEW c \in ChannelRecord
    PROVE  LET o == Running(c)
           IN  /\ o \in ChannelRecord /\ o.type = "open" /\ o.lwin = WindowMax
               /\ o.rwin = c.rwin /\ o.cons = c.cons /\ o.output = c.output /\ o.extended = c.extended
               /\ o.input = c.input /\ o.istate = c.istate /\ o.flags = c.flags
               /\ o.extusage = (IF Kind = "session" THEN "read" ELSE "ignore")
               /\ o.out = Append(c.out, Pkt("ADJUST", WindowMax))
<1> DEFINE u == Send(c, "ADJUST", WindowMax)
<1>1. WindowMax \in Nat /\ "ADJUST" \in PacketTypes
  BY SizeAssumption DEF PacketTypes
<1>2. u \in ChannelRecord /\ u = [c EXCEPT !.out = Append(c.out, Pkt("ADJUST", WindowMax))]
  BY <1>1, SendSums
<1> HIDE DEF u
<1>3. /\ u.out = Append(c.out, Pkt("ADJUST", WindowMax)) /\ u.rwin = c.rwin /\ u.cons = c.cons /\ u.output = c.output
      /\ u.extended = c.extended /\ u.input = c.input /\ u.istate = c.istate /\ u.flags = c.flags
  BY <1>2 DEF ChannelRecord
<1>4. (Kind = "session") \in BOOLEAN /\ "open" \in Types
      /\ (IF Kind = "session" THEN "read" ELSE "ignore") \in {"ignore", "read", "write"}
  BY DEF Types
<1>5. Running(c) = [u EXCEPT !.type = "open", !.lwin = WindowMax, !.efd = (Kind = "session"),
                             !.extusage = IF Kind = "session" THEN "read" ELSE "ignore"]
  BY DEF Running, u
<1> DEFINE o == Running(c)
<1> HIDE DEF o
<1>6. /\ o \in ChannelRecord /\ o.type = "open" /\ o.lwin = WindowMax /\ o.rwin = u.rwin /\ o.cons = u.cons
      /\ o.output = u.output /\ o.extended = u.extended /\ o.input = u.input /\ o.istate = u.istate /\ o.flags = u.flags
      /\ o.extusage = (IF Kind = "session" THEN "read" ELSE "ignore") /\ o.out = u.out
  <2> DEFINE b == (Kind = "session")
             x == IF Kind = "session" THEN "read" ELSE "ignore"
  <2>1. b \in BOOLEAN /\ x \in {"ignore", "read", "write"} /\ o = [u EXCEPT !.type = "open", !.lwin = WindowMax, !.efd = b, !.extusage = x]
    BY <1>4, <1>5 DEF o
  <2> HIDE DEF b, x
  <2>2. o \in ChannelRecord
    BY <1>1, <1>2, <1>4, <2>1 DEF ChannelRecord
  <2>3. /\ o.type = "open" /\ o.lwin = WindowMax /\ o.rwin = u.rwin /\ o.cons = u.cons
        /\ o.output = u.output /\ o.extended = u.extended /\ o.input = u.input /\ o.istate = u.istate /\ o.flags = u.flags
        /\ o.extusage = x /\ o.out = u.out
    BY <1>2, <2>1 DEF ChannelRecord
  <2> QED BY <2>2, <2>3 DEF x
<1> QED BY <1>3, <1>6 DEF o

\* What the server makes of the request to run the command.
LEMMA Execs ==
    ASSUME IInv, SessionInputChannelReq
    PROVE  /\ ch["client"].out # <<>> /\ Msg("server").t = "EXEC" /\ Receives("server", "EXEC")
           /\ \/ Handled("server", Replied(ch["server"], "FAILURE"), "none")
              \/ /\ ch["server"].type = "larval"
                 /\ Handled("server", Replied(Running(ch["server"]), "SUCCESS"), "none")
<1> DEFINE c == ch["server"]
<1>0. /\ "server" \in Peers /\ Other("server") = "client" /\ Receives("server", "EXEC")
      /\ "EXEC" \in PacketTypes \ OpenTypes
  BY DEF SessionInputChannelReq, Peers, Other, PacketTypes, OpenTypes
<1>1. Live("server")
  BY <1>0, Received
<1>2. \E granted \in BOOLEAN :
        LET ok == granted /\ c.type = "larval" /\ c.detach.user = "session"
            d == IF ok THEN Running(c) ELSE c
            reply == IF ok THEN "SUCCESS" ELSE "FAILURE"
        IN  ForChannel("server", Replied(d, reply))
  BY DEF SessionInputChannelReq, Running
<1>3. \/ Handled("server", Replied(c, "FAILURE"), "none")
      \/ c.type = "larval" /\ Handled("server", Replied(Running(c), "SUCCESS"), "none")
  BY <1>1, <1>2 DEF ForChannel, Outcome
<1> QED BY <1>0, <1>3 DEF Receives

\* The reply carries nothing.
LEMMA StillReplied ==
    ASSUME NEW c \in ChannelRecord, NEW t \in {"SUCCESS", "REFUSED", "FAILURE"}
    PROVE  Still(c, Replied(c, t))
BY SmallUpdates, StillRefl, Constants DEF Replied

\* What the server makes of the request for X11 forwarding.
LEMMA Forwards ==
    ASSUME IInv, SessionX11Req
    PROVE  /\ ch["client"].out # <<>> /\ Msg("server").t = "X11REQ" /\ Receives("server", "X11REQ")
           /\ \E t \in {"SUCCESS", "REFUSED"} : Handled("server", Replied(ch["server"], t), "none")
<1>0. /\ "server" \in Peers /\ Other("server") = "client" /\ Receives("server", "X11REQ")
      /\ "X11REQ" \in PacketTypes \ OpenTypes
  BY DEF SessionX11Req, Peers, Other, PacketTypes, OpenTypes
<1>1. Live("server")
  BY <1>0, Received
<1>2. \E t \in {"SUCCESS", "REFUSED"} : ForChannel("server", Replied(ch["server"], t))
  BY DEF SessionX11Req
<1> QED BY <1>0, <1>1, <1>2 DEF Receives, ForChannel, Outcome

\* It touches no window.
LEMMA FlowX11 ==
    ASSUME IInv, NEW told \in Nat, FlowIn(told), SessionX11Req
    PROVE  FlowIn(told)'
<1>0. "server" \in Peers /\ Other("server") = "client" /\ ch["server"] \in ChannelRecord /\ ch["client"].out # <<>>
  BY Forwards DEF IInv, TypeOK, Peers, Other
<1>1. PICK t \in {"SUCCESS", "REFUSED"} : Handled("server", Replied(ch["server"], t), "none")
  BY Forwards
<1>2. Quiescent(ch["server"], Replied(ch["server"], t))
  BY <1>0, StillReplied, StillQuiet
<1> QED BY <1>0, <1>1, <1>2, QuietTakeFlow

\* session_set_fds grants the whole window, and nothing was granted before.
LEMMA FlowExec ==
    ASSUME IInv, NEW told \in Nat, FlowIn(told), SessionInputChannelReq
    PROVE  FlowIn(told)'
<1> DEFINE c == ch["server"]
           o == Running(c)
           e == Replied(o, "SUCCESS")
<1>0. "server" \in Peers /\ Other("server") = "client" /\ c \in ChannelRecord /\ ch["client"].out # <<>>
  BY Execs DEF IInv, TypeOK, Peers, Other
<1>1. CASE Handled("server", Replied(c, "FAILURE"), "none")
  <2>1. Quiescent(c, Replied(c, "FAILURE"))
    BY <1>0, StillReplied, StillQuiet
  <2> QED BY <1>0, <1>1, <2>1, QuietTakeFlow
<1>2. CASE c.type = "larval" /\ Handled("server", e, "none")
  <2>1. /\ o \in ChannelRecord /\ o.type = "open" /\ o.lwin = WindowMax
        /\ o.rwin = c.rwin /\ o.cons = c.cons /\ o.output = c.output
        /\ o.extusage = (IF Kind = "session" THEN "read" ELSE "ignore")
        /\ o.out = Append(c.out, Pkt("ADJUST", WindowMax))
    BY <1>0, RunningRecord
  <2> HIDE DEF o
  <2>2. c.cons = 0 /\ c.output = 0 /\ c.lwin = 0
    <3>1. Blank(c)
      BY <1>0 DEF FlowIn
    <3> QED BY <1>2, <3>1 DEF Blank, Unused, FreshTypes
  <2>3. WindowMax \in Nat /\ "ADJUST" \in PacketTypes /\ "ADJUST" \notin DataPackets /\ "ADJUST" \in CreditPackets
    BY SizeAssumption DEF PacketTypes, DataPackets, CreditPackets
  <2>4. \A T : Carried(o.out, T) = Carried(c.out, T) + (IF "ADJUST" \in T THEN WindowMax ELSE 0)
    BY <1>0, <2>1, <2>3, SendSums
  <2>5. Sending(c) \in Nat /\ Granted(c) \in Nat /\ Carried(c.out, DataPackets) \in Nat /\ c.rwin \in Nat
    BY <1>0, Counters, CarriedNat DEF ChannelRecord
  <2>6. Sending(o) = Sending(c) /\ Granted(o) = Granted(c) + WindowMax
    BY <2>1, <2>3, <2>4, <2>5 DEF Sending, Granted
  <2>7. Budget(o) = WindowMax /\ Blank(o)
    BY <2>1, <2>2, <2>3 DEF Budget, Buffered, EfdWrite, Blank, Unused, FreshTypes
  <2>8. Flows(c, o, 0, 0)
    <3>1. Sending(o) <= Sending(c) + 0 /\ Granted(o) + c.lwin <= o.lwin + Granted(c) + 0 /\ Budget(o) <= WindowMax
      BY <2>1, <2>2, <2>3, <2>5, <2>6, <2>7
    <3>2. Limited(c, o)
      BY <1>0, <2>1, <3>1, LimitedBy
    <3> QED BY <2>1, <2>7, <3>1, <3>2 DEF Flows
  <2>9. Flows(c, e, 0, 0)
    <3>1. Flows(o, e, 0, 0)
      BY <2>1, StillReplied, StillQuiet, QuietFlows
    <3> QED BY <1>0, <2>8, <3>1, FlowsTrans
  <2>10. Weight(Msg("server"), CreditPackets) = 0 /\ Weight(Msg("server"), DataPackets) = 0 /\ fault' # "window"
    BY <1>2, Execs DEF Weight, CreditPackets, DataPackets, Handled
  <2> HIDE DEF e
  <2> QED BY <1>0, <1>2, <2>9, <2>10, FlowTake
<1> QED BY <1>1, <1>2, Execs

----------------------------------------------------------------------------
(* The handlers of the loop keep the windows in step.                      *)

\* A step of the loop that moves no byte.
LEMMA QuietStepFlow ==
    ASSUME IInv, NEW told \in Nat, FlowIn(told), NEW p \in Peers, NEW d, Step(p, d), Quiescent(ch[p], d), fault' # "window"
    PROVE  FlowIn(told)'
<1>1. ch[p] \in ChannelRecord
  BY DEF IInv, TypeOK
<1> QED BY <1>1, QuietFlows, FlowStep

\* The handlers that read and write nothing.
LEMMA FlowHandlers ==
    ASSUME IInv, NEW told \in Nat, FlowIn(told), NEW p \in Peers,
           ChannelOutputPoll(p) \/ HandleOther(p) \/ HandleExpired(p) \/ MuxClientGone
    PROVE  FlowIn(told)'
<1>0. ch[p] \in ChannelRecord /\ ch["client"] \in ChannelRecord /\ "client" \in Peers
  BY DEF IInv, TypeOK, Peers
<1>1. ASSUME ChannelOutputPoll(p) PROVE FlowIn(told)'
  <2>1. Step(p, channel_output_poll(ch[p])) /\ ch[p].type = "open" /\ fault' # "window"
    BY <1>1 DEF ChannelOutputPoll
  <2> QED BY <1>0, <2>1, FlowPoll, FlowStep
<1>2. ASSUME HandleOther(p) PROVE FlowIn(told)'
  <2>1. Step(p, channel_garbage_collect(ch[p], HasChild)) /\ fault' # "window"
    BY <1>2 DEF HandleOther
  <2>2. Quiescent(ch[p], channel_garbage_collect(ch[p], HasChild))
    BY <1>0, StillCollect, StillQuiet
  <2> QED BY <2>1, <2>2, QuietStepFlow
<1>3. ASSUME HandleExpired(p) PROVE FlowIn(told)'
  <2> DEFINE f == channel_force_close(ch[p], HasChild)
             g == channel_garbage_collect(f, HasChild)
  <2>1. Step(p, g) /\ fault' # "window"
    BY <1>3 DEF HandleExpired
  <2>2. Quiescent(ch[p], f) /\ f \in ChannelRecord
    BY <1>0, QuietForceClose, StillRecord
  <2> HIDE DEF f
  <2>3. Quiescent(ch[p], g)
    BY <1>0, <2>2, StillCollect, StillQuiet, QuiescentTrans
  <2> QED BY <2>1, <2>3, QuietStepFlow
<1>4. ASSUME MuxClientGone PROVE FlowIn(told)'
  <2> DEFINE c == chan_read_failed(ch["client"])
             d == IF c.ostate = "open" THEN chan_write_failed(c) ELSE c
  <2>1. Step("client", d) /\ fault' # "window"
    BY <1>4 DEF MuxClientGone
  <2>2. Quiescent(ch["client"], c) /\ c \in ChannelRecord
    BY <1>0, StillReads, StillQuiet, StillRecord
  <2> HIDE DEF c
  <2>3. Quiescent(ch["client"], d)
    BY <1>0, <2>2, QuietWriteFailed, QuiescentTrans
  <2> QED BY <1>0, <2>1, <2>3, QuietStepFlow
<1> QED BY <1>1, <1>2, <1>3, <1>4

\* What the child's exit does to the server's channel.
Reaped(c) == chan_write_failed([Send(c, "EXIT", 0) EXCEPT !.detach.close = TRUE])

\* Reporting the exit status moves no byte.
LEMMA QuietReaped ==
    ASSUME NEW c \in ChannelRecord PROVE Quiescent(c, Reaped(c))
<1> DEFINE d == Send(c, "EXIT", 0)
           e == [d EXCEPT !.detach = [d.detach EXCEPT !.close = TRUE]]
<1>1. Still(c, d) /\ d \in ChannelRecord
  BY SmallUpdates, Constants, StillRecord
<1>2. e = [Send(c, "EXIT", 0) EXCEPT !.detach.close = TRUE]
  OBVIOUS
<1> HIDE DEF d
<1>3. [d.detach EXCEPT !.close = TRUE] \in [user : {"none", "client", "session"}, close : BOOLEAN]
  BY <1>1 DEF ChannelRecord
<1>4. Still(d, e) /\ e \in ChannelRecord
  BY <1>1, <1>3, SmallUpdates, StillRecord
<1> HIDE DEF e
<1>5. Quiescent(c, e)
  BY <1>1, <1>4, StillQuiet, QuiescentTrans
<1>6. Quiescent(e, chan_write_failed(e))
  BY <1>4, QuietWriteFailed
<1> QED BY <1>2, <1>5, <1>6, QuiescentTrans DEF Reaped

\* Neither the exit of the child nor its collection touches a window.
LEMMA FlowChild ==
    ASSUME IInv, NEW told \in Nat, FlowIn(told), ChildExit \/ CollectChildren
    PROVE  FlowIn(told)'
<1> DEFINE c == ch["server"]
<1>0. c \in ChannelRecord /\ "server" \in Peers
  BY DEF IInv, TypeOK, Peers
<1>1. CASE ChildExit
  BY <1>1 DEF ChildExit, FlowIn
<1>2. CASE CollectChildren
  <2>1. PICK d \in {Reaped(c), c} : Step("server", d)
    BY <1>2 DEF CollectChildren, Reaped
  <2>2. fault' # "window"
    BY <1>2 DEF CollectChildren
  <2>3. Quiescent(c, d)
    BY <1>0, QuietReaped, QuiescentRefl
  <2> QED BY <1>0, <2>1, <2>2, <2>3, QuietStepFlow
<1> QED BY <1>1, <1>2

\* channel_handler on an open channel, call by call.
LEMMA FlowHandleOpen ==
    ASSUME IInv, NEW told \in Nat, FlowIn(told), NEW p \in Peers, NEW r \in IOResults, NEW w \in IOResults, NEW x \in IOResults,
           HandleOpen(p, r, w, x)
    PROVE  FlowIn(told)'
<1> DEFINE b == ch[p]
           pre == channel_pre_open(b)
           c == channel_garbage_collect(pre, HasChild)
           a == channel_handle_rfd(c, r)
           k == channel_handle_wfd(a, w)
           e == channel_handle_efd(k, x)
           post == channel_check_window(e)
           g == channel_garbage_collect(post, HasChild)
<1>0. /\ Sane(b) /\ b.type = "open" /\ b \in ChannelRecord
      /\ r \in Int /\ w \in Int /\ x \in Int /\ (x < 0 => x = Failed)
  BY SizeAssumption DEF IInv, TypeOK, HandleOpen, IOResults, Failed, Peers
<1>1. /\ IOChoice(p, r, w, x) /\ fault' # "window"
      /\ Step(p, IF c.type = "open" THEN g ELSE c)
  BY DEF HandleOpen
<1>2. Still(b, pre) /\ pre \in ChannelRecord
  BY <1>0, StillPreOpen, StillRecord
<1> HIDE DEF pre
<1>3. Still(b, c) /\ c \in ChannelRecord
  BY <1>0, <1>2, StillCollect, StillTrans, StillRecord
<1> HIDE DEF c
<1>4. c.output = b.output /\ c.extended = b.extended /\ c.extusage = b.extusage /\ Quiescent(b, c)
  BY <1>3 DEF Still, Quiescent
<1>5. CASE c.type # "open"
  BY <1>1, <1>4, <1>5, QuietStepFlow
<1>6. CASE c.type = "open"
  <2>0. Flows(b, c, 0, 0)
    BY <1>0, <1>4, QuietFlows
  <2>1. /\ Flows(c, a, 0, 0) /\ a \in ChannelRecord /\ a.type = "open" /\ a.output = c.output /\ a.extended = c.extended
        /\ a.extusage = c.extusage
    <3>1. Flows(c, a, 0, 0)
      BY <1>0, <1>3, <1>6, FlowRfd
    <3>2. /\ a.type = "open" /\ a.output = c.output /\ a.extended = c.extended /\ a.extusage = c.extusage
      BY <1>0, <1>3, <1>6 DEF channel_handle_rfd, chan_read_failed, ChannelRecord
    <3> QED BY <3>1, <3>2 DEF Flows
  <2> HIDE DEF a
  <2>2. w <= a.output
    BY <1>1, <1>4, <2>1 DEF IOChoice
  <2>3. /\ Flows(a, k, 0, 0) /\ k \in ChannelRecord /\ k.type = "open" /\ k.extended = a.extended /\ k.extusage = a.extusage
    <3>1. Flows(a, k, 0, 0)
      BY <1>0, <2>1, <2>2, FlowWfd
    <3>2. CASE k = [a EXCEPT !.output = @ - w, !.cons = @ + w]
      <4>1. k.type = "open" /\ k.extended = a.extended /\ k.extusage = a.extusage
        BY <2>1, <3>2 DEF ChannelRecord
      <4> QED BY <3>1, <4>1 DEF Flows
    <3>3. CASE k \in {a, chan_write_failed(a)}
      <4>1. Quiescent(a, k)
        BY <2>1, <3>3, QuiescentRefl, QuietWriteFailed
      <4>2. k.type = a.type
        BY <2>1, <3>3 DEF chan_write_failed, Send, ChannelRecord
      <4> QED BY <2>1, <3>1, <4>1, <4>2 DEF Quiescent
    <3> QED BY <3>2, <3>3 DEF channel_handle_wfd
  <2> HIDE DEF k
  <2>4. EfdWrite(k) => x <= k.extended
    <3>1. k.extended = b.extended /\ k.extusage = b.extusage /\ b.extended \in Nat
      BY <1>0, <1>4, <2>1, <2>3 DEF ChannelRecord
    <3> QED BY <1>0, <1>1, <3>1 DEF IOChoice, EfdWrite
  <2>5. Flows(k, e, 0, 0) /\ e \in ChannelRecord
    BY <1>0, <2>3, <2>4, FlowEfd DEF Flows
  <2> HIDE DEF e
  <2>6. Flows(e, post, 0, 0) /\ post \in ChannelRecord
    BY <2>5, FlowWindow DEF Flows
  <2> HIDE DEF post
  <2>7. Flows(post, g, 0, 0)
    BY <2>6, StillCollect, StillQuiet, QuietFlows
  <2> HIDE DEF g
  <2>8. Flows(b, a, 0, 0)
    BY <1>0, <2>0, <2>1, FlowsTrans
  <2>9. Flows(b, k, 0, 0)
    BY <1>0, <2>3, <2>8, FlowsTrans
  <2>10. Flows(b, e, 0, 0)
    BY <1>0, <2>5, <2>9, FlowsTrans
  <2>11. Flows(b, post, 0, 0)
    BY <1>0, <2>6, <2>10, FlowsTrans
  <2>12. Flows(b, g, 0, 0)
    BY <1>0, <2>7, <2>11, FlowsTrans
  <2> QED BY <1>1, <1>6, <2>12, FlowStep
<1> QED BY <1>5, <1>6

\* The client's OPEN carries its whole window.
LEMMA FlowInit == ASSUME Init PROVE FlowInv
<1> DEFINE c == ch["client"]
           s == ch["server"]
           n == NewChannel("opening", WindowMax, IF IsSession THEN "write" ELSE "ignore",
                           IF IsSession THEN [user |-> "client", close |-> DetachClose] ELSE NoUser)
<1>0. "client" \in Peers /\ "server" \in Peers /\ Peers = {"client", "server"} /\ Other("client") = "server" /\ Other("server") = "client"
      /\ WindowMax \in Nat
  BY SizeAssumption DEF Peers, Other
<1>1. c = ClientChannel /\ s = NewChannel("none", 0, "ignore", NoUser) /\ fault = "none"
  BY <1>0 DEF Init
<1>2. /\ s.out = <<>> /\ s.rwin = 0 /\ s.lwin = 0 /\ s.cons = 0 /\ s.output = 0 /\ s.extended = 0 /\ s.input = 0 /\ s.type = "none"
  BY <1>1 DEF NewChannel
<1>3. /\ c.out = Append(<<>>, Pkt("OPEN", WindowMax)) /\ c.rwin = 0 /\ c.lwin = WindowMax /\ c.cons = 0 /\ c.output = 0
      /\ c.extended = 0 /\ c.input = 0 /\ c.type = "opening"
  BY <1>1 DEF ClientChannel, NewChannel, Send
<1> HIDE DEF c, s
<1>4. \A T : Carried(c.out, T) = IF "OPEN" \in T THEN WindowMax ELSE 0
  <2>1. <<>> \in Seq(Packet) /\ Pkt("OPEN", WindowMax) \in Packet /\ Pkt("OPEN", WindowMax).t = "OPEN" /\ Pkt("OPEN", WindowMax).n = WindowMax
    BY <1>0 DEF Pkt, Packet, PacketTypes
  <2>2. \A T : Carried(c.out, T) = Carried(<<>>, T) + Weight(Pkt("OPEN", WindowMax), T)
    BY <1>3, <2>1, CarriedAppend
  <2>3. \A T : Carried(<<>>, T) = 0
    BY CarriedEmpty
  <2>4. \A T : Weight(Pkt("OPEN", WindowMax), T) = IF "OPEN" \in T THEN WindowMax ELSE 0
    BY <2>1 DEF Weight
  <2> QED BY <1>0, <2>2, <2>3, <2>4
<1>5. Carried(s.out, DataPackets) = 0 /\ Granted(s) = 0 /\ Carried(c.out, DataPackets) = 0 /\ Granted(c) = WindowMax
  <2>1. "OPEN" \notin DataPackets /\ "OPEN" \in CreditPackets
    BY DEF DataPackets, CreditPackets
  <2> QED BY <1>2, <1>4, <2>1, CarriedEmpty DEF Granted
<1>6. Sending(s) = 0 /\ Sending(c) = 0
  BY <1>2, <1>3, <1>5 DEF Sending
<1>7. Within(c, s) /\ Within(s, c)
  BY <1>0, <1>2, <1>3, <1>5, <1>6 DEF Within
<1>8. Buffered(c) = 0 /\ Buffered(s) = 0
  BY <1>2, <1>3 DEF Buffered
<1>9. Budget(c) = WindowMax /\ Budget(s) = 0 /\ Blank(c) /\ Blank(s)
  BY <1>0, <1>2, <1>3, <1>8 DEF Budget, Blank
<1>10. moved.told = 0 /\ \A p \in Peers : Limit(p, 0) = WindowMax
  BY <1>0 DEF Init, Limit
<1>11. \A p \in Peers : Within(ch[Other(p)], ch[p]) /\ Budget(ch[p]) <= Limit(p, 0) /\ Blank(ch[p])
  BY <1>0, <1>7, <1>9, <1>10 DEF c, s
<1> QED BY <1>1, <1>10, <1>11 DEF FlowInv, FlowIn

\* Only the reply to a request puts a text on stderr.
LEMMA ToldStays ==
    ASSUME IInv, [Next]_vars
    PROVE  moved'.told = moved.told \/ InputStatusConfirm
<1>0. moved \in [rd : [Peers -> Nat], wr : [Peers -> Nat], erd : Nat, ewr : Nat, told : Nat,
                 exit : BOOLEAN, lossy : BOOLEAN]
  BY DEF IInv, TypeOK
<1>1. ASSUME moved' = moved PROVE moved'.told = moved.told
  BY <1>1
<1>2. ASSUME NEW b, moved' \in {[moved EXCEPT !.lossy = b], [moved EXCEPT !.exit = b]} PROVE moved'.told = moved.told
  BY <1>0, <1>2
<1>3. ASSUME NEW p \in Peers, NEW r \in IOResults, NEW w \in IOResults, NEW x \in IOResults, HandleOpen(p, r, w, x)
      PROVE  moved'.told = moved.told
  <2>1. moved' = Moved(p, r, w, x)
    BY <1>3 DEF HandleOpen
  <2>2. Moved(p, r, w, x).told = moved.told
    BY <1>0 DEF Moved
  <2> QED BY <2>1, <2>2
<1>5. CASE UNCHANGED vars
  BY <1>1, <1>5 DEF vars
<1>6. CASE DispatchClient /\ ~InputStatusConfirm
  <2>1. CASE InputExitStatus
    BY <1>2, <2>1 DEF InputExitStatus
  <2> QED BY <1>1, <1>6, <2>1 DEF DispatchClient, Dispatch, InputData, InputIeof, InputOclose,
       InputWindowAdjust, InputEow, InputExtendedData, InputOpenConfirmation, InputOpenFailure
<1>7. CASE DispatchServer
  BY <1>1, <1>7 DEF DispatchServer, Dispatch, InputData, InputIeof, InputOclose,
       InputWindowAdjust, InputEow, ServerInputChannelOpen, SessionX11Req, SessionInputChannelReq
<1>8. CASE HandleConnecting \/ ChildExit \/ CollectChildren
  BY <1>1, <1>8 DEF HandleConnecting, ChildExit, CollectChildren
<1>9. CASE MuxClientGone \/ \E p \in Peers : HandleExpired(p)
  BY <1>2, <1>9 DEF MuxClientGone, HandleExpired
<1>10. CASE \E p \in Peers : ChannelOutputPoll(p) \/ HandleOther(p)
  BY <1>1, <1>10 DEF ChannelOutputPoll, HandleOther
<1>11. CASE \E p \in Peers : \E r, w, x \in IOResults : HandleOpen(p, r, w, x)
  BY <1>3, <1>11
<1> QED BY <1>5, <1>6, <1>7, <1>8, <1>9, <1>10, <1>11 DEF Next

\* Every step keeps the windows in step.
LEMMA FlowKeeps ==
    ASSUME IInv, FlowInv, [Next]_vars
    PROVE  FlowInv'
<1>0. PICK told \in Nat : told = moved.told
  BY DEF IInv, TypeOK
<1>a. FlowIn(told)
  BY <1>0 DEF FlowInv
<1>b. ASSUME FlowIn(told)', ~InputStatusConfirm PROVE FlowInv'
  <2>1. moved'.told = told
    BY <1>0, <1>b, ToldStays
  <2> QED BY <1>b, <2>1 DEF FlowInv
<1>c. CASE InputStatusConfirm
  BY <1>0, <1>a, <1>c, FlowStatus
<1>1. CASE UNCHANGED vars
  BY <1>1 DEF vars, FlowInv, FlowIn
<1>2. CASE DispatchClient /\ ~InputStatusConfirm
  <2>1. FlowIn(told)'
    BY <1>a, <1>2, FlowDispatch, FlowClient, FlowConfirmation, FlowOpenFailure DEF DispatchClient, Peers
  <2> QED BY <1>b, <1>2, <2>1
<1>3. CASE DispatchServer /\ ~InputStatusConfirm
  <2>1. FlowIn(told)'
    BY <1>a, <1>3, FlowDispatch, FlowServerOpen, FlowX11, FlowExec DEF DispatchServer, Peers
  <2> QED BY <1>b, <1>3, <2>1
<1>4. CASE /\ ~InputStatusConfirm
           /\ \E p \in Peers : \/ ChannelOutputPoll(p)
                               \/ \E r, w, x \in IOResults : HandleOpen(p, r, w, x)
                               \/ HandleOther(p)
                               \/ HandleExpired(p)
  <2>1. FlowIn(told)'
    BY <1>a, <1>4, FlowHandlers, FlowHandleOpen
  <2> QED BY <1>b, <1>4, <2>1
<1>5. CASE HandleConnecting /\ ~InputStatusConfirm
  BY <1>a, <1>b, <1>5, FlowConnecting
<1>6. CASE (ChildExit \/ CollectChildren) /\ ~InputStatusConfirm
  BY <1>a, <1>b, <1>6, FlowChild
<1>7. CASE MuxClientGone /\ ~InputStatusConfirm
  BY <1>a, <1>b, <1>7, FlowHandlers DEF Peers
<1> QED BY <1>c, <1>1, <1>2, <1>3, <1>4, <1>5, <1>6, <1>7 DEF Next

\* Flow control, for every window and packet size: what channel_output_poll
\* may send is always within the window channel_input_data checks it against,
\* through every WINDOW_ADJUST of channel_check_window that is still under
\* way; and what an end granted, holds and consumed is never more than
\* local_window_max and the texts client_status_confirm put on its stderr.
THEOREM WindowsAgree == Spec => []WindowAgreement
<1>1. Init => FlowInv
  BY FlowInit
<1>2. IInv /\ FlowInv /\ [Next]_vars => FlowInv'
  BY FlowKeeps
<1>3. FlowInv => WindowAgreement
  BY FlowGoal
<1> QED BY <1>1, <1>2, <1>3, Invariant, PTL DEF Spec

----------------------------------------------------------------------------
(* What the command wrote: where its bytes are.                            *)

\* The same stdout and stderr are in the link.
SameData(c, d) ==
    /\ \A T \in {{"DATA"}, {"EXT"}} : Carried(d.out, T) = Carried(c.out, T)
    /\ Bounded(c.out) => Bounded(d.out)

\* The server's side of its output: code that reads i bytes of stdout and x
\* of stderr, and sends none of them.
SMoves(c, d, i, x) ==
    /\ d \in ChannelRecord
    /\ d.input = c.input + i /\ d.extended = c.extended + x /\ d.extusage = c.extusage
    /\ c.flags \subseteq d.flags
    /\ d.istate = "closed" => c.istate = "closed"
    /\ SameData(c, d)

\* The client's side: code that adds o bytes for its stdout and x for its
\* stderr (writing takes them away), and closes neither.
CMoves(c, d, o, x) ==
    /\ d \in ChannelRecord
    /\ d.output = c.output + o /\ d.extended = c.extended + x /\ d.extusage = c.extusage
    /\ c.flags \subseteq d.flags
    /\ d.ostate = c.ostate /\ d.efd = c.efd /\ d.type \in {c.type, "freed"}
    /\ NoEow(c.out) => NoEow(d.out)

\* Two pieces of code in turn move what each of them moves.
LEMMA MovesTrans ==
    ASSUME NEW c \in ChannelRecord, NEW d, NEW e, NEW i \in Int, NEW j \in Int, NEW x \in Int, NEW y \in Int
    PROVE  /\ SMoves(c, d, i, x) /\ SMoves(d, e, j, y) => SMoves(c, e, i + j, x + y)
           /\ CMoves(c, d, i, x) /\ CMoves(d, e, j, y) => CMoves(c, e, i + j, x + y)
<1>1. ASSUME NEW k \in Nat, NEW l, NEW m, NEW u \in Int, NEW v \in Int, l = k + u, m = l + v PROVE m = k + (u + v)
  BY <1>1
<1>2. c.input \in Nat /\ c.extended \in Nat /\ c.output \in Nat
  BY DEF ChannelRecord
<1>3. ASSUME SMoves(c, d, i, x), SMoves(d, e, j, y) PROVE SMoves(c, e, i + j, x + y)
  <2>1. /\ d.input = c.input + i /\ d.extended = c.extended + x /\ e.input = d.input + j /\ e.extended = d.extended + y
    BY <1>3 DEF SMoves
  <2>2. e.input = c.input + (i + j) /\ e.extended = c.extended + (x + y)
    BY <1>1, <1>2, <2>1
  <2>3. SameData(c, e)
    BY <1>3 DEF SMoves, SameData
  <2> QED BY <1>3, <2>2, <2>3 DEF SMoves
<1>4. ASSUME CMoves(c, d, i, x), CMoves(d, e, j, y) PROVE CMoves(c, e, i + j, x + y)
  <2>1. /\ d.output = c.output + i /\ d.extended = c.extended + x /\ e.output = d.output + j /\ e.extended = d.extended + y
    BY <1>4 DEF CMoves
  <2>2. e.output = c.output + (i + j) /\ e.extended = c.extended + (x + y)
    BY <1>1, <1>2, <2>1
  <2> QED BY <1>4, <2>2 DEF CMoves
<1> QED BY <1>3, <1>4

\* Code that touches nothing of this.
LEMMA MovesBy ==
    ASSUME NEW c \in ChannelRecord, NEW d, Quiescent(c, d), c.flags \subseteq d.flags
    PROVE  /\ d.input = c.input /\ (d.istate = "closed" => c.istate = "closed") => SMoves(c, d, 0, 0)
           /\ /\ Still(c, d) /\ d.ostate = c.ostate /\ d.efd = c.efd /\ d.type \in {c.type, "freed"}
              => CMoves(c, d, 0, 0)
<1>1. c.input \in Nat /\ c.extended \in Nat /\ c.output \in Nat
  BY DEF ChannelRecord
<1>2. c.input = c.input + 0 /\ c.output = c.output + 0 /\ c.extended = c.extended + 0
  BY <1>1
<1>3. /\ d \in ChannelRecord /\ d.extended = c.extended + 0 /\ d.extusage = c.extusage
  BY <1>2 DEF Quiescent
<1>4. SameData(c, d)
  BY DEF Quiescent, SameSums, SameData
<1>5. ASSUME d.input = c.input, d.istate = "closed" => c.istate = "closed" PROVE SMoves(c, d, 0, 0)
  BY <1>2, <1>3, <1>4, <1>5 DEF SMoves
<1>6. ASSUME Still(c, d), d.ostate = c.ostate, d.efd = c.efd, d.type \in {c.type, "freed"} PROVE CMoves(c, d, 0, 0)
  <2>1. d.output = c.output + 0 /\ (NoEow(c.out) => NoEow(d.out))
    BY <1>2, <1>6 DEF Still
  <2> QED BY <1>3, <1>6, <2>1 DEF CMoves
<1> QED BY <1>5, <1>6

\* Doing nothing moves nothing.
LEMMA MovesRefl == ASSUME NEW c \in ChannelRecord PROVE SMoves(c, c, 0, 0) /\ CMoves(c, c, 0, 0)
<1>1. Quiescent(c, c) /\ Still(c, c)
  BY QuiescentRefl, StillRefl
<1> QED BY <1>1, MovesBy

\* The states of a channel that is collected.
Sides(c, d) ==
    /\ d.istate = c.istate /\ d.ostate = c.ostate /\ d.efd = c.efd /\ c.flags \subseteq d.flags
    /\ d.type \in {c.type, "freed"}

\* channel_garbage_collect changes neither side, and frees only what is closed.
LEMMA CollectSides ==
    ASSUME NEW c \in ChannelRecord, NEW h
    PROVE  /\ Sides(c, channel_garbage_collect(c, h))
           /\ channel_garbage_collect(c, h).type # c.type /\ c.type # "zombie" => c.istate = "closed" /\ c.ostate = "closed"
<1>1. ASSUME NEW e \in ChannelRecord, NEW b
      PROVE  Sides(e, WithClose(e, b)) /\ Sides(e, DetachUser(e, h, FALSE)) /\ WithClose(e, b) \in ChannelRecord
             /\ DetachUser(e, h, FALSE) \in ChannelRecord /\ WithClose(e, b).type = e.type /\ DetachUser(e, h, FALSE).type = e.type
  <2>1. WithClose(e, b) \in ChannelRecord /\ DetachUser(e, h, FALSE) \in ChannelRecord
    BY StillClose, StillDetach, StillRecord
  <2>2. Sides(e, WithClose(e, b)) /\ WithClose(e, b).type = e.type
    BY DEF Sides, WithClose, chan_send_close2, Send, ChannelRecord
  <2>3. Sides(e, DetachUser(e, h, FALSE)) /\ DetachUser(e, h, FALSE).type = e.type
    BY DEF Sides, DetachUser, channel_cancel_cleanup, ChannelRecord
  <2> QED BY <2>1, <2>2, <2>3
<1> DEFINE d == IF Registered(c) THEN WithClose(c, c.detach.close) ELSE c
           e == IF Registered(d) /\ IsDead(d, d.detach.close) THEN DetachUser(d, h, FALSE) ELSE d
           f == WithClose(e, TRUE)
           g == channel_garbage_collect(c, h)
<1>2. Sides(c, d) /\ d \in ChannelRecord /\ d.type = c.type
  BY <1>1 DEF Sides
<1>3. /\ g \in {e, f, [f EXCEPT !.type = "freed"]}
      /\ g \in {e, f} \/ IsDead(f, TRUE)
  BY DEF channel_garbage_collect
<1> HIDE DEF d
<1>4. Sides(d, e) /\ e \in ChannelRecord /\ e.type = d.type
  BY <1>1, <1>2 DEF Sides
<1> HIDE DEF e
<1>5. Sides(e, f) /\ f \in ChannelRecord /\ f.type = e.type
  BY <1>1, <1>4
<1> HIDE DEF f, g
<1>6. Sides(c, f) /\ Sides(c, e) /\ f.type = c.type /\ e.type = c.type
  BY <1>2, <1>4, <1>5 DEF Sides
<1>7. CASE g \in {e, f}
  BY <1>6, <1>7 DEF g
<1>8. CASE g = [f EXCEPT !.type = "freed"] /\ IsDead(f, TRUE)
  <2>1. g.istate = f.istate /\ g.ostate = f.ostate /\ g.efd = f.efd /\ g.flags = f.flags /\ g.type = "freed"
    BY <1>5, <1>8 DEF ChannelRecord
  <2>2. f.type # "zombie" => f.istate = "closed" /\ f.ostate = "closed"
    BY <1>8 DEF IsDead
  <2> QED BY <1>6, <2>1, <2>2 DEF Sides, g
<1> DEFINE z == [f EXCEPT !.type = "freed"]
<1> HIDE DEF z
<1>9. g \in {e, f} \/ (g = z /\ IsDead(f, TRUE))
  <2>1. g \in {e, f, z} /\ (g \in {e, f} \/ IsDead(f, TRUE))
    BY <1>3 DEF z
  <2> QED BY ONLY <2>1, Zenon
<1> QED BY <1>7, <1>8, <1>9 DEF z

\* So it moves nothing.
LEMMA MovesCollect ==
    ASSUME NEW c \in ChannelRecord, NEW h
    PROVE  SMoves(c, channel_garbage_collect(c, h), 0, 0) /\ CMoves(c, channel_garbage_collect(c, h), 0, 0)
<1> DEFINE g == channel_garbage_collect(c, h)
<1>1. Still(c, g) /\ Sides(c, g)
  BY StillCollect, CollectSides
<1> HIDE DEF g
<1>2. Quiescent(c, g) /\ c.flags \subseteq g.flags /\ g.input = c.input /\ (g.istate = "closed" => c.istate = "closed")
      /\ g.ostate = c.ostate /\ g.efd = c.efd /\ g.type \in {c.type, "freed"}
  BY <1>1 DEF Still, Sides
<1>3. SMoves(c, g, 0, 0) /\ CMoves(c, g, 0, 0)
  BY <1>1, <1>2, MovesBy
<1> QED BY <1>3 DEF g

\* The bytes an I/O call moved.
Pos(n) == IF n > 0 THEN n ELSE 0

\* What changes of the extended buffer when n bytes move.
Ext(c, n) == IF EfdWrite(c) THEN 0 - Pos(n) ELSE IF EfdRead(c) THEN Pos(n) ELSE 0

\* channel_handle_rfd puts what it reads into the input buffer.
LEMMA MovesRfd ==
    ASSUME NEW c \in ChannelRecord, NEW r \in Int, r > 0 => c.input < c.rwin
    PROVE  SMoves(c, channel_handle_rfd(c, r), Pos(r), 0) /\ CMoves(c, channel_handle_rfd(c, r), 0, 0)
<1> DEFINE d == channel_handle_rfd(c, r)
<1>0. c.input \in Nat /\ c.rwin \in Nat /\ c.extended \in Nat /\ c.output \in Nat
  BY DEF ChannelRecord
<1>1. CASE ~(r > 0)
  <2>1. Pos(r) = 0 /\ d \in {c, chan_read_failed(c)}
    BY <1>1 DEF Pos, channel_handle_rfd
  <2>2. Still(c, d) /\ Quiescent(c, d)
    BY <2>1, StillRefl, StillReads, StillQuiet
  <2>3. /\ d.flags = c.flags /\ (d.istate = "closed" => c.istate = "closed") /\ d.ostate = c.ostate
        /\ d.efd = c.efd /\ d.type = c.type /\ d.input = c.input
    BY <2>1 DEF chan_read_failed, ChannelRecord
  <2> HIDE DEF d
  <2>4. SMoves(c, d, 0, 0) /\ CMoves(c, d, 0, 0)
    BY <2>2, <2>3, MovesBy
  <2> QED BY <2>1, <2>4 DEF d
<1>2. CASE r > 0
  <2>1. Pos(r) = r /\ c.input + r \in Nat
    BY <1>0, <1>2 DEF Pos
  <2>2. d = [c EXCEPT !.input = c.input + r]
    <3>1. r # 0 /\ ~(c.input >= c.rwin)
      BY <1>0, <1>2
    <3> QED BY <1>2, <3>1 DEF channel_handle_rfd
  <2> HIDE DEF d
  <2>3. /\ d \in ChannelRecord /\ d.input = c.input + r /\ d.extended = c.extended /\ d.extusage = c.extusage
        /\ d.flags = c.flags /\ d.istate = c.istate /\ d.ostate = c.ostate /\ d.efd = c.efd /\ d.type = c.type
        /\ d.output = c.output /\ d.out = c.out
    BY <2>1, <2>2 DEF ChannelRecord
  <2>4. c.extended = c.extended + 0 /\ c.output = c.output + 0
    BY <1>0
  <2>5. SMoves(c, d, r, 0) /\ CMoves(c, d, 0, 0)
    BY <2>3, <2>4 DEF SMoves, CMoves, SameData
  <2> QED BY <2>1, <2>5 DEF d
<1> QED BY <1>1, <1>2

\* channel_handle_wfd takes what it writes from the output buffer.
LEMMA MovesWfd ==
    ASSUME NEW c \in ChannelRecord, NEW w \in Int, w >= Failed, w <= c.output
    PROVE  /\ SMoves(c, channel_handle_wfd(c, w), 0, 0)
           /\ w # Failed => CMoves(c, channel_handle_wfd(c, w), 0 - Pos(w), 0)
<1> DEFINE d == channel_handle_wfd(c, w)
<1>0. c.input \in Nat /\ c.rwin \in Nat /\ c.extended \in Nat /\ c.output \in Nat
  BY DEF ChannelRecord
<1>1. CASE d = c /\ ~(w > 0)
  <2>1. 0 - Pos(w) = 0
    <3>1. Pos(w) = 0
      BY <1>1 DEF Pos
    <3>2. 0 - 0 = 0
      OBVIOUS
    <3> QED BY <3>1, <3>2
  <2> HIDE DEF d
  <2>2. SMoves(c, d, 0, 0) /\ CMoves(c, d, 0, 0)
    BY <1>1, MovesRefl
  <2> QED BY <2>1, <2>2 DEF d
<1>2. CASE w > 0
  <2>1. Pos(w) = w /\ c.output - w \in Nat /\ c.cons + w \in Nat /\ c.output - w = c.output + (0 - w)
    BY <1>0, <1>2 DEF Pos, ChannelRecord
  <2>2. d = [c EXCEPT !.output = c.output - w, !.cons = c.cons + w]
    <3>1. w # 0 /\ c.output # 0
      BY <1>0, <1>2
    <3> QED BY <1>2, <3>1 DEF channel_handle_wfd
  <2> HIDE DEF d
  <2>3. /\ d \in ChannelRecord /\ d.input = c.input /\ d.extended = c.extended /\ d.extusage = c.extusage
        /\ d.flags = c.flags /\ d.istate = c.istate /\ d.ostate = c.ostate /\ d.efd = c.efd /\ d.type = c.type
        /\ d.output = c.output - w /\ d.out = c.out
    BY <2>1, <2>2 DEF ChannelRecord
  <2>4. c.extended = c.extended + 0 /\ c.input = c.input + 0
    BY <1>0
  <2>5. SMoves(c, d, 0, 0) /\ CMoves(c, d, 0 - w, 0)
    BY <2>1, <2>3, <2>4 DEF SMoves, CMoves, SameData
  <2> QED BY <2>1, <2>5 DEF d
<1>3. CASE w = Failed /\ d \in {c, chan_write_failed(c)}
  <2>1. Quiescent(c, d)
    BY <1>3, QuiescentRefl, QuietWriteFailed
  <2>2. d.flags = c.flags /\ d.istate = c.istate /\ d.input = c.input
    BY <1>3 DEF chan_write_failed, Send, ChannelRecord
  <2> HIDE DEF d
  <2>3. SMoves(c, d, 0, 0)
    BY <2>1, <2>2, MovesBy
  <2> QED BY <1>3, <2>3 DEF d
<1>4. w > 0 \/ w = 0 \/ w = Failed
  BY DEF Failed
<1>5. w = Failed => ~(w > 0)
  BY DEF Failed
<1> QED BY <1>1, <1>2, <1>3, <1>4, <1>5 DEF channel_handle_wfd

\* channel_handle_efd does either with the extended buffer.
LEMMA MovesEfd ==
    ASSUME NEW c \in ChannelRecord, NEW x \in Int, x >= Failed, EfdWrite(c) => x <= c.extended, x > 0 => c.efd
    PROVE  /\ SMoves(c, channel_handle_efd(c, x), 0, Ext(c, x))
           /\ x # Failed => CMoves(c, channel_handle_efd(c, x), 0, Ext(c, x))
<1> DEFINE d == channel_handle_efd(c, x)
<1>0. c.input \in Nat /\ c.cons \in Nat /\ c.extended \in Nat /\ c.output \in Nat
  BY DEF ChannelRecord
<1>1. CASE ~(x > 0)
  <2>1. Ext(c, x) = 0
    <3>1. Pos(x) = 0
      BY <1>1 DEF Pos
    <3>2. 0 - 0 = 0
      OBVIOUS
    <3> QED BY <3>1, <3>2 DEF Ext
  <2>2. x = 0 \/ x = Failed
    BY <1>1 DEF Failed
  <2>3. d = c \/ (x = Failed /\ d = [c EXCEPT !.efd = FALSE])
    <3>1. CASE x = 0
      <4>1. d = c
        BY ONLY <3>1, Zenon DEF d, channel_handle_efd
      <4> QED BY <4>1
    <3>2. CASE x = Failed
      <4>1. d = c \/ d = [c EXCEPT !.efd = FALSE]
        BY ONLY <3>2, Zenon DEF d, channel_handle_efd
      <4> QED BY <3>2, <4>1
    <3> QED BY <2>2, <3>1, <3>2
  <2>4. Quiescent(c, d)
    <3>1. Quiescent(c, c)
      BY QuiescentRefl
    <3>2. Still(c, [c EXCEPT !.efd = FALSE])
      BY SmallUpdates
    <3>3. Quiescent(c, [c EXCEPT !.efd = FALSE])
      BY <3>2, StillQuiet
    <3> HIDE DEF d
    <3> QED BY <2>3, <3>1, <3>3
  <2>5. d.flags = c.flags /\ d.istate = c.istate /\ d.input = c.input
    BY <2>3 DEF ChannelRecord
  <2>6. d = c => CMoves(c, d, 0, 0)
    BY MovesRefl
  <2> HIDE DEF d
  <2>7. SMoves(c, d, 0, 0)
    BY <2>4, <2>5, MovesBy
  <2> QED BY <2>1, <2>3, <2>6, <2>7 DEF d
<1>2. CASE x > 0
  <2>0. x # 0 /\ x # Failed /\ Pos(x) = x
    BY <1>2 DEF Failed, Pos
  <2>1. CASE EfdWrite(c)
    <3>1. Ext(c, x) = 0 - x /\ c.extended - x \in Nat /\ c.cons + x \in Nat /\ c.extended - x = c.extended + (0 - x)
      BY <1>0, <1>2, <2>0, <2>1 DEF Ext
    <3>2. d = [c EXCEPT !.extended = c.extended - x, !.cons = c.cons + x]
      BY <1>2, <2>0, <2>1 DEF channel_handle_efd
    <3> HIDE DEF d
    <3>3. /\ d \in ChannelRecord /\ d.input = c.input /\ d.extended = c.extended - x /\ d.extusage = c.extusage
          /\ d.flags = c.flags /\ d.istate = c.istate /\ d.ostate = c.ostate /\ d.efd = c.efd /\ d.type = c.type
          /\ d.output = c.output /\ d.out = c.out
      BY <3>1, <3>2 DEF ChannelRecord
    <3>4. c.output = c.output + 0 /\ c.input = c.input + 0
      BY <1>0
    <3>5. SMoves(c, d, 0, 0 - x) /\ CMoves(c, d, 0, 0 - x)
      BY <3>1, <3>3, <3>4 DEF SMoves, CMoves, SameData
    <3> QED BY <3>1, <3>5 DEF d
  <2>2. CASE ~EfdWrite(c) /\ EfdRead(c)
    <3>1. Ext(c, x) = x /\ c.extended + x \in Nat
      BY <1>0, <1>2, <2>0, <2>2 DEF Ext
    <3>2. d = [c EXCEPT !.extended = c.extended + x]
      BY <1>2, <2>0, <2>2 DEF channel_handle_efd
    <3> HIDE DEF d
    <3>3. /\ d \in ChannelRecord /\ d.input = c.input /\ d.extended = c.extended + x /\ d.extusage = c.extusage
          /\ d.flags = c.flags /\ d.istate = c.istate /\ d.ostate = c.ostate /\ d.efd = c.efd /\ d.type = c.type
          /\ d.output = c.output /\ d.out = c.out
      BY <3>1, <3>2 DEF ChannelRecord
    <3>4. c.output = c.output + 0 /\ c.input = c.input + 0
      BY <1>0
    <3>5. SMoves(c, d, 0, x) /\ CMoves(c, d, 0, x)
      BY <3>1, <3>3, <3>4 DEF SMoves, CMoves, SameData
    <3> QED BY <3>1, <3>5 DEF d
  <2>3. CASE ~EfdWrite(c) /\ ~EfdRead(c)
    <3>1. Ext(c, x) = 0 /\ d = c
      BY <1>2, <2>0, <2>3 DEF Ext, channel_handle_efd
    <3> HIDE DEF d
    <3>2. SMoves(c, d, 0, 0) /\ CMoves(c, d, 0, 0)
      BY <3>1, MovesRefl
    <3> QED BY <3>1, <3>2 DEF d
  <2> QED BY <2>1, <2>2, <2>3
<1> QED BY <1>1, <1>2

\* channel_check_window sends no data.
LEMMA MovesWindow ==
    ASSUME NEW c \in ChannelRecord
    PROVE  SMoves(c, channel_check_window(c), 0, 0) /\ CMoves(c, channel_check_window(c), 0, 0)
<1> DEFINE n == c.cons
           k == Send(c, "ADJUST", n)
           d == [k EXCEPT !.lwin = @ + n, !.cons = 0]
<1>1. CASE channel_check_window(c) = c
  BY <1>1, MovesRefl
<1>2. CASE channel_check_window(c) = d
  <2>1. /\ n \in Nat /\ c.lwin + n \in Nat /\ "ADJUST" \in PacketTypes /\ c.input + 0 = c.input
        /\ c.output + 0 = c.output /\ c.extended + 0 = c.extended
    BY DEF ChannelRecord, PacketTypes
  <2> HIDE DEF n
  <2>2. /\ k = [c EXCEPT !.out = Append(c.out, Pkt("ADJUST", n))] /\ k \in ChannelRecord
        /\ \A T : Carried(Append(c.out, Pkt("ADJUST", n)), T) = Carried(c.out, T) + (IF "ADJUST" \in T THEN n ELSE 0)
    BY <2>1, SendSums
  <2>3. /\ k.type = c.type /\ k.lwin = c.lwin /\ k.out = Append(c.out, Pkt("ADJUST", n)) /\ k.input = c.input
        /\ k.extended = c.extended /\ k.extusage = c.extusage /\ k.output = c.output
        /\ k.flags = c.flags /\ k.istate = c.istate /\ k.ostate = c.ostate /\ k.efd = c.efd
    BY <2>2 DEF ChannelRecord
  <2> HIDE DEF k
  <2>4. /\ d \in ChannelRecord /\ d.type = k.type /\ d.out = k.out /\ d.input = k.input
        /\ d.extended = k.extended /\ d.extusage = k.extusage /\ d.output = k.output
        /\ d.flags = k.flags /\ d.istate = k.istate /\ d.ostate = k.ostate /\ d.efd = k.efd
    BY <2>1, <2>2, <2>3 DEF ChannelRecord
  <2> HIDE DEF d
  <2>5. \A T \in {{"DATA"}, {"EXT"}} : Carried(d.out, T) = Carried(c.out, T)
    <3>1. \A T : Carried(c.out, T) \in Nat
      BY CarriedNat DEF ChannelRecord
    <3>2. \A T \in {{"DATA"}, {"EXT"}} : "ADJUST" \notin T
      OBVIOUS
    <3> QED BY <2>2, <2>3, <2>4, <3>1, <3>2
  <2>6. (Bounded(c.out) => Bounded(d.out)) /\ (NoEow(c.out) => NoEow(d.out))
    <3>1. c.out \in Seq(Packet) /\ Pkt("ADJUST", n) \in Packet /\ Pkt("ADJUST", n).t = "ADJUST"
      BY <2>1 DEF ChannelRecord, Pkt, Packet
    <3> QED BY <2>3, <2>4, <3>1, SendBounded
  <2>7. SMoves(c, d, 0, 0) /\ CMoves(c, d, 0, 0)
    BY <2>1, <2>3, <2>4, <2>5, <2>6 DEF SMoves, CMoves, SameData
  <2> QED BY <1>2, <2>7
<1> QED BY <1>1, <1>2 DEF channel_check_window

----------------------------------------------------------------------------
(* The invariant of the command's output.                                  *)

\* What never changes of the two ends' extended streams.
ClientShape(c) ==
    /\ c.extusage = (IF IsSession THEN "write" ELSE "ignore")
    /\ ~IsSession => c.extended = 0
ServerShape(s) ==
    /\ s.extusage # "write" /\ (s.extusage = "read" => IsSession)
    /\ s.extusage # "read" => s.extended = 0
    /\ Bounded(s.out)

\* The client closes its output only when the server has said that there is
\* no more and all of it is written; the server closes its input only when
\* all of it is sent.
ClientGood(c) ==
    /\ c.ostate = "closed" => c.output = 0 /\ c.extended = 0
    /\ c.ostate # "open" => c.flags \cap {"EOF_RCVD", "CLOSE_RCVD"} # {}
    /\ c.type # "abandoned"
    /\ c.type \in {"opening", "open"} => c.efd = IsSession
    /\ NoEow(c.out)
ServerGood(s) == s.istate = "closed" => s.input = 0 /\ s.extended = 0 /\ "EOF_SENT" \in s.flags

\* Every byte the server read, and of stderr every text about a refused
\* request, is written, buffered by the client, under way or buffered by the
\* server.
Stdout(s) == Carried(s.out, {"DATA"}) + s.input
Stderr(s) == Carried(s.out, {"EXT"}) + s.extended
Books(c, s, m) ==
    /\ m.rd["server"] = m.wr["client"] + c.output + Stdout(s)
    /\ m.erd + m.told = m.ewr + c.extended + Stderr(s)

\* The invariant: the shapes always, the rest until the client gives up.
OutTo(c, s, m) ==
    /\ ClientShape(c) /\ ServerShape(s)
    /\ ~m.lossy => ClientGood(c) /\ ServerGood(s) /\ Books(c, s, m)
OutInv == OutTo(ch["client"], ch["server"], moved)

\* The counters of what the applications read and wrote.
Counts == [rd : [Peers -> Nat], wr : [Peers -> Nat], erd : Nat, ewr : Nat, told : Nat, exit : BOOLEAN, lossy : BOOLEAN]

\* What the invariant adds up are natural numbers.
LEMMA Amounts ==
    ASSUME NEW s \in ChannelRecord
    PROVE  Stdout(s) \in Nat /\ Stderr(s) \in Nat /\ s.output \in Nat /\ s.extended \in Nat /\ s.input \in Nat
<1>1. s.out \in Seq(Packet) /\ s.input \in Nat /\ s.extended \in Nat /\ s.output \in Nat
  BY DEF ChannelRecord
<1>2. Carried(s.out, {"DATA"}) \in Nat /\ Carried(s.out, {"EXT"}) \in Nat
  BY <1>1, CarriedNat
<1> QED BY <1>1, <1>2 DEF Stdout, Stderr

\* The books stay balanced: what is read more is written, buffered or sent.
LEMMA Balanced ==
    ASSUME NEW c \in ChannelRecord, NEW d \in ChannelRecord, NEW s \in ChannelRecord, NEW e \in ChannelRecord,
           NEW m \in Counts, NEW n \in Counts, Books(c, s, m),
           NEW a \in Int, NEW b \in Int, NEW o \in Int, NEW i \in Int,
           n.rd["server"] = m.rd["server"] + a, n.wr["client"] = m.wr["client"] + b,
           d.output = c.output + o, Stdout(e) = Stdout(s) + i, a = b + o + i,
           NEW k \in Int, NEW l \in Int, NEW y \in Int, NEW x \in Int,
           n.erd + n.told = (m.erd + m.told) + k, n.ewr = m.ewr + l,
           d.extended = c.extended + y, Stderr(e) = Stderr(s) + x, k = l + y + x
    PROVE  Books(d, e, n)
<1>1. /\ m.rd["server"] \in Nat /\ m.wr["client"] \in Nat /\ m.erd + m.told \in Nat /\ m.ewr \in Nat
  BY DEF Counts, Peers
<1>2. c.output \in Nat /\ c.extended \in Nat /\ Stdout(s) \in Nat /\ Stderr(s) \in Nat
  BY Amounts
<1>3. ASSUME NEW rd \in Nat, NEW wr \in Nat, NEW h \in Nat, NEW t \in Nat, NEW rd2, NEW wr2, NEW h2, NEW t2,
             NEW u \in Int, NEW v \in Int, NEW f \in Int, NEW g \in Int,
             rd = wr + h + t, rd2 = rd + u, wr2 = wr + v, h2 = h + f, t2 = t + g, u = v + f + g
      PROVE  rd2 = wr2 + h2 + t2
  BY <1>3
<1>4. m.rd["server"] = m.wr["client"] + c.output + Stdout(s) /\ m.erd + m.told = m.ewr + c.extended + Stderr(s)
  BY DEF Books
<1>5. n.rd["server"] = n.wr["client"] + d.output + Stdout(e)
  BY ONLY <1>1, <1>2, <1>3, <1>4, a \in Int, b \in Int, o \in Int, i \in Int,
     n.rd["server"] = m.rd["server"] + a, n.wr["client"] = m.wr["client"] + b,
     d.output = c.output + o, Stdout(e) = Stdout(s) + i, a = b + o + i
<1>6. n.erd + n.told = n.ewr + d.extended + Stderr(e)
  BY ONLY <1>1, <1>2, <1>3, <1>4, k \in Int, l \in Int, y \in Int, x \in Int,
     n.erd + n.told = (m.erd + m.told) + k, n.ewr = m.ewr + l,
     d.extended = c.extended + y, Stderr(e) = Stderr(s) + x, k = l + y + x
<1> QED BY <1>5, <1>6 DEF Books

\* What the server's code keeps.
LEMMA ServerMoves ==
    ASSUME NEW s \in ChannelRecord, NEW d, NEW i \in Int, NEW x \in Int, SMoves(s, d, i, x), ServerShape(s),
           x # 0 => EfdRead(s)
    PROVE  /\ ServerShape(d) /\ Stdout(d) = Stdout(s) + i /\ Stderr(d) = Stderr(s) + x
           /\ ServerGood(s) /\ (s.istate = "closed" /\ "EOF_SENT" \in s.flags => i = 0 /\ x = 0) => ServerGood(d)
<1>1. /\ d \in ChannelRecord /\ d.input = s.input + i /\ d.extended = s.extended + x /\ d.extusage = s.extusage
      /\ s.flags \subseteq d.flags /\ (d.istate = "closed" => s.istate = "closed") /\ SameData(s, d)
  BY DEF SMoves
<1>2. s.input \in Nat /\ s.extended \in Nat /\ Carried(s.out, {"DATA"}) \in Nat /\ Carried(s.out, {"EXT"}) \in Nat
  <2>1. s.out \in Seq(Packet)
    BY DEF ChannelRecord
  <2> QED BY <2>1, CarriedNat DEF ChannelRecord
<1>3. Carried(d.out, {"DATA"}) = Carried(s.out, {"DATA"}) /\ Carried(d.out, {"EXT"}) = Carried(s.out, {"EXT"})
  BY <1>1 DEF SameData
<1>4. Stdout(d) = Carried(s.out, {"DATA"}) + (s.input + i) /\ Stderr(d) = Carried(s.out, {"EXT"}) + (s.extended + x)
  BY <1>1, <1>3 DEF Stdout, Stderr
<1>5. Stdout(d) = Stdout(s) + i /\ Stderr(d) = Stderr(s) + x
  BY <1>2, <1>4 DEF Stdout, Stderr
<1>6. ServerShape(d)
  <2>1. Bounded(d.out)
    BY <1>1 DEF SameData, ServerShape
  <2>2. d.extusage # "read" => d.extended = 0
    <3>1. ASSUME d.extusage # "read" PROVE d.extended = 0
      <4>1. s.extended = 0 /\ x = 0
        BY <1>1, <3>1 DEF ServerShape, EfdRead
      <4> QED BY <1>1, <4>1
    <3> QED BY <3>1
  <2> QED BY <1>1, <2>1, <2>2 DEF ServerShape
<1>7. ASSUME ServerGood(s), s.istate = "closed" /\ "EOF_SENT" \in s.flags => i = 0 /\ x = 0, d.istate = "closed"
      PROVE  d.input = 0 /\ d.extended = 0 /\ "EOF_SENT" \in d.flags
  <2>1. s.input = 0 /\ s.extended = 0 /\ "EOF_SENT" \in s.flags /\ i = 0 /\ x = 0
    BY <1>1, <1>7 DEF ServerGood
  <2> QED BY <1>1, <2>1
<1>8. ServerGood(s) /\ (s.istate = "closed" /\ "EOF_SENT" \in s.flags => i = 0 /\ x = 0) => ServerGood(d)
  BY <1>7 DEF ServerGood
<1> QED BY <1>5, <1>6, <1>8

\* What the client's code keeps.
LEMMA ClientMoves ==
    ASSUME NEW c \in ChannelRecord, NEW d, NEW o \in Int, NEW x \in Int, CMoves(c, d, o, x), ClientShape(c),
           x # 0 => EfdWrite(c)
    PROVE  /\ ClientShape(d)
           /\ ClientGood(c) /\ (c.ostate = "closed" => o = 0 /\ x = 0) => ClientGood(d)
<1>1. /\ d \in ChannelRecord /\ d.output = c.output + o /\ d.extended = c.extended + x /\ d.extusage = c.extusage
      /\ c.flags \subseteq d.flags
      /\ d.ostate = c.ostate /\ d.efd = c.efd /\ d.type \in {c.type, "freed"} /\ (NoEow(c.out) => NoEow(d.out))
  BY DEF CMoves
<1>2. ClientShape(d)
  <2>1. ASSUME ~IsSession PROVE d.extended = 0
    <3>1. c.extended = 0 /\ x = 0
      BY <2>1 DEF ClientShape, EfdWrite
    <3> QED BY <1>1, <3>1
  <2> QED BY <1>1, <2>1 DEF ClientShape
<1>3. ASSUME ClientGood(c), c.ostate = "closed" => o = 0 /\ x = 0 PROVE ClientGood(d)
  <2>1. d.ostate = "closed" => d.output = 0 /\ d.extended = 0
    <3>1. ASSUME d.ostate = "closed" PROVE d.output = 0 /\ d.extended = 0
      <4>1. c.output = 0 /\ c.extended = 0 /\ o = 0 /\ x = 0
        BY <1>1, <1>3, <3>1 DEF ClientGood
      <4> QED BY <1>1, <4>1
    <3> QED BY <3>1
  <2>2. d.ostate # "open" => d.flags \cap {"EOF_RCVD", "CLOSE_RCVD"} # {}
    BY <1>1, <1>3 DEF ClientGood
  <2> QED BY <1>1, <1>3, <2>1, <2>2 DEF ClientGood
<1> QED BY <1>2, <1>3

\* What a step makes of each end: i and x (o and y) are the bytes that come
\* to its stdout and stderr; only the shapes matter once output was lost.
ServerFine(s, e, i, x, lossy) ==
    /\ e \in ChannelRecord /\ ServerShape(e)
    /\ ~lossy => ServerGood(e) /\ Stdout(e) = Stdout(s) + i /\ Stderr(e) = Stderr(s) + x
ClientFine(c, d, o, y, lossy) ==
    /\ d \in ChannelRecord /\ ClientShape(d)
    /\ ~lossy => ClientGood(d) /\ d.output = c.output + o /\ d.extended = c.extended + y

\* The invariant is kept when the two ends are fine and the books agree.
LEMMA OutBy ==
    ASSUME NEW c \in ChannelRecord, NEW d, NEW s \in ChannelRecord, NEW e,
           NEW m \in Counts, NEW n \in Counts, OutTo(c, s, m), m.lossy => n.lossy,
           NEW o \in Int, NEW y \in Int, NEW i \in Int, NEW x \in Int,
           ClientFine(c, d, o, y, n.lossy), ServerFine(s, e, i, x, n.lossy),
           NEW a \in Int, NEW b \in Int, NEW k \in Int, NEW l \in Int,
           ~n.lossy => a = b + o + i /\ k = l + y + x,
           n.rd["server"] = m.rd["server"] + a, n.wr["client"] = m.wr["client"] + b,
           n.erd + n.told = (m.erd + m.told) + k, n.ewr = m.ewr + l
    PROVE  OutTo(d, e, n)
<1>1. d \in ChannelRecord /\ e \in ChannelRecord /\ ClientShape(d) /\ ServerShape(e)
  BY DEF ClientFine, ServerFine
<1>2. ASSUME ~n.lossy PROVE ClientGood(d) /\ ServerGood(e) /\ Books(d, e, n)
  <2>1. Books(c, s, m)
    BY <1>2 DEF OutTo
  <2>2. /\ ClientGood(d) /\ d.output = c.output + o /\ d.extended = c.extended + y
        /\ ServerGood(e) /\ Stdout(e) = Stdout(s) + i /\ Stderr(e) = Stderr(s) + x
    BY <1>2 DEF ClientFine, ServerFine
  <2>3. a = b + o + i /\ k = l + y + x
    BY <1>2
  <2>4. Books(d, e, n)
    BY <1>1, <2>1, <2>2, <2>3, Balanced
  <2> QED BY <2>2, <2>4
<1> QED BY <1>1, <1>2 DEF OutTo

\* Code that moves nothing of the output, or only what it reads or writes.
LEMMA FineMoves ==
    ASSUME NEW c \in ChannelRecord, NEW s \in ChannelRecord, NEW m, OutTo(c, s, m), NEW d, NEW i \in Int, NEW x \in Int
    PROVE  /\ SMoves(s, d, i, x) /\ (x # 0 => EfdRead(s)) /\ (s.istate = "closed" /\ "EOF_SENT" \in s.flags => i = 0 /\ x = 0)
                => ServerFine(s, d, i, x, m.lossy)
           /\ CMoves(c, d, i, x) /\ (x # 0 => EfdWrite(c)) /\ (c.ostate = "closed" => i = 0 /\ x = 0)
                => ClientFine(c, d, i, x, m.lossy)
<1>1. ClientShape(c) /\ ServerShape(s) /\ (~m.lossy => ClientGood(c) /\ ServerGood(s))
  BY DEF OutTo
<1>2. ASSUME SMoves(s, d, i, x), x # 0 => EfdRead(s), s.istate = "closed" /\ "EOF_SENT" \in s.flags => i = 0 /\ x = 0
      PROVE  ServerFine(s, d, i, x, m.lossy)
  <2>1. ServerShape(d) /\ Stdout(d) = Stdout(s) + i /\ Stderr(d) = Stderr(s) + x /\ (ServerGood(s) => ServerGood(d))
    BY <1>1, <1>2, ServerMoves
  <2> QED BY <1>1, <1>2, <2>1 DEF ServerFine, SMoves
<1>3. ASSUME CMoves(c, d, i, x), x # 0 => EfdWrite(c), c.ostate = "closed" => i = 0 /\ x = 0
      PROVE  ClientFine(c, d, i, x, m.lossy)
  <2>1. ClientShape(d) /\ (ClientGood(c) => ClientGood(d))
    BY <1>1, <1>3, ClientMoves
  <2> QED BY <1>1, <1>3, <2>1 DEF ClientFine, CMoves
<1> QED BY <1>2, <1>3

\* Once output was lost nothing but the shapes is asked for.
LEMMA FineLossy ==
    ASSUME NEW c \in ChannelRecord, NEW s \in ChannelRecord, NEW m, OutTo(c, s, m), NEW d, NEW i, NEW x, NEW l, l
    PROVE  /\ Quiescent(s, d) => ServerFine(s, d, i, x, l)
           /\ Quiescent(c, d) => ClientFine(c, d, i, x, l)
<1>1. ClientShape(c) /\ ServerShape(s)
  BY DEF OutTo
<1>2. ASSUME Quiescent(s, d) PROVE ServerFine(s, d, i, x, l)
  BY <1>1, <1>2 DEF Quiescent, SameSums, ServerShape, ServerFine
<1>3. ASSUME Quiescent(c, d) PROVE ClientFine(c, d, i, x, l)
  BY <1>1, <1>3 DEF Quiescent, ClientShape, ClientFine
<1> QED BY <1>2, <1>3

\* The end whose packet is taken.
LEMMA FinePopped ==
    ASSUME NEW c \in ChannelRecord, NEW s \in ChannelRecord, NEW m, OutTo(c, s, m)
    PROVE  /\ c.out # <<>> => ClientFine(c, [c EXCEPT !.out = Tail(@)], 0, 0, m.lossy)
           /\ s.out # <<>> => ServerFine(s, [s EXCEPT !.out = Tail(@)], 0 - Weight(Head(s.out), {"DATA"}),
                                         0 - Weight(Head(s.out), {"EXT"}), m.lossy)
<1>0. ClientShape(c) /\ ServerShape(s) /\ (~m.lossy => ClientGood(c) /\ ServerGood(s))
  BY DEF OutTo
<1>1. ASSUME NEW e \in ChannelRecord, e.out # <<>>
      PROVE  /\ [e EXCEPT !.out = Tail(@)] \in ChannelRecord /\ [e EXCEPT !.out = Tail(@)].out = Tail(e.out)
             /\ e.out \in Seq(Packet) /\ Tail(e.out) \in Seq(Packet) /\ Head(e.out) \in Packet
             /\ Len(Tail(e.out)) = Len(e.out) - 1 /\ \A j \in 1..(Len(e.out) - 1) : Tail(e.out)[j] = e.out[j + 1]
  <2>1. e.out \in Seq(Packet)
    BY DEF ChannelRecord
  <2>2. /\ Tail(e.out) \in Seq(Packet) /\ Head(e.out) \in Packet
        /\ Len(Tail(e.out)) = Len(e.out) - 1 /\ \A j \in 1..(Len(e.out) - 1) : Tail(e.out)[j] = e.out[j + 1]
    BY <1>1, <2>1, HeadTailProperties
  <2>3. [e EXCEPT !.out = Tail(@)] \in ChannelRecord /\ [e EXCEPT !.out = Tail(@)].out = Tail(e.out)
    BY <2>2 DEF ChannelRecord
  <2> QED BY <2>1, <2>2, <2>3
<1>2. ASSUME NEW e \in ChannelRecord, e.out # <<>>, NEW j \in 1..Len(Tail(e.out))
      PROVE  j + 1 \in 1..Len(e.out) /\ Tail(e.out)[j] = e.out[j + 1]
  <2>1. Len(e.out) \in Nat /\ Len(Tail(e.out)) = Len(e.out) - 1
    BY <1>1, <1>2
  <2>2. j \in 1..(Len(e.out) - 1) /\ j + 1 \in 1..Len(e.out)
    BY <1>2, <2>1
  <2> QED BY <1>1, <1>2, <2>2
<1>3. ASSUME c.out # <<>> PROVE ClientFine(c, [c EXCEPT !.out = Tail(@)], 0, 0, m.lossy)
  <2> DEFINE u == [c EXCEPT !.out = Tail(@)]
  <2>1. u \in ChannelRecord /\ u.out = Tail(c.out)
    BY <1>1, <1>3
  <2>2. /\ u.output = c.output /\ u.extended = c.extended /\ u.extusage = c.extusage /\ u.flags = c.flags
        /\ u.ostate = c.ostate /\ u.efd = c.efd /\ u.type = c.type
    BY DEF ChannelRecord
  <2> HIDE DEF u
  <2>3. NoEow(c.out) => NoEow(u.out)
    BY <1>2, <1>3, <2>1 DEF NoEow
  <2>4. c.output = c.output + 0 /\ c.extended = c.extended + 0
    BY DEF ChannelRecord
  <2>5. ClientShape(u) /\ (ClientGood(c) => ClientGood(u))
    BY <1>0, <2>2, <2>3 DEF ClientShape, ClientGood
  <2>6. ClientFine(c, u, 0, 0, m.lossy)
    BY <1>0, <2>1, <2>2, <2>4, <2>5 DEF ClientFine
  <2> QED BY <2>6 DEF u
<1>4. ASSUME s.out # <<>>
      PROVE  ServerFine(s, [s EXCEPT !.out = Tail(@)], 0 - Weight(Head(s.out), {"DATA"}),
                        0 - Weight(Head(s.out), {"EXT"}), m.lossy)
  <2> DEFINE u == [s EXCEPT !.out = Tail(@)]
             v == Weight(Head(s.out), {"DATA"})
             w == Weight(Head(s.out), {"EXT"})
  <2>1. u \in ChannelRecord /\ u.out = Tail(s.out)
    BY <1>1, <1>4
  <2>2. /\ u.input = s.input /\ u.extended = s.extended /\ u.extusage = s.extusage /\ u.flags = s.flags
        /\ u.istate = s.istate
    BY DEF ChannelRecord
  <2>3. /\ v \in Nat /\ w \in Nat
    BY <1>1, <1>4, WeightNat
  <2>4. /\ Carried(s.out, {"DATA"}) = v + Carried(Tail(s.out), {"DATA"})
        /\ Carried(s.out, {"EXT"}) = w + Carried(Tail(s.out), {"EXT"})
        /\ Carried(Tail(s.out), {"DATA"}) \in Nat /\ Carried(Tail(s.out), {"EXT"}) \in Nat
    BY <1>1, <1>4, CarriedTail, CarriedNat
  <2> HIDE DEF u, v, w
  <2>5. Bounded(s.out) => Bounded(u.out)
    BY <1>2, <1>4, <2>1 DEF Bounded
  <2>6. s.input \in Nat /\ s.extended \in Nat
    BY DEF ChannelRecord
  <2>7. Stdout(u) = Stdout(s) + (0 - v) /\ Stderr(u) = Stderr(s) + (0 - w)
    <3>1. /\ Stdout(u) = Carried(Tail(s.out), {"DATA"}) + s.input /\ Stderr(u) = Carried(Tail(s.out), {"EXT"}) + s.extended
          /\ Stdout(s) = v + Carried(Tail(s.out), {"DATA"}) + s.input /\ Stderr(s) = w + Carried(Tail(s.out), {"EXT"}) + s.extended
      BY <2>1, <2>2, <2>4 DEF Stdout, Stderr
    <3> QED BY ONLY <2>3, <2>4, <2>6, <3>1
  <2>8. ServerShape(u) /\ (ServerGood(s) => ServerGood(u))
    BY <1>0, <2>2, <2>5 DEF ServerShape, ServerGood
  <2>9. ServerFine(s, u, 0 - v, 0 - w, m.lossy)
    BY <1>0, <2>1, <2>7, <2>8 DEF ServerFine
  <2> QED BY <2>9 DEF u, v, w
<1> QED BY <1>3, <1>4

----------------------------------------------------------------------------
(* Steps that move nothing to or from the applications.                    *)

\* The applications read and wrote nothing.
SameCounts ==
    /\ moved' \in Counts /\ (moved.lossy => moved'.lossy)
    /\ moved'.rd["server"] = moved.rd["server"] /\ moved'.wr["client"] = moved.wr["client"]
    /\ moved'.erd = moved.erd /\ moved'.ewr = moved.ewr /\ moved'.told = moved.told

\* Losing output asks for less.
LEMMA FineMono ==
    ASSUME NEW c, NEW d, NEW i, NEW x, NEW l, NEW k, l => k
    PROVE  /\ ClientFine(c, d, i, x, l) => ClientFine(c, d, i, x, k)
           /\ ServerFine(c, d, i, x, l) => ServerFine(c, d, i, x, k)
BY DEF ClientFine, ServerFine

\* What the invariants say of the two ends.
LEMMA Ends ==
    ASSUME IInv, OutInv
    PROVE  /\ ch["client"] \in ChannelRecord /\ ch["server"] \in ChannelRecord /\ moved \in Counts
           /\ "client" \in Peers /\ "server" \in Peers /\ Other("client") = "server" /\ Other("server") = "client"
           /\ ch \in [Peers -> ChannelRecord] /\ OutTo(ch["client"], ch["server"], moved)
           /\ ClientFine(ch["client"], ch["client"], 0, 0, moved.lossy)
           /\ ServerFine(ch["server"], ch["server"], 0, 0, moved.lossy)
<1>1. /\ ch["client"] \in ChannelRecord /\ ch["server"] \in ChannelRecord /\ moved \in Counts
      /\ "client" \in Peers /\ "server" \in Peers /\ Other("client") = "server" /\ Other("server") = "client"
      /\ ch \in [Peers -> ChannelRecord]
  BY DEF IInv, TypeOK, Peers, Other, Counts
<1>2. OutTo(ch["client"], ch["server"], moved)
  BY DEF OutInv
<1>3. /\ SMoves(ch["server"], ch["server"], 0, 0) /\ CMoves(ch["client"], ch["client"], 0, 0)
  BY <1>1, MovesRefl
<1> QED BY <1>1, <1>2, <1>3, FineMoves

\* The books stay balanced when bytes only go from the server to the client.
LEMMA OutSame ==
    ASSUME IInv, OutInv, SameCounts, NEW o \in Int, NEW y \in Int,
           ClientFine(ch["client"], ch'["client"], o, y, moved'.lossy),
           ServerFine(ch["server"], ch'["server"], 0 - o, 0 - y, moved'.lossy)
    PROVE  OutInv'
<1> DEFINE c == ch["client"]
           s == ch["server"]
           d == ch'["client"]
           e == ch'["server"]
           m == moved
           n == moved'
<1>1. c \in ChannelRecord /\ s \in ChannelRecord /\ m \in Counts /\ OutTo(c, s, m)
  BY Ends
<1>2. n \in Counts /\ (m.lossy => n.lossy) /\ 0 - o \in Int /\ 0 - y \in Int /\ 0 = 0 + o + (0 - o) /\ 0 = 0 + y + (0 - y)
  BY DEF SameCounts
<1>3. /\ n.rd["server"] = m.rd["server"] + 0 /\ n.wr["client"] = m.wr["client"] + 0
      /\ n.erd + n.told = (m.erd + m.told) + 0 /\ n.ewr = m.ewr + 0
  <2>1. m.rd["server"] \in Nat /\ m.wr["client"] \in Nat /\ m.erd + m.told \in Nat /\ m.ewr \in Nat
    BY <1>1 DEF Counts, Peers
  <2> QED BY <2>1 DEF SameCounts
<1>4. ClientFine(c, d, o, y, n.lossy) /\ ServerFine(s, e, 0 - o, 0 - y, n.lossy)
  OBVIOUS
<1> HIDE DEF c, s, d, e, m, n
<1>5. OutTo(d, e, n)
  BY ONLY <1>1, <1>2, <1>3, <1>4, o \in Int, y \in Int, OutBy
<1> QED BY <1>5 DEF OutInv, d, e, n

\* A step of one end alone.
LEMMA OutStep ==
    ASSUME IInv, OutInv, SameCounts, NEW p \in Peers, NEW d, Step(p, d),
           p = "client" => ClientFine(ch["client"], d, 0, 0, moved'.lossy),
           p = "server" => ServerFine(ch["server"], d, 0, 0, moved'.lossy)
    PROVE  OutInv'
<1>1. /\ ch \in [Peers -> ChannelRecord] /\ "client" \in Peers /\ "server" \in Peers
      /\ ClientFine(ch["client"], ch["client"], 0, 0, moved'.lossy) /\ ServerFine(ch["server"], ch["server"], 0, 0, moved'.lossy)
  BY Ends, FineMono DEF SameCounts
<1>2. \/ p = "client" /\ ch'["client"] = d /\ ch'["server"] = ch["server"]
      \/ p = "server" /\ ch'["client"] = ch["client"] /\ ch'["server"] = d
  BY <1>1 DEF Step, Peers
<1>3. 0 - 0 = 0 /\ 0 \in Int
  OBVIOUS
<1>4. ClientFine(ch["client"], ch'["client"], 0, 0, moved'.lossy) /\ ServerFine(ch["server"], ch'["server"], 0, 0, moved'.lossy)
  BY <1>1, <1>2
<1> QED BY <1>3, <1>4, OutSame

\* A step that takes a packet.
LEMMA OutServerTakes ==
    ASSUME IInv, OutInv, SameCounts, NEW d, NEW f, Handled("server", d, f), ch["client"].out # <<>>,
           ServerFine(ch["server"], d, 0, 0, moved'.lossy)
    PROVE  OutInv'
<1>1. /\ ch["client"] \in ChannelRecord /\ ch["server"] \in ChannelRecord /\ OutTo(ch["client"], ch["server"], moved)
      /\ "server" \in Peers /\ Other("server") = "client"
  BY Ends
<1>2. ch'["server"] = d /\ ch'["client"] = [ch["client"] EXCEPT !.out = Tail(@)]
  BY <1>1, HandledCh
<1>3. ClientFine(ch["client"], ch'["client"], 0, 0, moved'.lossy)
  <2>1. ClientFine(ch["client"], ch'["client"], 0, 0, moved.lossy)
    BY <1>1, <1>2, FinePopped
  <2>2. moved.lossy => moved'.lossy
    BY DEF SameCounts
  <2> QED BY <2>1, <2>2, FineMono
<1>4. 0 - 0 = 0 /\ 0 \in Int
  OBVIOUS
<1> QED BY <1>2, <1>3, <1>4, OutSame

\* The client takes what the packet carries.
LEMMA OutClientTakes ==
    ASSUME IInv, OutInv, SameCounts, NEW d, NEW f, Handled("client", d, f), ch["server"].out # <<>>,
           ClientFine(ch["client"], d, Weight(Msg("client"), {"DATA"}), Weight(Msg("client"), {"EXT"}), moved'.lossy)
    PROVE  OutInv'
<1> DEFINE v == Weight(Msg("client"), {"DATA"})
           w == Weight(Msg("client"), {"EXT"})
<1>1. /\ ch["client"] \in ChannelRecord /\ ch["server"] \in ChannelRecord /\ OutTo(ch["client"], ch["server"], moved)
      /\ "client" \in Peers /\ Other("client") = "server" /\ Msg("client") = Head(ch["server"].out)
  BY Ends DEF Msg
<1>2. ch'["client"] = d /\ ch'["server"] = [ch["server"] EXCEPT !.out = Tail(@)] /\ Msg("client") \in Packet
  BY <1>1, HandledCh, TakenSums
<1>3. v \in Int /\ w \in Int
  BY <1>2, WeightNat
<1>4. ServerFine(ch["server"], ch'["server"], 0 - v, 0 - w, moved'.lossy)
  <2>1. ServerFine(ch["server"], ch'["server"], 0 - v, 0 - w, moved.lossy)
    BY <1>1, <1>2, FinePopped
  <2>2. moved.lossy => moved'.lossy
    BY DEF SameCounts
  <2> QED BY <2>1, <2>2, FineMono
<1> HIDE DEF v, w
<1>5. ClientFine(ch["client"], ch'["client"], v, w, moved'.lossy)
  BY <1>2 DEF v, w
<1> QED BY <1>3, <1>4, <1>5, OutSame

\* A packet that is no data.
LEMMA NoWeight ==
    ASSUME NEW m, m.t \notin DataPackets PROVE Weight(m, {"DATA"}) = 0 /\ Weight(m, {"EXT"}) = 0
BY DEF Weight, DataPackets

\* A step in which an end moves nothing.
LEMMA OutQuietStep ==
    ASSUME IInv, OutInv, SameCounts, NEW p \in Peers, NEW d, Step(p, d),
           p = "client" => CMoves(ch["client"], d, 0, 0),
           p = "server" => SMoves(ch["server"], d, 0, 0)
    PROVE  OutInv'
<1>1. /\ ch["client"] \in ChannelRecord /\ ch["server"] \in ChannelRecord /\ OutTo(ch["client"], ch["server"], moved)
  BY Ends
<1>2. /\ p = "client" => ClientFine(ch["client"], d, 0, 0, moved'.lossy)
      /\ p = "server" => ServerFine(ch["server"], d, 0, 0, moved'.lossy)
  <2>1. moved.lossy => moved'.lossy
    BY DEF SameCounts
  <2>2. CMoves(ch["client"], d, 0, 0) => ClientFine(ch["client"], d, 0, 0, moved.lossy)
    BY <1>1, FineMoves
  <2>3. SMoves(ch["server"], d, 0, 0) => ServerFine(ch["server"], d, 0, 0, moved.lossy)
    BY <1>1, FineMoves
  <2> QED BY <2>1, <2>2, <2>3, FineMono
<1> QED BY <1>2, OutStep

\* A packet that is no data, handled without moving any.
LEMMA OutQuietTake ==
    ASSUME IInv, OutInv, SameCounts, NEW p \in Peers, NEW d, NEW f, Handled(p, d, f), ch[Other(p)].out # <<>>,
           p = "client" => CMoves(ch["client"], d, 0, 0) /\ Msg("client").t \notin DataPackets,
           p = "server" => SMoves(ch["server"], d, 0, 0)
    PROVE  OutInv'
<1>1. /\ ch["client"] \in ChannelRecord /\ ch["server"] \in ChannelRecord /\ OutTo(ch["client"], ch["server"], moved)
      /\ Other("client") = "server" /\ Other("server") = "client"
  BY Ends
<1>2. /\ p = "client" => ClientFine(ch["client"], d, 0, 0, moved'.lossy)
      /\ p = "server" => ServerFine(ch["server"], d, 0, 0, moved'.lossy)
  <2>1. moved.lossy => moved'.lossy
    BY DEF SameCounts
  <2>2. CMoves(ch["client"], d, 0, 0) => ClientFine(ch["client"], d, 0, 0, moved.lossy)
    BY <1>1, FineMoves
  <2>3. SMoves(ch["server"], d, 0, 0) => ServerFine(ch["server"], d, 0, 0, moved.lossy)
    BY <1>1, FineMoves
  <2> QED BY <2>1, <2>2, <2>3, FineMono
<1>3. CASE p = "client"
  <2>1. Weight(Msg("client"), {"DATA"}) = 0 /\ Weight(Msg("client"), {"EXT"}) = 0
    BY <1>3, NoWeight
  <2> QED BY <1>1, <1>2, <1>3, <2>1, OutClientTakes
<1>4. CASE p = "server"
  BY <1>1, <1>2, <1>4, OutServerTakes
<1> QED BY <1>3, <1>4 DEF Peers

\* A step after which output is lost anyway.
LEMMA OutLossyStep ==
    ASSUME IInv, OutInv, SameCounts, NEW p \in Peers, NEW d, Step(p, d), Quiescent(ch[p], d), moved'.lossy
    PROVE  OutInv'
<1>1. /\ ch["client"] \in ChannelRecord /\ ch["server"] \in ChannelRecord /\ OutTo(ch["client"], ch["server"], moved)
  BY Ends
<1>2. /\ p = "client" => ClientFine(ch["client"], d, 0, 0, moved'.lossy)
      /\ p = "server" => ServerFine(ch["server"], d, 0, 0, moved'.lossy)
  BY <1>1, FineLossy
<1> QED BY <1>2, OutStep

\* A packet after which output is lost anyway.
LEMMA OutLossyTake ==
    ASSUME IInv, OutInv, SameCounts, NEW p \in Peers, NEW d, NEW f, Handled(p, d, f), ch[Other(p)].out # <<>>,
           Quiescent(ch[p], d), moved'.lossy
    PROVE  OutInv'
<1>1. /\ ch["client"] \in ChannelRecord /\ ch["server"] \in ChannelRecord /\ OutTo(ch["client"], ch["server"], moved)
      /\ Other("client") = "server" /\ Other("server") = "client"
  BY Ends
<1>2. CASE p = "client"
  <2>1. ClientFine(ch["client"], d, Weight(Msg("client"), {"DATA"}), Weight(Msg("client"), {"EXT"}), moved'.lossy)
    BY <1>1, <1>2, FineLossy
  <2> QED BY <1>1, <1>2, <2>1, OutClientTakes
<1>3. CASE p = "server"
  <2>1. ServerFine(ch["server"], d, 0, 0, moved'.lossy)
    BY <1>1, <1>3, FineLossy
  <2> QED BY <1>1, <1>3, <2>1, OutServerTakes
<1> QED BY <1>2, <1>3 DEF Peers

----------------------------------------------------------------------------
(* The client closes its output when everything is written.                *)

\* chan_obuf_empty waits for stdout, and its callers for stderr.
LEMMA GoodObuf ==
    ASSUME NEW d \in ChannelRecord, ClientShape(d), ClientGood(d), d.type = "open", ~EFD_OUTPUT_ACTIVE(d)
    PROVE  ClientGood(chan_obuf_empty(d))
<1>0. d.output \in Nat /\ d.extended \in Nat
  BY DEF ChannelRecord
<1>1. CASE d.output > 0 \/ d.ostate # "drain"
  BY <1>1 DEF chan_obuf_empty
<1>2. CASE ~(d.output > 0 \/ d.ostate # "drain")
  <2> DEFINE e == chan_obuf_empty(d)
  <2>1. e = [d EXCEPT !.output = 0, !.ostate = "closed"] /\ d.ostate = "drain"
    BY <1>2 DEF chan_obuf_empty
  <2>2. d.flags \cap {"EOF_RCVD", "CLOSE_RCVD"} # {} /\ d.efd = IsSession /\ d.type # "abandoned" /\ NoEow(d.out)
    BY <2>1 DEF ClientGood
  <2>3. d.extended = 0
    <3>1. CASE IsSession
      <4>1. EfdWrite(d) /\ d.efd
        BY <2>2, <3>1 DEF ClientShape, EfdWrite
      <4>2. ~(d.extended > 0)
        BY <4>1 DEF EFD_OUTPUT_ACTIVE
      <4> QED BY <1>0, <4>2
    <3>2. CASE ~IsSession
      BY <3>2 DEF ClientShape
    <3> QED BY <3>1, <3>2
  <2> HIDE DEF e
  <2>4. /\ e.output = 0 /\ e.extended = d.extended /\ e.flags = d.flags /\ e.type = d.type /\ e.efd = d.efd /\ e.out = d.out
    BY <2>1 DEF ChannelRecord
  <2>5. ClientGood(e)
    BY <2>2, <2>3, <2>4 DEF ClientGood
  <2> QED BY <2>5 DEF e
<1> QED BY <1>1, <1>2

\* A channel that has heard the last of the server's output.
LEMMA GoodDraining ==
    ASSUME NEW c \in ChannelRecord, NEW f \in {"EOF_RCVD", "CLOSE_RCVD"}
    PROVE  /\ Draining(Flagged(c, f)) \in ChannelRecord
           /\ ClientShape(c) => ClientShape(Draining(Flagged(c, f)))
           /\ ClientGood(c) => ClientGood(Draining(Flagged(c, f)))
           /\ Draining(Flagged(c, f)).type = c.type /\ Draining(Flagged(c, f)).istate = c.istate
<1> DEFINE d == Draining(Flagged(c, f))
<1>1. d \in ChannelRecord
  BY StillFlags, StillRecord
<1>2. /\ d.flags = c.flags \cup {f} /\ d.ostate # "open" /\ (d.ostate = "closed" => c.ostate = "closed")
      /\ d.output = c.output /\ d.extended = c.extended /\ d.extusage = c.extusage /\ d.type = c.type /\ d.efd = c.efd
      /\ d.out = c.out /\ d.istate = c.istate
  BY DEF Draining, Flagged, ChannelRecord
<1> HIDE DEF d
<1>3. ClientShape(c) => ClientShape(d)
  BY <1>2 DEF ClientShape
<1>4. ClientGood(c) => ClientGood(d)
  BY <1>2 DEF ClientGood
<1> QED BY <1>1, <1>2, <1>3, <1>4 DEF d

\* chan_rcvd_ieof closes the output only when all is written.
LEMMA GoodIeof ==
    ASSUME NEW c \in ChannelRecord, ClientShape(c), ClientGood(c), c.type = "open"
    PROVE  ClientGood(chan_rcvd_ieof(c))
<1> DEFINE d == Draining(Flagged(c, "EOF_RCVD"))
<1>1. d \in ChannelRecord /\ ClientShape(d) /\ ClientGood(d) /\ d.type = "open"
  BY GoodDraining
<1>2. d = [c EXCEPT !.flags = @ \cup {"EOF_RCVD"}, !.ostate = IF @ = "open" THEN "drain" ELSE @]
  BY DEF Draining, Flagged, ChannelRecord
<1>3. chan_rcvd_ieof(c) = IF d.ostate = "drain" /\ d.output = 0 /\ ~EFD_OUTPUT_ACTIVE(d) THEN chan_obuf_empty(d) ELSE d
  BY <1>2 DEF chan_rcvd_ieof
<1> HIDE DEF d
<1> QED BY <1>1, <1>3, GoodObuf

\* chan_rcvd_oclose leaves the output to drain.
LEMMA GoodOclose ==
    ASSUME NEW c \in ChannelRecord, ClientShape(c), ClientGood(c), c.type = "open"
    PROVE  ClientGood(chan_rcvd_oclose(c))
<1> DEFINE d == Flagged(c, "CLOSE_RCVD")
           e == Draining(d)
           f == IF e.istate = "drain" THEN chan_send_eof2(e) ELSE e
           g == chan_shutdown_extended_read(f)
           h == [g EXCEPT !.istate = "closed"]
<1>1. e \in ChannelRecord /\ ClientShape(e) /\ ClientGood(e) /\ e.type = "open"
  BY GoodDraining
<1>2. chan_rcvd_oclose(c) \in {e, h}
  BY DEF chan_rcvd_oclose, Draining, Flagged
<1> HIDE DEF e
<1>3. /\ f \in ChannelRecord /\ f.type = "open" /\ f.ostate = e.ostate /\ e.flags \subseteq f.flags /\ f.output = e.output
      /\ f.extended = e.extended /\ f.extusage = e.extusage /\ f.efd = e.efd
  <2>1. f \in ChannelRecord
    BY <1>1, StillSends, StillRecord
  <2>2. /\ f.type = "open" /\ f.ostate = e.ostate /\ e.flags \subseteq f.flags /\ f.output = e.output
        /\ f.extended = e.extended /\ f.extusage = e.extusage /\ f.efd = e.efd
    BY <1>1 DEF chan_send_eof2, Send, ChannelRecord
  <2> QED BY <2>1, <2>2
<1>4. NoEow(e.out) => NoEow(f.out)
  BY <1>1, StillSends DEF Still
<1> HIDE DEF f
<1>5. /\ g \in ChannelRecord /\ g.type = "open" /\ g.ostate = f.ostate /\ g.flags = f.flags /\ g.output = f.output
      /\ g.extended = f.extended /\ g.out = f.out /\ (g.efd = f.efd \/ (g.efd = FALSE /\ f.extusage # "write"))
  <2>1. g \in ChannelRecord
    BY <1>3, StillReads, StillRecord
  <2>2. CASE g = f
    BY <1>3, <2>2
  <2>3. CASE f.extusage \in {"read", "ignore"} /\ g = [f EXCEPT !.efd = FALSE]
    BY <1>3, <2>1, <2>3 DEF ChannelRecord
  <2> QED BY <2>2, <2>3 DEF chan_shutdown_extended_read
<1> HIDE DEF g
<1>6. /\ h.type = "open" /\ h.ostate = g.ostate /\ h.flags = g.flags /\ h.output = g.output
      /\ h.extended = g.extended /\ h.out = g.out /\ h.efd = g.efd
  BY <1>5 DEF ChannelRecord
<1> HIDE DEF h
<1>7. ClientGood(h)
  <2>1. h.efd = IsSession
    <3>1. e.efd = IsSession /\ (e.extusage # "write" => ~IsSession)
      BY <1>1 DEF ClientGood, ClientShape
    <3>2. CASE g.efd = f.efd
      BY <1>3, <1>6, <3>1, <3>2
    <3>3. CASE g.efd = FALSE /\ f.extusage # "write"
      <4>1. ~IsSession
        BY <1>3, <3>1, <3>3
      <4>2. IsSession \in BOOLEAN
        BY DEF IsSession
      <4>3. IsSession = FALSE
        BY ONLY <4>1, <4>2, Zenon
      <4> QED BY <1>6, <3>3, <4>3
    <3> QED BY <1>5, <3>2, <3>3
  <2>2. h.ostate = e.ostate /\ e.flags \subseteq h.flags /\ h.output = e.output /\ h.extended = e.extended /\ NoEow(h.out)
    BY <1>1, <1>3, <1>4, <1>5, <1>6 DEF ClientGood
  <2>3. h.ostate # "open" => h.flags \cap {"EOF_RCVD", "CLOSE_RCVD"} # {}
    BY <1>1, <2>2 DEF ClientGood
  <2>4. h.ostate = "closed" => h.output = 0 /\ h.extended = 0
    BY <1>1, <2>2 DEF ClientGood
  <2> QED BY <1>6, <2>1, <2>2, <2>3, <2>4 DEF ClientGood
<1> QED BY <1>1, <1>2, <1>7

----------------------------------------------------------------------------
(* The packet handlers keep the output.                                    *)

\* Nothing is read or written.
LEMMA Unmoved ==
    ASSUME IInv
    PROVE  /\ moved' = moved => SameCounts
           /\ \A b \in BOOLEAN : moved' = [moved EXCEPT !.exit = b] => SameCounts
           /\ \A b \in BOOLEAN : moved' = [moved EXCEPT !.lossy = b] /\ (moved.lossy => b) => SameCounts
           /\ \A b \in BOOLEAN : moved' = [moved EXCEPT !.lossy = b, !.told = moved.told] /\ (moved.lossy => b) => SameCounts
<1>0. moved \in Counts
  BY DEF IInv, TypeOK, Counts
<1>1. moved' = moved => SameCounts
  BY <1>0 DEF SameCounts
<1>2. ASSUME NEW b \in BOOLEAN, moved' = [moved EXCEPT !.exit = b] PROVE SameCounts
  <2>1. moved' \in Counts /\ moved'.lossy = moved.lossy /\ moved'.rd = moved.rd /\ moved'.wr = moved.wr
        /\ moved'.erd = moved.erd /\ moved'.ewr = moved.ewr /\ moved'.told = moved.told
    BY <1>0, <1>2 DEF Counts
  <2> QED BY <2>1 DEF SameCounts
<1>3. ASSUME NEW b \in BOOLEAN, moved' = [moved EXCEPT !.lossy = b], moved.lossy => b PROVE SameCounts
  <2>1. moved' \in Counts /\ moved'.lossy = b /\ moved'.rd = moved.rd /\ moved'.wr = moved.wr
        /\ moved'.erd = moved.erd /\ moved'.ewr = moved.ewr /\ moved'.told = moved.told
    BY <1>0, <1>3 DEF Counts
  <2> QED BY <1>3, <2>1 DEF SameCounts
<1>4. ASSUME NEW b \in BOOLEAN, moved' = [moved EXCEPT !.lossy = b, !.told = moved.told], moved.lossy => b PROVE SameCounts
  <2>1. moved' \in Counts /\ moved'.lossy = b /\ moved'.rd = moved.rd /\ moved'.wr = moved.wr
        /\ moved'.erd = moved.erd /\ moved'.ewr = moved.ewr /\ moved'.told = moved.told
    BY <1>0, <1>4 DEF Counts
  <2> QED BY <1>4, <2>1 DEF SameCounts
<1> QED BY <1>1, <1>2, <1>3, <1>4

\* A client that still gets packets, and nothing was lost.
LEMMA ClientListens ==
    ASSUME IInv, OutInv, NEW t \in PacketTypes \ OpenTypes, Receives("client", t), ~moved.lossy
    PROVE  LET c == ch["client"]
           IN  /\ c.type = "open" /\ c.efd = IsSession /\ ClientGood(c) /\ ClientShape(c)
               /\ t \in DataTypes => c.ostate = "open"
<1> DEFINE c == ch["client"]
<1>1. ClientGood(c) /\ ClientShape(c)
  BY DEF OutInv, OutTo
<1>2. /\ c.type \in {"larval", "open", "abandoned"} /\ "CLOSE_RCVD" \notin c.flags
      /\ (t \in DataTypes => "EOF_RCVD" \notin c.flags) /\ c.type # "larval"
  BY Received DEF Peers
<1>3. c.type = "open"
  BY <1>1, <1>2 DEF ClientGood
<1>4. c.efd = IsSession
  BY <1>1, <1>3 DEF ClientGood
<1>5. t \in DataTypes => c.ostate = "open"
  BY <1>1, <1>2 DEF ClientGood
<1> QED BY <1>1, <1>3, <1>4, <1>5

\* The packet at the head of the server's link.
LEMMA HeadBounded ==
    ASSUME IInv, OutInv, NEW t, Receives("client", t)
    PROVE  (t = "DATA" => Msg("client").n <= MaxPacket) /\ (t = "EXT" => IsSession)
<1>1. ch["server"] \in ChannelRecord /\ Other("client") = "server"
  BY Ends
<1>2. ch["server"].out # <<>> /\ Msg("client") = Head(ch["server"].out) /\ Msg("client").t = t
  BY <1>1 DEF Receives, Msg
<1>3. Bounded(ch["server"].out)
  BY DEF OutInv, OutTo, ServerShape
<1>4. ch["server"].out \in Seq(Packet)
  BY <1>1 DEF ChannelRecord
<1>5. 1 \in 1..Len(ch["server"].out) /\ Head(ch["server"].out) = ch["server"].out[1]
  BY <1>2, <1>4
<1> QED BY <1>2, <1>3, <1>5 DEF Bounded

\* channel_input_data buffers what the packet carries.
LEMMA OutClientData ==
    ASSUME IInv, FlowInv, OutInv, InputData("client")
    PROVE  OutInv'
<1> DEFINE c == ch["client"]
           n == Msg("client").n
           d == channel_input_data(c, n)
<1>0. /\ c \in ChannelRecord /\ ch["server"].out # <<>> /\ Receives("client", "DATA") /\ Msg("client").t = "DATA"
      /\ ClientShape(c) /\ "client" \in Peers
  BY Ends DEF InputData, Receives, OutTo
<1>1. "DATA" \in PacketTypes \ OpenTypes /\ "DATA" \in DataPackets /\ "DATA" \in DataTypes
  BY DEF PacketTypes, OpenTypes, DataPackets, DataTypes
<1>2. Live("client") /\ n \in Nat /\ n <= c.lwin /\ n <= MaxPacket
  BY <1>0, <1>1, Received, FlowWithin, WithinWindow, HeadBounded
<1>3. SameCounts
  BY Unmoved DEF InputData
<1>4. \E f : Handled("client", d, f)
  BY <1>2 DEF InputData
<1>5. Weight(Msg("client"), {"DATA"}) = n /\ Weight(Msg("client"), {"EXT"}) = 0
  BY <1>0 DEF Weight
<1> HIDE DEF n
<1>6. d \in ChannelRecord
  BY <1>0, <1>2, FlowData DEF Flows
<1>7. d.extended = c.extended /\ d.extusage = c.extusage
  BY <1>0 DEF channel_input_data, ChannelRecord
<1>8. ASSUME ~moved'.lossy PROVE ClientGood(d) /\ d.output = c.output + n /\ d.extended = c.extended + 0
  <2>1. ~moved.lossy
    BY <1>3, <1>8 DEF SameCounts
  <2>2. c.type = "open" /\ c.ostate = "open" /\ ClientGood(c)
    BY <1>0, <1>1, <2>1, ClientListens
  <2>3. d = [c EXCEPT !.lwin = IF n > @ THEN 0 ELSE @ - n, !.output = @ + n]
    <3>1. ~(n > MaxPacket)
      BY <1>2, SizeAssumption
    <3> QED BY <2>2, <3>1 DEF channel_input_data
  <2> HIDE DEF d
  <2>4. /\ d.output = c.output + n /\ d.ostate = "open" /\ d.type = "open" /\ d.efd = c.efd /\ d.out = c.out
    BY <1>0, <2>2, <2>3 DEF ChannelRecord
  <2>5. c.extended + 0 = c.extended
    BY <1>0 DEF ChannelRecord
  <2> QED BY <1>7, <2>2, <2>4, <2>5 DEF ClientGood
<1> HIDE DEF d
<1>9. ClientFine(c, d, n, 0, moved'.lossy)
  BY <1>0, <1>6, <1>7, <1>8 DEF ClientFine, ClientShape
<1> QED BY <1>0, <1>3, <1>4, <1>5, <1>9, OutClientTakes

\* channel_input_extended_data too: it never has to refuse stderr.
LEMMA OutExtended ==
    ASSUME IInv, FlowInv, OutInv, InputExtendedData
    PROVE  OutInv'
<1> DEFINE c == ch["client"]
           n == Msg("client").n
           d == channel_input_extended_data(c, n)
<1>0. /\ c \in ChannelRecord /\ ch["server"].out # <<>> /\ Receives("client", "EXT") /\ Msg("client").t = "EXT"
      /\ ClientShape(c) /\ "client" \in Peers
  BY Ends DEF InputExtendedData, Receives, OutTo
<1>1. "EXT" \in PacketTypes \ OpenTypes /\ "EXT" \in DataPackets /\ "EXT" \in DataTypes
  BY DEF PacketTypes, OpenTypes, DataPackets, DataTypes
<1>2. Live("client") /\ n \in Nat /\ n <= c.lwin /\ IsSession
  BY <1>0, <1>1, Received, FlowWithin, WithinWindow, HeadBounded
<1>3. SameCounts
  BY Unmoved DEF InputExtendedData
<1>4. \E f : Handled("client", d, f)
  BY <1>2 DEF InputExtendedData
<1>5. Weight(Msg("client"), {"DATA"}) = 0 /\ Weight(Msg("client"), {"EXT"}) = n
  BY <1>0 DEF Weight
<1> HIDE DEF n
<1>6. d \in ChannelRecord
  BY <1>0, <1>2, FlowExtended DEF Flows
<1>7. d.output = c.output /\ d.extusage = c.extusage
  BY <1>0 DEF channel_input_extended_data, ChannelRecord
<1>8. ASSUME ~moved'.lossy PROVE ClientGood(d) /\ d.output = c.output + 0 /\ d.extended = c.extended + n
  <2>1. ~moved.lossy
    BY <1>3, <1>8 DEF SameCounts
  <2>2. c.type = "open" /\ c.ostate = "open" /\ ClientGood(c) /\ c.efd /\ EfdWrite(c)
    <3>1. c.type = "open" /\ c.ostate = "open" /\ ClientGood(c) /\ c.efd = IsSession
      BY <1>0, <1>1, <2>1, ClientListens
    <3> QED BY <1>0, <1>2, <3>1 DEF ClientShape, EfdWrite
  <2>3. d = [c EXCEPT !.extended = @ + n, !.lwin = @ - n]
    <3>1. ~(n > c.lwin)
      BY <1>0, <1>2 DEF ChannelRecord
    <3> QED BY <2>2, <3>1 DEF channel_input_extended_data
  <2> HIDE DEF d
  <2>4. /\ d.extended = c.extended + n /\ d.ostate = "open" /\ d.type = "open" /\ d.efd = c.efd /\ d.out = c.out
    BY <1>0, <2>2, <2>3 DEF ChannelRecord
  <2>5. c.output + 0 = c.output
    BY <1>0 DEF ChannelRecord
  <2> QED BY <1>7, <2>2, <2>4, <2>5 DEF ClientGood
<1> HIDE DEF d
<1>9. ClientFine(c, d, 0, n, moved'.lossy)
  BY <1>0, <1>2, <1>6, <1>7, <1>8 DEF ClientFine, ClientShape
<1> QED BY <1>0, <1>3, <1>4, <1>5, <1>9, OutClientTakes

\* What is told of the window, and EOW to a client.
LEMMA MovesSmall ==
    ASSUME NEW c \in ChannelRecord, NEW n \in Nat
    PROVE  /\ SMoves(c, channel_input_window_adjust(c, n), 0, 0) /\ CMoves(c, channel_input_window_adjust(c, n), 0, 0)
           /\ CMoves(c, chan_rcvd_eow(c), 0, 0)
<1>1. c.input \in Nat /\ c.extended \in Nat /\ c.output \in Nat /\ c.rwin + n \in Nat
  BY DEF ChannelRecord
<1>2. c.input = c.input + 0 /\ c.output = c.output + 0 /\ c.extended = c.extended + 0
  BY <1>1
<1>3. SMoves(c, channel_input_window_adjust(c, n), 0, 0) /\ CMoves(c, channel_input_window_adjust(c, n), 0, 0)
  <2> DEFINE d == channel_input_window_adjust(c, n)
  <2>1. d = [c EXCEPT !.rwin = c.rwin + n]
    BY DEF channel_input_window_adjust
  <2> HIDE DEF d
  <2>2. /\ d \in ChannelRecord /\ d.input = c.input /\ d.extended = c.extended /\ d.extusage = c.extusage
        /\ d.flags = c.flags /\ d.istate = c.istate /\ d.ostate = c.ostate /\ d.efd = c.efd /\ d.type = c.type
        /\ d.output = c.output /\ d.out = c.out
    BY <1>1, <2>1 DEF ChannelRecord
  <2>3. SMoves(c, d, 0, 0) /\ CMoves(c, d, 0, 0)
    BY <1>2, <2>2 DEF SMoves, CMoves, SameData
  <2> QED BY <2>3 DEF d
<1>4. CMoves(c, chan_rcvd_eow(c), 0, 0)
  <2> DEFINE d == chan_rcvd_eow(c)
  <2>1. Still(c, d) /\ Quiescent(c, d)
    BY StillReads, StillQuiet
  <2>2. d.flags = c.flags /\ d.ostate = c.ostate /\ d.efd = c.efd /\ d.type = c.type
    BY DEF chan_rcvd_eow, ChannelRecord
  <2> HIDE DEF d
  <2>3. CMoves(c, d, 0, 0)
    BY <2>1, <2>2, MovesBy
  <2> QED BY <2>3 DEF d
<1> QED BY <1>3, <1>4

\* The packet handlers the client shares with the server.
LEMMA OutClientDispatch ==
    ASSUME IInv, FlowInv, OutInv, Dispatch("client")
    PROVE  OutInv'
<1> DEFINE c == ch["client"]
<1>0. c \in ChannelRecord /\ "client" \in Peers /\ Other("client") = "server" /\ ClientShape(c)
  BY Ends DEF OutTo
<1>1. ASSUME InputIeof("client") \/ InputOclose("client") PROVE OutInv'
  <2>1. PICK t \in {"EOF", "CLOSE"} : Receives("client", t)
    BY <1>1 DEF InputIeof, InputOclose
  <2>2. t \in PacketTypes \ OpenTypes /\ t \notin DataPackets
    BY DEF PacketTypes, OpenTypes, DataPackets
  <2>3. Live("client") /\ ch["server"].out # <<>> /\ Msg("client").t = t
    BY <1>0, <2>1, <2>2, Received DEF Receives
  <2>4. SameCounts
    BY <1>1, Unmoved DEF InputIeof, InputOclose
  <2>5. PICK d \in {chan_rcvd_ieof(c), chan_rcvd_oclose(c)} : Handled("client", d, "none")
    BY <1>1, <2>3 DEF InputIeof, InputOclose, ForChannel, Outcome
  <2>6. Still(c, d) /\ d \in ChannelRecord
    BY <1>0, StillIeof, StillOclose, StillRecord
  <2>7. d.output = c.output + 0 /\ d.extended = c.extended + 0 /\ d.extusage = c.extusage /\ d.extended = c.extended
    <3>1. d.output = c.output /\ d.extended = c.extended /\ d.extusage = c.extusage /\ c.output \in Nat /\ c.extended \in Nat
      BY <1>0, <2>6 DEF Still, Quiescent, ChannelRecord
    <3> QED BY <3>1
  <2>8. ASSUME ~moved'.lossy PROVE ClientGood(d)
    <3>1. ~moved.lossy
      BY <2>4, <2>8 DEF SameCounts
    <3>2. c.type = "open" /\ ClientGood(c)
      BY <2>1, <2>2, <3>1, ClientListens
    <3> QED BY <1>0, <2>5, <3>2, GoodIeof, GoodOclose
  <2>9. ClientFine(c, d, 0, 0, moved'.lossy)
    BY <1>0, <2>6, <2>7, <2>8 DEF ClientFine, ClientShape
  <2>10. Weight(Msg("client"), {"DATA"}) = 0 /\ Weight(Msg("client"), {"EXT"}) = 0
    BY <2>2, <2>3, NoWeight
  <2> QED BY <2>3, <2>4, <2>5, <2>9, <2>10, OutClientTakes
<1>2. ASSUME InputWindowAdjust("client") \/ InputEow("client") PROVE OutInv'
  <2>1. PICK t \in {"ADJUST", "EOW"} : Receives("client", t)
    BY <1>2 DEF InputWindowAdjust, InputEow
  <2>2. t \in PacketTypes \ OpenTypes /\ t \notin DataPackets
    BY DEF PacketTypes, OpenTypes, DataPackets
  <2>3. Live("client") /\ ch["server"].out # <<>> /\ Msg("client").t = t /\ Msg("client").n \in Nat
    BY <1>0, <2>1, <2>2, Received DEF Receives
  <2>4. SameCounts
    BY <1>2, Unmoved DEF InputWindowAdjust, InputEow
  <2>5. PICK d \in {channel_input_window_adjust(c, Msg("client").n), chan_rcvd_eow(c)} : Handled("client", d, "none")
    BY <1>2, <2>3 DEF InputWindowAdjust, InputEow, IfChannel
  <2>6. CMoves(c, d, 0, 0)
    BY <1>0, <2>3, MovesSmall
  <2> QED BY <1>0, <2>2, <2>3, <2>4, <2>5, <2>6, OutQuietTake
<1> QED BY <1>1, <1>2, OutClientData DEF Dispatch

\* The client sends CLOSE only once it has heard the last of the output, so
\* that the server has nothing left when it is told to stop.
LEMMA ServerDone ==
    ASSUME IInv, OutInv, Receives("server", "CLOSE"), ~moved.lossy
    PROVE  ch["server"].istate = "closed"
<1> DEFINE c == ch["client"]
           s == ch["server"]
<1>0. c \in ChannelRecord /\ s \in ChannelRecord /\ Other("server") = "client" /\ "client" \in Peers /\ "server" \in Peers
      /\ Other("client") = "server"
  BY Ends
<1>1. LinkOK(c, s) /\ LinkOK(s, c) /\ Sane(c) /\ Sane(s)
  BY <1>0 DEF IInv
<1>2. c.out \in Seq(Packet) /\ c.out # <<>> /\ Head(c.out).t = "CLOSE"
  BY <1>0 DEF Receives, Msg, ChannelRecord
<1>3. 1 \in 1..Len(c.out) /\ c.out[1].t = "CLOSE"
  BY <1>2
<1>4. "CLOSE_SENT" \in c.flags
  BY <1>1, <1>3 DEF LinkOK
<1>5. c.ostate = "closed"
  BY <1>1, <1>4 DEF Sane
<1>6. "EOF_RCVD" \in c.flags \/ "CLOSE_RCVD" \in c.flags
  BY <1>5 DEF OutInv, OutTo, ClientGood
<1>7. "EOF_SENT" \in s.flags \/ "CLOSE_SENT" \in s.flags
  BY <1>1, <1>6 DEF LinkOK
<1> QED BY <1>1, <1>7 DEF Sane

\* The same at the server: EOF, CLOSE and EOW from the client drop no output.
LEMMA OutServerDispatch ==
    ASSUME IInv, FlowInv, OutInv, Dispatch("server")
    PROVE  OutInv'
<1> DEFINE s == ch["server"]
<1>0. /\ s \in ChannelRecord /\ "server" \in Peers /\ Other("server") = "client" /\ ch["client"] \in ChannelRecord
  BY Ends
<1>1. ASSUME InputData("server") PROVE OutInv'
  <2>1. Receives("server", "DATA") /\ "DATA" \in PacketTypes \ OpenTypes /\ "DATA" \in DataPackets
    BY <1>1 DEF InputData, PacketTypes, OpenTypes, DataPackets
  <2>2. Live("server") /\ Msg("server").n \in Nat /\ Msg("server").n <= s.lwin /\ ch["client"].out # <<>>
    BY <1>0, <2>1, Received, FlowWithin, WithinWindow DEF Receives
  <2> DEFINE n == Msg("server").n
             d == channel_input_data(s, n)
  <2>3. \E f : Handled("server", d, f)
    BY <1>1, <2>2 DEF InputData
  <2>4. SameCounts
    BY <1>1, Unmoved DEF InputData
  <2> HIDE DEF n
  <2>5. d \in ChannelRecord
    BY <1>0, <2>2, FlowData DEF Flows, n
  <2>6. /\ d.input = s.input /\ d.extended = s.extended /\ d.extusage = s.extusage /\ d.flags = s.flags
        /\ d.istate = s.istate /\ d.out = s.out
    BY <1>0 DEF channel_input_data, ChannelRecord
  <2> HIDE DEF d
  <2>7. s.input + 0 = s.input /\ s.extended + 0 = s.extended
    BY <1>0 DEF ChannelRecord
  <2>8. SMoves(s, d, 0, 0)
    BY <2>5, <2>6, <2>7 DEF SMoves, SameData
  <2> QED BY <1>0, <2>2, <2>3, <2>4, <2>8, OutQuietTake
<1>2. ASSUME InputIeof("server") \/ InputWindowAdjust("server") PROVE OutInv'
  <2>1. PICK t \in {"EOF", "ADJUST"} : Receives("server", t)
    BY <1>2 DEF InputIeof, InputWindowAdjust
  <2>2. t \in PacketTypes \ OpenTypes
    BY DEF PacketTypes, OpenTypes
  <2>3. Live("server") /\ ch["client"].out # <<>> /\ Msg("server").n \in Nat
    BY <1>0, <2>1, <2>2, Received DEF Receives
  <2>4. SameCounts
    BY <1>2, Unmoved DEF InputIeof, InputWindowAdjust
  <2>5. PICK d \in {chan_rcvd_ieof(s), channel_input_window_adjust(s, Msg("server").n)} : Handled("server", d, "none")
    BY <1>2, <2>3 DEF InputIeof, InputWindowAdjust, IfChannel, ForChannel, Outcome
  <2>6. SMoves(s, chan_rcvd_ieof(s), 0, 0)
    <3> DEFINE e == chan_rcvd_ieof(s)
               u == Draining(Flagged(s, "EOF_RCVD"))
    <3>1. Still(s, e) /\ Quiescent(s, e)
      BY <1>0, StillIeof, StillQuiet
    <3>2. u = [s EXCEPT !.flags = @ \cup {"EOF_RCVD"}, !.ostate = IF @ = "open" THEN "drain" ELSE @]
      BY <1>0 DEF Draining, Flagged, ChannelRecord
    <3>3. e \in {u, chan_obuf_empty(u)}
      BY <3>2 DEF chan_rcvd_ieof
    <3>4. s.flags \subseteq u.flags /\ u.istate = s.istate /\ u \in ChannelRecord
      <4>1. u \in ChannelRecord /\ u.istate = s.istate
        BY <1>0, GoodDraining
      <4>2. s.flags \subseteq u.flags
        BY <1>0 DEF Draining, Flagged, ChannelRecord
      <4> QED BY <4>1, <4>2
    <3> HIDE DEF u
    <3>5. s.flags \subseteq e.flags /\ e.istate = s.istate
      <4>1. chan_obuf_empty(u).flags = u.flags /\ chan_obuf_empty(u).istate = u.istate
        BY <3>4 DEF chan_obuf_empty, ChannelRecord
      <4> HIDE DEF e
      <4> QED BY <3>3, <3>4, <4>1
    <3> HIDE DEF e
    <3>6. SMoves(s, e, 0, 0)
      BY <1>0, <3>1, <3>5, MovesBy DEF Still
    <3> QED BY <3>6 DEF e
  <2>7. SMoves(s, d, 0, 0)
    BY <1>0, <2>3, <2>5, <2>6, MovesSmall
  <2> QED BY <1>0, <2>3, <2>4, <2>5, <2>7, OutQuietTake
<1>3. ASSUME InputOclose("server") \/ InputEow("server") PROVE OutInv'
  <2>1. PICK t \in {"CLOSE", "EOW"} : Receives("server", t) /\ (t = "CLOSE" => InputOclose("server")) /\ (t = "EOW" => InputEow("server"))
    BY <1>3 DEF InputOclose, InputEow
  <2>2. t \in PacketTypes \ OpenTypes
    BY DEF PacketTypes, OpenTypes
  <2>3. Live("server") /\ ch["client"].out # <<>> /\ Msg("server").t = t /\ Msg("server") = Head(ch["client"].out)
    BY <1>0, <2>1, <2>2, Received DEF Receives, Msg
  <2>4. SameCounts /\ moved' = moved
    BY <1>3, Unmoved DEF InputOclose, InputEow
  <2>5. PICK d \in {chan_rcvd_oclose(s), chan_rcvd_eow(s)} : Handled("server", d, "none") /\ (t = "CLOSE" => d = chan_rcvd_oclose(s))
    BY <2>1, <2>3 DEF InputOclose, InputEow, ForChannel, Outcome
  <2>6. Still(s, d) /\ Quiescent(s, d)
    BY <1>0, StillOclose, StillReads, StillQuiet
  <2>7. CASE moved.lossy
    BY <1>0, <2>3, <2>4, <2>5, <2>6, <2>7, OutLossyTake
  <2>8. CASE ~moved.lossy
    <3>1. t = "CLOSE"
      <4>1. NoEow(ch["client"].out)
        BY <2>8 DEF OutInv, OutTo, ClientGood
      <4>2. ch["client"].out \in Seq(Packet)
        BY <1>0 DEF ChannelRecord
      <4>3. 1 \in 1..Len(ch["client"].out) /\ Head(ch["client"].out) = ch["client"].out[1]
        BY <2>3, <4>2
      <4> QED BY <2>3, <4>1, <4>3 DEF NoEow
    <3>2. s.istate = "closed"
      BY <2>1, <2>8, <3>1, ServerDone
    <3>3. s.flags \subseteq d.flags
      <4>1. d = chan_rcvd_oclose(s)
        BY <2>5, <3>1
      <4>2. chan_rcvd_oclose(s) \in {Draining(Flagged(s, "CLOSE_RCVD")), [Flagged(s, "CLOSE_RCVD") EXCEPT !.ostate = "closed", !.istate = "closed"]}
        BY <1>0, <3>2 DEF chan_rcvd_oclose, Draining, Flagged, ChannelRecord
      <4>3. s.flags \subseteq Draining(Flagged(s, "CLOSE_RCVD")).flags
            /\ s.flags \subseteq [Flagged(s, "CLOSE_RCVD") EXCEPT !.ostate = "closed", !.istate = "closed"].flags
        BY <1>0 DEF Draining, Flagged, ChannelRecord
      <4> HIDE DEF s
      <4> QED BY <4>1, <4>2, <4>3
    <3>4. SMoves(s, d, 0, 0)
      BY <1>0, <2>6, <3>2, <3>3, MovesBy DEF Still
    <3> QED BY <1>0, <2>3, <2>4, <2>5, <3>4, OutQuietTake
  <2> QED BY <2>7, <2>8
<1> QED BY <1>1, <1>2, <1>3 DEF Dispatch

\* The text about a refused request comes to the client's stderr.
LEMMA OutTold ==
    ASSUME IInv, OutInv, NEW t, NEW text \in Nat, NEW b \in BOOLEAN, NEW f,
           Handled("client", client_status_confirm(ch["client"], t, text), f),
           ch["server"].out # <<>>, Msg("client").t \notin DataPackets,
           moved' = [moved EXCEPT !.lossy = b, !.told = moved.told + text],
           moved.lossy => b, text # 0 => EfdWrite(ch["client"]),
           t = "FAILURE" \/ ch["client"].ostate = "closed" => b
    PROVE  OutInv'
<1> DEFINE c == ch["client"]
           s == ch["server"]
           m == moved
           n == moved'
           d == client_status_confirm(c, t, text)
           e == [c EXCEPT !.extended = c.extended + text]
           o == 0
<1>0. /\ c \in ChannelRecord /\ s \in ChannelRecord /\ m \in Counts /\ OutTo(c, s, m) /\ "client" \in Peers
      /\ Other("client") = "server" /\ Msg("client") = Head(s.out) /\ ClientShape(c) /\ (~m.lossy => ClientGood(c))
  BY Ends DEF OutTo, Msg
<1>1. /\ n \in Counts /\ n.lossy = b /\ n.rd = m.rd /\ n.wr = m.wr /\ n.erd = m.erd /\ n.ewr = m.ewr /\ n.told = m.told + text
  <2>1. m.told + text \in Nat
    BY <1>0 DEF Counts
  <2> QED BY <1>0, <2>1 DEF Counts
<1>2. /\ n.rd["server"] = m.rd["server"] + o /\ n.wr["client"] = m.wr["client"] + o
      /\ n.erd + n.told = (m.erd + m.told) + text /\ n.ewr = m.ewr + o
  <2>1. m.rd["server"] \in Nat /\ m.wr["client"] \in Nat /\ m.erd \in Nat /\ m.told \in Nat /\ m.ewr \in Nat
    BY <1>0 DEF Counts, Peers
  <2> QED BY <1>1, <2>1
<1>3. ch'["client"] = d /\ ch'["server"] = [s EXCEPT !.out = Tail(@)]
  BY <1>0, HandledCh
<1>4. ServerFine(s, ch'["server"], o, o, n.lossy)
  <2>1. Weight(Head(s.out), {"DATA"}) = 0 /\ Weight(Head(s.out), {"EXT"}) = 0 /\ 0 - 0 = 0
    BY <1>0, NoWeight
  <2>2. ServerFine(s, ch'["server"], 0, 0, m.lossy)
    BY <1>0, <1>3, <2>1, FinePopped
  <2> QED BY <1>1, <2>2, FineMono
<1>5. e \in ChannelRecord /\ Quiescent(e, d)
  BY <1>0, QuietStatus
<1>6. /\ e.output = c.output /\ e.extended = c.extended + text /\ e.extusage = c.extusage /\ e.flags = c.flags
      /\ e.ostate = c.ostate /\ e.efd = c.efd /\ e.type = c.type /\ e.out = c.out
  BY <1>0 DEF ChannelRecord
<1>7. t # "FAILURE" => d = e
  BY DEF client_status_confirm
<1> HIDE DEF d, e, m, n
<1>8. ClientShape(e)
  <2>1. ASSUME ~IsSession PROVE e.extended = 0
    <3>1. c.extended = 0 /\ text = 0
      BY <1>0, <2>1 DEF ClientShape, EfdWrite
    <3> QED BY <1>6, <3>1
  <2> QED BY <1>0, <1>6, <2>1 DEF ClientShape
<1>9. ClientFine(c, d, o, text, n.lossy)
  <2>1. d \in ChannelRecord /\ ClientShape(d)
    BY <1>5, <1>8 DEF Quiescent, ClientShape
  <2>2. ASSUME ~n.lossy PROVE ClientGood(d) /\ d.output = c.output + o /\ d.extended = c.extended + text
    <3>1. d = e /\ c.ostate # "closed" /\ ClientGood(c)
      BY <1>0, <1>1, <1>7, <2>2 DEF m
    <3>2. c.output + 0 = c.output
      BY <1>0 DEF ChannelRecord
    <3> QED BY <1>6, <3>1, <3>2 DEF ClientGood
  <2> QED BY <2>1, <2>2 DEF ClientFine
<1>10. o \in Int /\ text \in Int /\ o = o + o + o /\ text = o + text + o /\ (m.lossy => n.lossy)
  BY <1>1 DEF m
<1> HIDE DEF o, c, s
<1>11. OutTo(d, ch'["server"], n)
  <2>1. n \in Counts /\ c \in ChannelRecord /\ s \in ChannelRecord /\ m \in Counts /\ OutTo(c, s, m)
    BY <1>0, <1>1 DEF c, s, m, n
  <2> DEFINE g == ch'["server"]
  <2>2. ClientFine(c, d, 0, text, n.lossy) /\ ServerFine(s, g, 0, 0, n.lossy) /\ (m.lossy => n.lossy)
    BY <1>4, <1>9, <1>10 DEF o
  <2>3. /\ n.rd["server"] = m.rd["server"] + 0 /\ n.wr["client"] = m.wr["client"] + 0
        /\ n.erd + n.told = (m.erd + m.told) + text /\ n.ewr = m.ewr + 0
    BY <1>2 DEF o
  <2> HIDE DEF g
  <2>4. d \in ChannelRecord /\ g \in ChannelRecord /\ ClientShape(d) /\ ServerShape(g)
    BY <2>2 DEF ClientFine, ServerFine
  <2>5. ASSUME ~n.lossy PROVE ClientGood(d) /\ ServerGood(g) /\ Books(d, g, n)
    <3>1. Books(c, s, m)
      BY <2>1, <2>2, <2>5 DEF OutTo
    <3>2. /\ ClientGood(d) /\ d.output = c.output + 0 /\ d.extended = c.extended + text
          /\ ServerGood(g) /\ Stdout(g) = Stdout(s) + 0 /\ Stderr(g) = Stderr(s) + 0
      BY <2>2, <2>5 DEF ClientFine, ServerFine
    <3>3. /\ m.rd["server"] \in Nat /\ m.wr["client"] \in Nat /\ m.ewr \in Nat /\ m.erd + m.told \in Nat
      BY <2>1 DEF Counts, Peers
    <3>4. /\ Stdout(s) \in Nat /\ Stderr(s) \in Nat /\ c.output \in Nat /\ c.extended \in Nat
      BY <2>1, Amounts
    <3>5. n.rd["server"] = n.wr["client"] + d.output + Stdout(g)
      BY <2>3, <3>1, <3>2, <3>3, <3>4 DEF Books
    <3>6. n.erd + n.told = n.ewr + d.extended + Stderr(g)
      BY ONLY <2>3, <3>1, <3>2, <3>3, <3>4, text \in Nat DEF Books
    <3> QED BY <3>2, <3>5, <3>6 DEF Books
  <2>6. OutTo(d, g, n)
    BY <2>4, <2>5 DEF OutTo
  <2> QED BY <2>6 DEF g
<1> QED BY <1>3, <1>11 DEF OutInv, n, d, c

\* Replies, the exit status and the answers to the open request.
LEMMA OutClientReplies ==
    ASSUME IInv, FlowInv, OutInv, InputStatusConfirm \/ InputExitStatus
    PROVE  OutInv'
<1> DEFINE c == ch["client"]
<1>0. /\ c \in ChannelRecord /\ "client" \in Peers /\ Other("client") = "server" /\ moved \in Counts
      /\ CMoves(c, c, 0, 0)
  BY Ends, MovesRefl
<1>1. ASSUME InputStatusConfirm PROVE OutInv'
  <2>1. PICK t \in {"SUCCESS", "REFUSED", "FAILURE"}, text \in {0, ErrorText}, f \in {"exit", "none"}, b \in BOOLEAN :
          \E d \in {c, client_status_confirm(c, t, text)}, k \in {moved.told, moved.told + text} :
            Answering(t, text, f, d, b, k)
    BY <1>1, Confirmed
  <2>2. PICK d \in {c, client_status_confirm(c, t, text)}, k \in {moved.told, moved.told + text} :
          Answering(t, text, f, d, b, k)
    BY <2>1
  <2>3. /\ Receives("client", t) /\ Handled("client", d, f) /\ moved' = [moved EXCEPT !.lossy = b, !.told = k]
        /\ (moved.lossy => b) /\ (text # 0 => EfdWrite(c))
        /\ \/ d = c /\ k = moved.told
           \/ /\ d = client_status_confirm(c, t, text) /\ k = moved.told + text
              /\ t = "FAILURE" \/ c.ostate = "closed" => b
    BY <2>2 DEF Answering
  <2>4. ch["server"].out # <<>> /\ Msg("client").t \notin DataPackets /\ text \in Nat
    BY <1>0, <2>3, SizeAssumption DEF Receives, DataPackets
  <2>5. CASE d = c /\ k = moved.told
    <3>1. SameCounts
      BY <2>3, <2>5, Unmoved
    <3> QED BY <1>0, <2>3, <2>4, <2>5, <3>1, OutQuietTake
  <2>6. CASE /\ d = client_status_confirm(c, t, text) /\ k = moved.told + text
             /\ t = "FAILURE" \/ c.ostate = "closed" => b
    BY <2>3, <2>4, <2>6, OutTold
  <2> QED BY <2>3, <2>5, <2>6
<1>2. ASSUME InputExitStatus PROVE OutInv'
  <2>1. Receives("client", "EXIT") /\ Handled("client", c, "none") /\ moved' = [moved EXCEPT !.exit = @ \/ Live("client")]
    BY <1>2 DEF InputExitStatus, IfChannel
  <2>2. ch["server"].out # <<>> /\ Msg("client").t \notin DataPackets
    BY <1>0, <2>1 DEF Receives, DataPackets
  <2>3. SameCounts
    <3> DEFINE b == moved.exit \/ Live("client")
    <3>1. b \in BOOLEAN /\ moved' = [moved EXCEPT !.exit = b]
      BY <1>0, <2>1 DEF Counts, Live
    <3> HIDE DEF b
    <3> QED BY <3>1, Unmoved
  <2> QED BY <1>0, <2>1, <2>2, <2>3, OutQuietTake
<1> QED BY <1>1, <1>2

\* The confirmation or the refusal of the open.
LEMMA OutAnswers ==
    ASSUME IInv, FlowInv, OutInv, InputOpenConfirmation \/ InputOpenFailure
    PROVE  OutInv'
<1> DEFINE c == ch["client"]
           n == Msg("client").n
           k == [c EXCEPT !.rwin = n, !.type = "open"]
           d == channel_input_open_confirmation(c, n)
           z == channel_input_open_failure(c)
<1>0. /\ c \in ChannelRecord /\ "client" \in Peers /\ Other("client") = "server" /\ ClientShape(c) /\ Sane(c)
      /\ (~moved.lossy => ClientGood(c))
  BY Ends DEF OutTo, IInv
<1>1. PICK t \in {"CONFIRM", "OPENFAIL"} : Receives("client", t)
  BY DEF InputOpenConfirmation, InputOpenFailure
<1>2. ch["server"].out # <<>> /\ Msg("client").t = t /\ t \notin DataPackets /\ c.type = "opening"
  BY <1>0, <1>1, OpenDue DEF Receives, DataPackets, Confirming
<1>3. n \in Nat
  <2>1. ch["server"].out \in Seq(Packet) /\ Msg("client") = Head(ch["server"].out)
    BY <1>0, Ends DEF Msg, ChannelRecord
  <2>2. Msg("client") \in Packet
    BY <1>2, <2>1
  <2> QED BY <2>2 DEF Packet
<1>4. PICK e \in {d, z} : \E f : Handled("client", e, f)
  BY DEF InputOpenConfirmation, InputOpenFailure
<1>5. SameCounts
  BY Unmoved DEF InputOpenConfirmation, InputOpenFailure
<1>6. c.ostate = "open" /\ (~moved.lossy => c.efd = IsSession)
  BY <1>0, <1>2 DEF Sane, ClientGood
<1> HIDE DEF n
<1>7. /\ k \in ChannelRecord /\ k.output = c.output /\ k.extended = c.extended /\ k.extusage = c.extusage
      /\ k.ostate = "open" /\ k.efd = c.efd /\ k.type = "open" /\ k.out = c.out
  BY <1>0, <1>3, <1>6 DEF ChannelRecord, Types
<1>8. /\ z \in ChannelRecord /\ z.output = c.output /\ z.extended = c.extended /\ z.extusage = c.extusage
      /\ z.ostate = "open" /\ z.type = "zombie" /\ z.out = c.out
  BY <1>0, <1>6 DEF channel_input_open_failure, ChannelRecord, Types
<1> DEFINE x == IF DetachClose THEN Send(k, "X11REQ", 0) ELSE k
<1>9. d = IF IsSession THEN Send(x, "EXEC", 0) ELSE k
  BY DEF channel_input_open_confirmation
<1> HIDE DEF k, z, d
<1>10. /\ d \in ChannelRecord /\ d.output = c.output /\ d.extended = c.extended /\ d.extusage = c.extusage
       /\ d.ostate = "open" /\ d.efd = c.efd /\ d.type = "open" /\ (NoEow(c.out) => NoEow(d.out))
  <2>1. Still(k, x) /\ x \in ChannelRecord
    BY <1>7, SmallUpdates, StillRefl, Constants, StillRecord
  <2>2. x.ostate = k.ostate /\ x.efd = k.efd /\ x.type = k.type
    BY <1>7 DEF Send, ChannelRecord
  <2> HIDE DEF x
  <2>3. Still(x, Send(x, "EXEC", 0)) /\ Send(x, "EXEC", 0) \in ChannelRecord
    BY <2>1, SmallUpdates, Constants, StillRecord
  <2>4. Still(k, d) /\ d \in ChannelRecord
    BY <1>7, <1>9, <2>1, <2>3, StillRefl, StillTrans
  <2>5. d.ostate = k.ostate /\ d.efd = k.efd /\ d.type = k.type
    BY <1>7, <1>9, <2>1, <2>2 DEF Send, ChannelRecord
  <2> QED BY <1>7, <2>4, <2>5 DEF Still, Quiescent
<1>11. c.output + 0 = c.output /\ c.extended + 0 = c.extended
  BY <1>0 DEF ChannelRecord
<1>12. ClientFine(c, d, 0, 0, moved.lossy)
  BY <1>0, <1>6, <1>10, <1>11 DEF ClientFine, ClientShape, ClientGood
<1>13. ClientFine(c, z, 0, 0, moved.lossy)
  BY <1>0, <1>8, <1>11 DEF ClientFine, ClientShape, ClientGood
<1>14. ClientFine(c, e, 0, 0, moved'.lossy)
  <2>1. ClientFine(c, e, 0, 0, moved.lossy) /\ (moved.lossy => moved'.lossy)
    BY <1>4, <1>5, <1>12, <1>13 DEF SameCounts
  <2> QED BY <2>1, FineMono
<1>15. Weight(Msg("client"), {"DATA"}) = 0 /\ Weight(Msg("client"), {"EXT"}) = 0
  BY <1>2, NoWeight
<1> QED BY <1>2, <1>4, <1>5, <1>14, <1>15, OutClientTakes

\* The server's new channel.
LEMMA OutServerOpen ==
    ASSUME IInv, FlowInv, OutInv, ServerInputChannelOpen
    PROVE  OutInv'
<1> DEFINE s == ch["server"]
           n == Msg("server").n
           lar == LarvalChannel(n)
           con == DialingChannel(n)
           ans == Send(lar, "CONFIRM", 0)
<1>0. /\ "server" \in Peers /\ Other("server") = "client" /\ s \in ChannelRecord
      /\ SameCounts
  BY Ends, Unmoved DEF ServerInputChannelOpen
<1>1. Asked(ch["client"], s) /\ n \in Nat /\ ch["client"].out # <<>>
  BY ServerOpens
<1>2. PICK d \in {Send(s, "OPENFAIL", 0), ans, con} : Handled("server", d, "none")
  BY ServerOpens
<1>3. s.out = <<>> /\ s.input = 0 /\ s.extended = 0
  <2>1. Blank(s) /\ s.type = "none" /\ s.out = <<>>
    BY <1>0, <1>1 DEF FlowInv, FlowIn, Asked
  <2> QED BY <2>1 DEF Blank, Unused, FreshTypes
<1>4. Stdout(s) = 0 /\ Stderr(s) = 0
  BY <1>3, CarriedEmpty DEF Stdout, Stderr
<1> HIDE DEF n
<1>5. ASSUME NEW e \in ChannelRecord, e.extusage = "ignore", e.extended = 0, e.input = 0, e.istate = "open", Bounded(e.out),
             \A T \in {{"DATA"}, {"EXT"}} : Carried(e.out, T) = 0
      PROVE  ServerFine(s, e, 0, 0, moved'.lossy)
  <2>1. Stdout(e) = 0 /\ Stderr(e) = 0
    BY <1>5 DEF Stdout, Stderr
  <2>2. ServerShape(e) /\ ServerGood(e)
    BY <1>5 DEF ServerShape, ServerGood
  <2> QED BY <1>4, <1>5, <2>1, <2>2 DEF ServerFine
<1>6. Bounded(<<>>)
  BY DEF Bounded
<1>7. CASE d = Send(s, "OPENFAIL", 0)
  <2>1. Still(s, d) /\ Quiescent(s, d)
    BY <1>0, <1>7, SmallUpdates, Constants, StillQuiet
  <2>2. d.flags = s.flags /\ d.istate = s.istate
    BY <1>0, <1>7 DEF Send, ChannelRecord
  <2>3. SMoves(s, d, 0, 0)
    BY <1>0, <2>1, <2>2, MovesBy DEF Still
  <2> QED BY <1>0, <1>1, <1>2, <2>3, OutQuietTake
<1>8. ServerFine(s, con, 0, 0, moved'.lossy)
  <2>1. /\ con \in ChannelRecord /\ con.out = <<>> /\ con.input = 0 /\ con.extended = 0 /\ con.extusage = "ignore" /\ con.istate = "open"
    BY <1>1, NewCounters
  <2> HIDE DEF con
  <2> QED BY <1>5, <1>6, <2>1, CarriedEmpty
<1>9. ServerFine(s, ans, 0, 0, moved'.lossy)
  <2>1. /\ lar \in ChannelRecord /\ lar.out = <<>> /\ lar.input = 0 /\ lar.extended = 0 /\ lar.extusage = "ignore" /\ lar.istate = "open"
    BY <1>1, NewCounters
  <2> HIDE DEF lar
  <2>2. /\ ans \in ChannelRecord /\ ans = [lar EXCEPT !.out = Append(lar.out, Pkt("CONFIRM", 0))]
        /\ \A T : Carried(Append(lar.out, Pkt("CONFIRM", 0)), T) = 0
    BY <2>1, Confirms
  <2> HIDE DEF ans
  <2>3. /\ ans.out = Append(lar.out, Pkt("CONFIRM", 0)) /\ ans.input = 0 /\ ans.extended = 0 /\ ans.extusage = "ignore" /\ ans.istate = "open"
    BY <2>1, <2>2 DEF ChannelRecord
  <2>4. Bounded(ans.out)
    <3>1. lar.out \in Seq(Packet) /\ Pkt("CONFIRM", 0) \in Packet /\ Pkt("CONFIRM", 0).t = "CONFIRM"
      BY <2>1 DEF ChannelRecord, Pkt, Packet, PacketTypes
    <3> QED BY <1>6, <2>1, <2>3, <3>1, SendBounded
  <2> QED BY <1>5, <2>2, <2>3, <2>4
<1> HIDE DEF ans, con
<1>10. CASE d \in {ans, con}
  BY <1>1, <1>0, <1>2, <1>8, <1>9, <1>10, OutServerTakes
<1> QED BY <1>2, <1>7, <1>10

\* A reply moves no output.
LEMMA MovesReplied ==
    ASSUME NEW e \in ChannelRecord, NEW t \in {"SUCCESS", "REFUSED", "FAILURE"}
    PROVE  SMoves(e, Replied(e, t), 0, 0)
<1> DEFINE d == Replied(e, t)
<1>1. Still(e, d) /\ Quiescent(e, d)
  BY StillReplied, StillQuiet
<1>2. d.flags = e.flags /\ d.istate = e.istate
  BY DEF Replied, Send, ChannelRecord
<1> HIDE DEF d
<1>3. SMoves(e, d, 0, 0)
  BY <1>1, <1>2, MovesBy DEF Still
<1> QED BY <1>3 DEF d

\* Nor does the request for X11 forwarding.
LEMMA OutX11 ==
    ASSUME IInv, OutInv, SessionX11Req
    PROVE  OutInv'
<1>0. /\ "server" \in Peers /\ Other("server") = "client" /\ ch["server"] \in ChannelRecord
      /\ SameCounts /\ ch["client"].out # <<>>
  BY Ends, Unmoved, Forwards DEF SessionX11Req
<1>1. PICK t \in {"SUCCESS", "REFUSED"} : Handled("server", Replied(ch["server"], t), "none")
  BY Forwards
<1>2. SMoves(ch["server"], Replied(ch["server"], t), 0, 0)
  BY <1>0, MovesReplied
<1> QED BY <1>0, <1>1, <1>2, OutQuietTake

\* The command is started, and with it its stderr.
LEMMA OutExec ==
    ASSUME IInv, FlowInv, OutInv, SessionInputChannelReq
    PROVE  OutInv'
<1> DEFINE s == ch["server"]
           o == Running(s)
<1>0. /\ "server" \in Peers /\ Other("server") = "client" /\ s \in ChannelRecord
      /\ SameCounts /\ ch["client"].out # <<>> /\ ServerShape(s) /\ (~moved.lossy => ServerGood(s))
  BY Ends, Unmoved, Execs DEF SessionInputChannelReq, OutTo
<1>1. ASSUME NEW e \in ChannelRecord, NEW t \in {"SUCCESS", "REFUSED", "FAILURE"} PROVE SMoves(e, Replied(e, t), 0, 0)
  BY MovesReplied
<1>2. CASE Handled("server", Replied(s, "FAILURE"), "none")
  BY <1>0, <1>1, <1>2, OutQuietTake
<1>3. CASE s.type = "larval" /\ Handled("server", Replied(o, "SUCCESS"), "none")
  <2>1. /\ o \in ChannelRecord /\ o.extended = s.extended /\ o.input = s.input /\ o.istate = s.istate /\ o.flags = s.flags
        /\ o.extusage = (IF Kind = "session" THEN "read" ELSE "ignore")
        /\ o.out = Append(s.out, Pkt("ADJUST", WindowMax))
    BY <1>0, RunningRecord
  <2> HIDE DEF o
  <2>2. s.input = 0 /\ s.extended = 0
    <3>1. Blank(s)
      BY <1>0, FlowWithin
    <3> QED BY <1>3, <3>1 DEF Blank, Unused, FreshTypes
  <2>3. WindowMax \in Nat /\ "ADJUST" \in PacketTypes
    BY SizeAssumption DEF PacketTypes
  <2>4. \A T \in {{"DATA"}, {"EXT"}} : Carried(o.out, T) = Carried(s.out, T)
    <3>1. \A T : Carried(o.out, T) = Carried(s.out, T) + (IF "ADJUST" \in T THEN WindowMax ELSE 0)
      BY <1>0, <2>1, <2>3, SendSums
    <3>2. \A T : Carried(s.out, T) \in Nat
      BY <1>0, CarriedNat DEF ChannelRecord
    <3>3. \A T \in {{"DATA"}, {"EXT"}} : "ADJUST" \notin T
      OBVIOUS
    <3> QED BY <3>1, <3>2, <3>3
  <2>5. Bounded(o.out)
    <3>1. s.out \in Seq(Packet) /\ Pkt("ADJUST", WindowMax) \in Packet /\ Pkt("ADJUST", WindowMax).t = "ADJUST" /\ Bounded(s.out)
      BY <1>0, <2>3 DEF ChannelRecord, Pkt, Packet, ServerShape
    <3> QED BY <2>1, <3>1, SendBounded
  <2>6. ServerShape(o) /\ (ServerGood(s) => ServerGood(o))
    BY <1>0, <2>1, <2>2, <2>5 DEF ServerShape, ServerGood, IsSession
  <2>7. Stdout(o) = Stdout(s) /\ Stderr(o) = Stderr(s)
    BY <2>1, <2>4 DEF Stdout, Stderr
  <2> DEFINE e == Replied(o, "SUCCESS")
  <2>8. SMoves(o, e, 0, 0)
    BY <1>1, <2>1
  <2> HIDE DEF e
  <2>9. ServerShape(e) /\ Stdout(e) = Stdout(o) + 0 /\ Stderr(e) = Stderr(o) + 0 /\ (ServerGood(o) => ServerGood(e)) /\ e \in ChannelRecord
    <3>1. e \in ChannelRecord
      BY <2>8 DEF SMoves
    <3> QED BY <2>1, <2>6, <2>8, <3>1, ServerMoves
  <2>10. ServerFine(s, e, 0, 0, moved'.lossy)
    <3>1. ~moved'.lossy => ServerGood(s)
      BY <1>0 DEF SameCounts
    <3> QED BY <2>6, <2>7, <2>9, <3>1 DEF ServerFine
  <2> QED BY <1>0, <1>3, <2>10, OutServerTakes DEF e
<1> QED BY <1>2, <1>3, Execs

----------------------------------------------------------------------------
(* The handlers of the loop keep the output.                               *)

\* The handlers of channels that are not open, and those that lose output.
LEMMA OutLocal ==
    ASSUME IInv, FlowInv, OutInv, NEW p \in Peers, HandleOther(p) \/ HandleExpired(p) \/ MuxClientGone
    PROVE  OutInv'
<1>0. /\ ch[p] \in ChannelRecord /\ ch["client"] \in ChannelRecord /\ "client" \in Peers /\ moved \in Counts
  BY Ends
<1>1. ASSUME HandleOther(p) PROVE OutInv'
  <2>1. Step(p, channel_garbage_collect(ch[p], HasChild)) /\ SameCounts
    BY <1>1, Unmoved DEF HandleOther
  <2>2. SMoves(ch[p], channel_garbage_collect(ch[p], HasChild), 0, 0) /\ CMoves(ch[p], channel_garbage_collect(ch[p], HasChild), 0, 0)
    BY <1>0, MovesCollect
  <2> QED BY <2>1, <2>2, OutQuietStep
<1>2. ASSUME moved' = [moved EXCEPT !.lossy = TRUE] PROVE SameCounts /\ moved'.lossy
  BY <1>0, <1>2, Unmoved DEF Counts
<1>3. ASSUME HandleExpired(p) PROVE OutInv'
  <2> DEFINE f == channel_force_close(ch[p], HasChild)
             g == channel_garbage_collect(f, HasChild)
  <2>1. Step(p, g) /\ SameCounts /\ moved'.lossy
    BY <1>2, <1>3 DEF HandleExpired
  <2>2. Quiescent(ch[p], f) /\ f \in ChannelRecord
    BY <1>0, QuietForceClose, StillRecord
  <2> HIDE DEF f
  <2>3. Quiescent(ch[p], g)
    BY <1>0, <2>2, StillCollect, StillQuiet, QuiescentTrans
  <2> QED BY <2>1, <2>3, OutLossyStep
<1>4. ASSUME MuxClientGone PROVE OutInv'
  <2> DEFINE c == chan_read_failed(ch["client"])
             d == IF c.ostate = "open" THEN chan_write_failed(c) ELSE c
  <2>1. Step("client", d) /\ SameCounts /\ moved'.lossy
    BY <1>2, <1>4 DEF MuxClientGone
  <2>2. Quiescent(ch["client"], c) /\ c \in ChannelRecord
    BY <1>0, StillReads, StillQuiet, StillRecord
  <2> HIDE DEF c
  <2>3. Quiescent(ch["client"], d)
    BY <1>0, <2>2, QuietWriteFailed, QuiescentTrans
  <2> QED BY <1>0, <2>1, <2>3, OutLossyStep
<1> QED BY <1>1, <1>3, <1>4

\* channel_post_connecting has no output yet.
LEMMA OutConnecting ==
    ASSUME IInv, FlowInv, OutInv, HandleConnecting
    PROVE  OutInv'
<1> DEFINE s == ch["server"]
           u == [s EXCEPT !.type = "open"]
           z == [s EXCEPT !.type = "zombie"]
           a == Send(u, "CONFIRM", s.lwin)
           b == Send(z, "OPENFAIL", 0)
           g == channel_garbage_collect(b, HasChild)
<1>0. /\ "server" \in Peers /\ s \in ChannelRecord /\ SameCounts /\ s.lwin \in Nat
      /\ Step("server", a) \/ Step("server", g)
  BY Ends, Unmoved DEF HandleConnecting, ChannelRecord
<1>1. ASSUME NEW e \in {u, z} PROVE SMoves(s, e, 0, 0)
  <2>1. /\ e \in ChannelRecord /\ e.input = s.input /\ e.extended = s.extended /\ e.extusage = s.extusage
        /\ e.flags = s.flags /\ e.istate = s.istate /\ e.out = s.out
    BY <1>0, <1>1 DEF ChannelRecord, Types
  <2>2. s.input + 0 = s.input /\ s.extended + 0 = s.extended
    BY <1>0 DEF ChannelRecord
  <2> QED BY <2>1, <2>2 DEF SMoves, SameData
<1>2. ASSUME NEW e \in ChannelRecord, NEW t \in {"CONFIRM", "OPENFAIL"}, NEW n \in Nat PROVE SMoves(e, Send(e, t, n), 0, 0)
  <2> DEFINE d == Send(e, t, n)
  <2>0. t \in PacketTypes /\ \A T \in {{"DATA"}, {"EXT"}} : t \notin T
    BY DEF PacketTypes
  <2>1. /\ d = [e EXCEPT !.out = Append(e.out, Pkt(t, n))] /\ d \in ChannelRecord
        /\ \A T : Carried(Append(e.out, Pkt(t, n)), T) = Carried(e.out, T) + (IF t \in T THEN n ELSE 0)
    BY <2>0, SendSums
  <2> HIDE DEF d
  <2>2. /\ d.input = e.input /\ d.extended = e.extended /\ d.extusage = e.extusage
        /\ d.flags = e.flags /\ d.istate = e.istate /\ d.out = Append(e.out, Pkt(t, n))
    BY <2>1 DEF ChannelRecord
  <2>3. \A T \in {{"DATA"}, {"EXT"}} : Carried(d.out, T) = Carried(e.out, T)
    <3>1. \A T : Carried(e.out, T) \in Nat
      BY CarriedNat DEF ChannelRecord
    <3> QED BY <2>0, <2>1, <2>2, <3>1
  <2>4. Bounded(e.out) => Bounded(d.out)
    <3>1. e.out \in Seq(Packet) /\ Pkt(t, n) \in Packet /\ Pkt(t, n).t = t
      BY <2>0 DEF ChannelRecord, Pkt, Packet
    <3> QED BY <2>2, <3>1, SendBounded
  <2>5. e.input + 0 = e.input /\ e.extended + 0 = e.extended
    BY DEF ChannelRecord
  <2>6. SMoves(e, d, 0, 0)
    BY <2>1, <2>2, <2>3, <2>4, <2>5 DEF SMoves, SameData
  <2> QED BY <2>6 DEF d
<1>3. ASSUME NEW e \in ChannelRecord, NEW d, NEW f, SMoves(e, d, 0, 0), SMoves(d, f, 0, 0) PROVE SMoves(e, f, 0, 0)
  <2>1. 0 + 0 = 0 /\ 0 \in Int
    OBVIOUS
  <2>2. SMoves(e, f, 0 + 0, 0 + 0)
    BY <1>3, <2>1, MovesTrans
  <2> QED BY <2>1, <2>2
<1>4. ASSUME Step("server", a) PROVE OutInv'
  <2>1. SMoves(s, u, 0, 0) /\ u \in ChannelRecord
    BY <1>1 DEF SMoves
  <2> HIDE DEF u
  <2>2. SMoves(u, a, 0, 0)
    BY <1>0, <1>2, <2>1
  <2> HIDE DEF a
  <2>3. SMoves(s, a, 0, 0)
    BY <1>0, <1>3, <2>1, <2>2
  <2> QED BY <1>0, <1>4, <2>3, OutQuietStep
<1>5. ASSUME Step("server", g) PROVE OutInv'
  <2>1. SMoves(s, z, 0, 0) /\ z \in ChannelRecord
    BY <1>1 DEF SMoves
  <2> HIDE DEF z
  <2>2. SMoves(z, b, 0, 0) /\ b \in ChannelRecord
    BY <1>2, <2>1 DEF SMoves
  <2> HIDE DEF b
  <2>3. SMoves(b, g, 0, 0)
    BY <2>2, MovesCollect
  <2> HIDE DEF g
  <2>4. SMoves(s, g, 0, 0)
    BY <1>0, <1>3, <2>1, <2>2, <2>3
  <2> QED BY <1>0, <1>5, <2>4, OutQuietStep
<1> QED BY <1>0, <1>4, <1>5

\* The exit of the child closes the server's output side, not its input.
LEMMA OutChild ==
    ASSUME IInv, FlowInv, OutInv, ChildExit \/ CollectChildren
    PROVE  OutInv'
<1> DEFINE s == ch["server"]
<1>0. s \in ChannelRecord /\ "server" \in Peers
  BY Ends
<1>1. CASE ChildExit
  BY <1>1 DEF ChildExit, OutInv
<1>2. CASE CollectChildren
  <2>1. PICK d \in {Reaped(s), s} : Step("server", d)
    BY <1>2 DEF CollectChildren, Reaped
  <2>2. SameCounts
    BY <1>2, Unmoved DEF CollectChildren
  <2>3. SMoves(s, Reaped(s), 0, 0)
    <3> DEFINE e == Reaped(s)
               k == [Send(s, "EXIT", 0) EXCEPT !.detach.close = TRUE]
    <3>1. Quiescent(s, e)
      BY <1>0, QuietReaped
    <3>2. k.flags = s.flags /\ k.istate = s.istate /\ k.input = s.input /\ k.ostate = s.ostate
      BY <1>0 DEF Send, ChannelRecord
    <3>3. e = chan_write_failed(k)
      BY DEF Reaped
    <3>4. k \in ChannelRecord
      <4> DEFINE v == Send(s, "EXIT", 0)
                 y == [v EXCEPT !.detach = [v.detach EXCEPT !.close = TRUE]]
      <4>1. v \in ChannelRecord
        BY <1>0, SmallUpdates, Constants, StillRecord
      <4>2. k = y
        OBVIOUS
      <4> HIDE DEF v
      <4>3. [v.detach EXCEPT !.close = TRUE] \in [user : {"none", "client", "session"}, close : BOOLEAN]
        BY <4>1 DEF ChannelRecord
      <4>4. y \in ChannelRecord
        BY <4>1, <4>3, SmallUpdates, StillRecord
      <4> QED BY <4>2, <4>4 DEF v
    <3> HIDE DEF k, e
    <3>5. e.flags = k.flags /\ e.istate = k.istate /\ e.input = k.input
      BY <3>3, <3>4 DEF chan_write_failed, Send, ChannelRecord
    <3>6. SMoves(s, e, 0, 0)
      BY <1>0, <3>1, <3>2, <3>5, MovesBy
    <3> QED BY <3>6 DEF e
  <2>4. SMoves(s, d, 0, 0)
    BY <1>0, <2>3, MovesRefl
  <2> QED BY <1>0, <2>1, <2>2, <2>4, OutQuietStep
<1> QED BY <1>1, <1>2

----------------------------------------------------------------------------
(* channel_output_poll only moves bytes from the buffers to the link.      *)

\* A DATA packet takes its bytes from the input buffer.
LEMMA SentStdout ==
    ASSUME NEW c \in ChannelRecord, NEW n \in Nat, n <= c.rwin, n <= MaxPacket, n <= c.input
    PROVE  LET d == DataSent(c, n)
           IN  /\ d \in ChannelRecord /\ Stdout(d) = Stdout(c) /\ Stderr(d) = Stderr(c)
               /\ Bounded(c.out) => Bounded(d.out)
               /\ NoEow(c.out) => NoEow(d.out)
               /\ d.flags = c.flags /\ d.istate = c.istate /\ d.ostate = c.ostate /\ d.type = c.type /\ d.efd = c.efd
               /\ d.extended = c.extended /\ d.extusage = c.extusage /\ d.output = c.output
<1> DEFINE d == DataSent(c, n)
<1>1. d \in ChannelRecord /\ d = [c EXCEPT !.out = Append(c.out, Pkt("DATA", n)), !.input = c.input - n, !.rwin = c.rwin - n]
  BY SentData
<1> HIDE DEF d
<1>2. /\ d.flags = c.flags /\ d.istate = c.istate /\ d.ostate = c.ostate /\ d.type = c.type /\ d.efd = c.efd
      /\ d.extended = c.extended /\ d.extusage = c.extusage /\ d.output = c.output /\ d.input = c.input - n
      /\ d.out = Append(c.out, Pkt("DATA", n))
  BY <1>1 DEF ChannelRecord
<1>3. \A T : Carried(d.out, T) = Carried(c.out, T) + (IF "DATA" \in T THEN n ELSE 0)
  <2>1. "DATA" \in PacketTypes
    BY DEF PacketTypes
  <2> QED BY <1>2, <2>1, SendSums
<1>4. c.out \in Seq(Packet) /\ c.input \in Nat /\ c.extended \in Nat
  BY DEF ChannelRecord
<1>5. Carried(c.out, {"DATA"}) \in Nat /\ Carried(c.out, {"EXT"}) \in Nat
  BY <1>4, CarriedNat
<1>6. Carried(d.out, {"DATA"}) = Carried(c.out, {"DATA"}) + n /\ Carried(d.out, {"EXT"}) = Carried(c.out, {"EXT"})
  <2>1. "DATA" \in {"DATA"} /\ "DATA" \notin {"EXT"}
    OBVIOUS
  <2>2. Carried(d.out, {"EXT"}) = Carried(c.out, {"EXT"}) + 0
    BY <1>3, <2>1
  <2> QED BY <1>3, <1>5, <2>1, <2>2
<1>7. Stdout(d) = Stdout(c)
  <2>1. Stdout(d) = (Carried(c.out, {"DATA"}) + n) + (c.input - n) /\ Stdout(c) = Carried(c.out, {"DATA"}) + c.input
    BY <1>2, <1>6 DEF Stdout
  <2> QED BY ONLY <1>4, <1>5, <2>1, n \in Nat
<1>8. Stderr(d) = Stderr(c)
  BY <1>2, <1>6 DEF Stderr
<1>9. (Bounded(c.out) => Bounded(d.out)) /\ (NoEow(c.out) => NoEow(d.out))
  <2>1. Pkt("DATA", n) \in Packet /\ Pkt("DATA", n).t = "DATA" /\ Pkt("DATA", n).n = n
    BY DEF Pkt, Packet, PacketTypes
  <2> QED BY <1>2, <1>4, <2>1, SendBounded
<1>10. /\ d \in ChannelRecord /\ Stdout(d) = Stdout(c) /\ Stderr(d) = Stderr(c)
       /\ Bounded(c.out) => Bounded(d.out)
       /\ NoEow(c.out) => NoEow(d.out)
       /\ d.flags = c.flags /\ d.istate = c.istate /\ d.ostate = c.ostate /\ d.type = c.type /\ d.efd = c.efd
       /\ d.extended = c.extended /\ d.extusage = c.extusage /\ d.output = c.output
  BY <1>1, <1>2, <1>7, <1>8, <1>9
<1> QED BY <1>10 DEF d

\* An EXTENDED_DATA packet takes its bytes from the extended buffer.
LEMMA SentStderr ==
    ASSUME NEW c \in ChannelRecord, NEW n \in Nat, n <= c.rwin, n <= c.extended, IsSession
    PROVE  LET d == ExtSent(c, n)
           IN  /\ d \in ChannelRecord /\ Stdout(d) = Stdout(c) /\ Stderr(d) = Stderr(c)
               /\ Bounded(c.out) => Bounded(d.out)
               /\ d.flags = c.flags /\ d.istate = c.istate /\ d.extusage = c.extusage /\ d.input = c.input
<1> DEFINE d == ExtSent(c, n)
<1>1. d \in ChannelRecord /\ d = [c EXCEPT !.out = Append(c.out, Pkt("EXT", n)), !.extended = c.extended - n, !.rwin = c.rwin - n]
  BY SentData
<1> HIDE DEF d
<1>2. /\ d.flags = c.flags /\ d.istate = c.istate /\ d.extusage = c.extusage /\ d.input = c.input
      /\ d.extended = c.extended - n /\ d.out = Append(c.out, Pkt("EXT", n))
  BY <1>1 DEF ChannelRecord
<1>3. \A T : Carried(d.out, T) = Carried(c.out, T) + (IF "EXT" \in T THEN n ELSE 0)
  <2>1. "EXT" \in PacketTypes
    BY DEF PacketTypes
  <2> QED BY <1>2, <2>1, SendSums
<1>4. c.out \in Seq(Packet) /\ c.input \in Nat /\ c.extended \in Nat
  BY DEF ChannelRecord
<1>5. Carried(c.out, {"DATA"}) \in Nat /\ Carried(c.out, {"EXT"}) \in Nat
  BY <1>4, CarriedNat
<1>6. Carried(d.out, {"EXT"}) = Carried(c.out, {"EXT"}) + n /\ Carried(d.out, {"DATA"}) = Carried(c.out, {"DATA"})
  <2>1. "EXT" \in {"EXT"} /\ "EXT" \notin {"DATA"}
    OBVIOUS
  <2>2. Carried(d.out, {"DATA"}) = Carried(c.out, {"DATA"}) + 0
    BY <1>3, <2>1
  <2> QED BY <1>3, <1>5, <2>1, <2>2
<1>7. Stderr(d) = Stderr(c)
  <2>1. Stderr(d) = (Carried(c.out, {"EXT"}) + n) + (c.extended - n) /\ Stderr(c) = Carried(c.out, {"EXT"}) + c.extended
    BY <1>2, <1>6 DEF Stderr
  <2> QED BY ONLY <1>4, <1>5, <2>1, n \in Nat
<1>8. Stdout(d) = Stdout(c)
  BY <1>2, <1>6 DEF Stdout
<1>9. Bounded(c.out) => Bounded(d.out)
  <2>1. Pkt("EXT", n) \in Packet /\ Pkt("EXT", n).t = "EXT"
    BY DEF Pkt, Packet, PacketTypes
  <2> QED BY <1>2, <1>4, <2>1, SendBounded
<1>10. /\ d \in ChannelRecord /\ Stdout(d) = Stdout(c) /\ Stderr(d) = Stderr(c)
       /\ Bounded(c.out) => Bounded(d.out)
       /\ d.flags = c.flags /\ d.istate = c.istate /\ d.extusage = c.extusage /\ d.input = c.input
  BY <1>1, <1>2, <1>7, <1>8, <1>9
<1> QED BY <1>10 DEF d

\* What channel_output_poll_input_open comes to.
LEMMA PollInputIs ==
    ASSUME NEW c \in ChannelRecord
    PROVE  LET d == channel_output_poll_input_open(c)
           IN  \/ d = c
               \/ d = chan_ibuf_empty(c) /\ c.input = 0 /\ c.istate = "drain" /\ ~EFD_INPUT_ACTIVE(c)
               \/ \E n \in Nat : d = DataSent(c, n) /\ n <= c.rwin /\ n <= MaxPacket /\ n <= c.input
<1> DEFINE d == channel_output_poll_input_open(c)
           n == Chunk(c, c.input)
<1>1. n \in Nat /\ n <= c.rwin /\ n <= MaxPacket /\ n <= c.input
  BY ChunkFits DEF ChannelRecord
<1>2. \/ d = c
      \/ d = chan_ibuf_empty(c) /\ c.input = 0 /\ c.istate = "drain" /\ ~EFD_INPUT_ACTIVE(c)
      \/ d = DataSent(c, n)
  BY DEF channel_output_poll_input_open, DataSent
<1> HIDE DEF d, n
<1>3. \/ d = c
      \/ d = chan_ibuf_empty(c) /\ c.input = 0 /\ c.istate = "drain" /\ ~EFD_INPUT_ACTIVE(c)
      \/ \E k \in Nat : d = DataSent(c, k) /\ k <= c.rwin /\ k <= MaxPacket /\ k <= c.input
  BY <1>1, <1>2
<1> QED BY <1>3 DEF d

\* The client's part: it sends its input, or says that there is no more.
LEMMA PollClient ==
    ASSUME NEW c \in ChannelRecord
    PROVE  CMoves(c, channel_output_poll_input_open(c), 0, 0)
<1> DEFINE d == channel_output_poll_input_open(c)
<1>1. CASE d = c
  BY <1>1, MovesRefl
<1>2. CASE d = chan_ibuf_empty(c)
  <2> DEFINE k == chan_ibuf_empty(c)
  <2>1. Still(c, k)
    BY StillIbuf
  <2>2. c.flags \subseteq k.flags /\ k.ostate = c.ostate /\ k.efd = c.efd /\ k.type = c.type
    BY DEF chan_ibuf_empty, chan_send_eof2, Send, ChannelRecord
  <2> HIDE DEF k
  <2>3. CMoves(c, k, 0, 0)
    BY <2>1, <2>2, MovesBy DEF Still
  <2> QED BY <1>2, <2>3 DEF k
<1>3. ASSUME NEW n \in Nat, d = DataSent(c, n), n <= c.rwin, n <= MaxPacket, n <= c.input PROVE CMoves(c, d, 0, 0)
  <2> HIDE DEF d
  <2>1. /\ d \in ChannelRecord /\ (NoEow(c.out) => NoEow(d.out)) /\ d.flags = c.flags /\ d.ostate = c.ostate
        /\ d.type = c.type /\ d.efd = c.efd /\ d.extended = c.extended /\ d.extusage = c.extusage /\ d.output = c.output
    BY <1>3, SentStdout
  <2>2. c.output + 0 = c.output /\ c.extended + 0 = c.extended
    BY DEF ChannelRecord
  <2> QED BY <2>1, <2>2 DEF CMoves
<1> QED BY <1>1, <1>2, <1>3, PollInputIs

\* The server's part.
Polled(c, d) ==
    /\ d \in ChannelRecord /\ ServerShape(d) /\ Stdout(d) = Stdout(c) /\ Stderr(d) = Stderr(c)
    /\ ServerGood(c) => ServerGood(d)

\* EOF is sent only when both buffers are empty.
LEMMA PollServerInput ==
    ASSUME NEW c \in ChannelRecord, ServerShape(c), "CLOSE_SENT" \notin c.flags, c.istate # "closed"
    PROVE  Polled(c, channel_output_poll_input_open(c))
<1> DEFINE d == channel_output_poll_input_open(c)
<1>1. CASE d = c
  BY <1>1 DEF Polled
<1>2. CASE d = chan_ibuf_empty(c) /\ c.input = 0 /\ c.istate = "drain" /\ ~EFD_INPUT_ACTIVE(c)
  <2> DEFINE k == chan_ibuf_empty(c)
  <2>1. Still(c, k)
    BY StillIbuf
  <2>2. "EOF_SENT" \in k.flags
    <3>1. ~(c.input > 0) /\ c.istate = "drain" /\ ~Has(c, "CLOSE_SENT")
      BY <1>2 DEF Has
    <3>2. k = [chan_send_eof2(c) EXCEPT !.istate = "closed"]
      BY <3>1 DEF chan_ibuf_empty
    <3> QED BY <3>2 DEF chan_send_eof2, Send, ChannelRecord
  <2>3. c.extended = 0
    <3>1. CASE EfdRead(c)
      <4>1. ~(c.extended > 0) /\ c.extended \in Nat
        BY <1>2, <3>1 DEF EFD_INPUT_ACTIVE, ChannelRecord
      <4> QED BY <4>1
    <3>2. CASE ~EfdRead(c)
      BY <3>2 DEF ServerShape, EfdRead
    <3> QED BY <3>1, <3>2
  <2> HIDE DEF k
  <2>4. k.input = 0 /\ k.extended = 0 /\ k.extusage = c.extusage /\ k.extended = c.extended /\ k.input = c.input
        /\ k \in ChannelRecord /\ SameSums(c, k)
    BY <1>2, <2>1, <2>3 DEF Still, Quiescent
  <2>5. Stdout(k) = Stdout(c) /\ Stderr(k) = Stderr(c)
    BY <2>4 DEF Stdout, Stderr, SameSums
  <2>6. ServerShape(k)
    BY <2>4 DEF ServerShape, SameSums
  <2>7. ServerGood(k)
    BY <2>2, <2>4 DEF ServerGood
  <2> QED BY <1>2, <2>4, <2>5, <2>6, <2>7 DEF Polled, k
<1>3. ASSUME NEW n \in Nat, d = DataSent(c, n), n <= c.rwin, n <= MaxPacket, n <= c.input PROVE Polled(c, d)
  <2> HIDE DEF d
  <2>1. /\ d \in ChannelRecord /\ (Bounded(c.out) => Bounded(d.out)) /\ d.flags = c.flags /\ d.istate = c.istate
        /\ d.extended = c.extended /\ d.extusage = c.extusage /\ Stdout(d) = Stdout(c) /\ Stderr(d) = Stderr(c)
    BY <1>3, SentStdout
  <2>2. ServerShape(d) /\ ServerGood(d)
    BY <2>1 DEF ServerShape, ServerGood
  <2> QED BY <2>1, <2>2 DEF Polled
<1> QED BY <1>1, <1>2, <1>3, PollInputIs

\* Stderr is sent until EOF was.
LEMMA PollServerStderr ==
    ASSUME NEW c \in ChannelRecord, ServerShape(c), "EOF_SENT" \notin c.flags, EfdRead(c)
    PROVE  Polled(c, channel_output_poll_extended_read(c))
<1> DEFINE d == channel_output_poll_extended_read(c)
           n == Chunk(c, c.extended)
<1>1. CASE d = c
  BY <1>1 DEF Polled
<1>2. CASE d = ExtSent(c, n)
  <2>1. n \in Nat /\ n <= c.rwin /\ n <= c.extended /\ IsSession
    BY ChunkFits DEF ChannelRecord, ServerShape, EfdRead
  <2> HIDE DEF n
  <2>2. /\ d \in ChannelRecord /\ Stdout(d) = Stdout(c) /\ Stderr(d) = Stderr(c)
        /\ (Bounded(c.out) => Bounded(d.out)) /\ d.istate = c.istate /\ d.extusage = c.extusage
    BY <1>2, <2>1, SentStderr
  <2> HIDE DEF d
  <2>3. ServerShape(d) /\ (ServerGood(c) => ServerGood(d))
    BY <2>2 DEF ServerShape, ServerGood, EfdRead
  <2> QED BY <2>2, <2>3 DEF Polled, d
<1> QED BY <1>1, <1>2 DEF channel_output_poll_extended_read, ExtSent

\* channel_output_poll at the server moves output to the link and loses none.
LEMMA PollServer ==
    ASSUME NEW c \in ChannelRecord, ServerShape(c), "CLOSE_SENT" \notin c.flags
    PROVE  Polled(c, channel_output_poll(c))
<1> DEFINE d == IF c.istate # "closed" THEN channel_output_poll_input_open(c) ELSE c
<1>1. Polled(c, d)
  <2>1. CASE c.istate # "closed"
    BY <2>1, PollServerInput
  <2>2. CASE c.istate = "closed"
    BY <2>2 DEF Polled
  <2> QED BY <2>1, <2>2
<1>2. channel_output_poll(c) = IF ~Has(d, "EOF_SENT") /\ EfdRead(d) THEN channel_output_poll_extended_read(d) ELSE d
  BY DEF channel_output_poll
<1> HIDE DEF d
<1>3. d \in ChannelRecord /\ ServerShape(d)
  BY <1>1 DEF Polled
<1>4. ~Has(d, "EOF_SENT") /\ EfdRead(d) => Polled(d, channel_output_poll_extended_read(d))
  BY <1>3, PollServerStderr DEF Has
<1>5. ASSUME NEW e, Polled(d, e) PROVE Polled(c, e)
  BY <1>1, <1>5 DEF Polled
<1> QED BY <1>1, <1>2, <1>4, <1>5

\* channel_output_poll at either end.
LEMMA OutPoll ==
    ASSUME IInv, FlowInv, OutInv, NEW p \in Peers, ChannelOutputPoll(p)
    PROVE  OutInv'
<1>0. /\ ch["client"] \in ChannelRecord /\ ch["server"] \in ChannelRecord /\ OutTo(ch["client"], ch["server"], moved)
      /\ ClientShape(ch["client"]) /\ ServerShape(ch["server"])
  BY Ends DEF OutTo
<1>1. /\ Step(p, channel_output_poll(ch[p])) /\ SameCounts /\ "CLOSE_SENT" \notin ch[p].flags /\ moved' = moved
  BY Unmoved DEF ChannelOutputPoll
<1>2. CASE p = "client"
  <2> DEFINE c == ch["client"]
             d == IF c.istate # "closed" THEN channel_output_poll_input_open(c) ELSE c
  <2>1. CMoves(c, d, 0, 0)
    BY <1>0, PollClient, MovesRefl
  <2>2. channel_output_poll(c) = IF ~Has(d, "EOF_SENT") /\ EfdRead(d) THEN channel_output_poll_extended_read(d) ELSE d
    BY DEF channel_output_poll
  <2> HIDE DEF d
  <2>3. ~EfdRead(d)
    BY <1>0, <2>1 DEF CMoves, ClientShape, EfdRead
  <2>4. channel_output_poll(c) = d
    BY <2>2, <2>3
  <2>5. CMoves(ch["client"], channel_output_poll(ch["client"]), 0, 0)
    BY <2>1, <2>4
  <2> QED BY <1>1, <1>2, <2>5, OutQuietStep
<1>3. CASE p = "server"
  <2> DEFINE s == ch["server"]
             d == channel_output_poll(s)
  <2>1. Polled(s, d)
    BY <1>0, <1>1, <1>3, PollServer
  <2> HIDE DEF d
  <2>2. Stdout(s) + 0 = Stdout(s) /\ Stderr(s) + 0 = Stderr(s)
    BY <1>0, Amounts
  <2>3. ~moved.lossy => ServerGood(s)
    BY <1>0 DEF OutTo
  <2>4. ServerFine(s, d, 0, 0, moved'.lossy)
    BY <1>1, <2>1, <2>2, <2>3 DEF ServerFine, Polled
  <2>5. ServerFine(ch["server"], channel_output_poll(ch["server"]), 0, 0, moved'.lossy)
    BY <2>4 DEF d
  <2> QED BY <1>1, <1>3, <2>5, OutStep
<1> QED BY <1>2, <1>3 DEF Peers

----------------------------------------------------------------------------
(* channel_handler on an open channel moves what is read and written.      *)

\* Moves one after the other, where the one comes with nothing of the other.
LEMMA MovesThen ==
    ASSUME NEW c \in ChannelRecord, NEW d, NEW e, NEW i \in Int, NEW x \in Int
    PROVE  /\ SMoves(c, d, i, x) /\ SMoves(d, e, 0, 0) => SMoves(c, e, i, x)
           /\ SMoves(c, d, 0, 0) /\ SMoves(d, e, i, x) => SMoves(c, e, i, x)
           /\ SMoves(c, d, i, 0) /\ SMoves(d, e, 0, x) => SMoves(c, e, i, x)
           /\ CMoves(c, d, i, x) /\ CMoves(d, e, 0, 0) => CMoves(c, e, i, x)
           /\ CMoves(c, d, 0, 0) /\ CMoves(d, e, i, x) => CMoves(c, e, i, x)
           /\ CMoves(c, d, i, 0) /\ CMoves(d, e, 0, x) => CMoves(c, e, i, x)
<1>1. i + 0 = i /\ 0 + i = i /\ x + 0 = x /\ 0 + x = x /\ 0 \in Int
  OBVIOUS
<1>2. /\ SMoves(c, d, i, x) /\ SMoves(d, e, 0, 0) => SMoves(c, e, i, x)
      /\ CMoves(c, d, i, x) /\ CMoves(d, e, 0, 0) => CMoves(c, e, i, x)
  <2>1. /\ SMoves(c, d, i, x) /\ SMoves(d, e, 0, 0) => SMoves(c, e, i + 0, x + 0)
        /\ CMoves(c, d, i, x) /\ CMoves(d, e, 0, 0) => CMoves(c, e, i + 0, x + 0)
    BY <1>1, MovesTrans
  <2> QED BY <1>1, <2>1
<1>3. /\ SMoves(c, d, 0, 0) /\ SMoves(d, e, i, x) => SMoves(c, e, i, x)
      /\ CMoves(c, d, 0, 0) /\ CMoves(d, e, i, x) => CMoves(c, e, i, x)
  <2>1. /\ SMoves(c, d, 0, 0) /\ SMoves(d, e, i, x) => SMoves(c, e, 0 + i, 0 + x)
        /\ CMoves(c, d, 0, 0) /\ CMoves(d, e, i, x) => CMoves(c, e, 0 + i, 0 + x)
    BY <1>1, MovesTrans
  <2> QED BY <1>1, <2>1
<1>4. /\ SMoves(c, d, i, 0) /\ SMoves(d, e, 0, x) => SMoves(c, e, i, x)
      /\ CMoves(c, d, i, 0) /\ CMoves(d, e, 0, x) => CMoves(c, e, i, x)
  <2>1. /\ SMoves(c, d, i, 0) /\ SMoves(d, e, 0, x) => SMoves(c, e, i + 0, 0 + x)
        /\ CMoves(c, d, i, 0) /\ CMoves(d, e, 0, x) => CMoves(c, e, i + 0, 0 + x)
    BY <1>1, MovesTrans
  <2> QED BY <1>1, <2>1
<1> QED BY <1>2, <1>3, <1>4

\* These are whole numbers, and nothing when nothing moved.
LEMMA PosExt ==
    ASSUME NEW n \in Int
    PROVE  /\ Pos(n) \in Nat /\ Pos(n) \in Int /\ 0 - Pos(n) \in Int
           /\ ~(n > 0) => Pos(n) = 0 /\ 0 - Pos(n) = 0
           /\ \A c : Ext(c, n) \in Int /\ (~(n > 0) => Ext(c, n) = 0)
<1>1. Pos(n) \in Nat /\ (~(n > 0) => Pos(n) = 0)
  BY DEF Pos
<1>2. Pos(n) \in Int /\ 0 - Pos(n) \in Int /\ (~(n > 0) => 0 - Pos(n) = 0)
  BY <1>1
<1>3. ASSUME NEW c PROVE Ext(c, n) \in Int /\ (~(n > 0) => Ext(c, n) = 0)
  BY <1>1, <1>2 DEF Ext
<1> QED BY <1>1, <1>2, <1>3

\* The post handler: read, write, stderr, window.
Posted(c, r, w, x) ==
    channel_check_window(channel_handle_efd(channel_handle_wfd(channel_handle_rfd(c, r), w), x))

\* The post handler moves what was read and written.
LEMMA PostMoves ==
    ASSUME NEW c \in ChannelRecord, NEW r \in Int, NEW w \in Int, NEW x \in Int, w >= Failed, x >= Failed,
           r > 0 => c.input < c.rwin, w <= c.output, EfdWrite(c) => x <= c.extended, x > 0 => c.efd
    PROVE  /\ SMoves(c, Posted(c, r, w, x), Pos(r), Ext(c, x))
           /\ w # Failed /\ x # Failed => CMoves(c, Posted(c, r, w, x), 0 - Pos(w), Ext(c, x))
<1> DEFINE a == channel_handle_rfd(c, r)
           k == channel_handle_wfd(a, w)
           e == channel_handle_efd(k, x)
           z == channel_check_window(e)
<1>0. Pos(r) \in Int /\ Pos(w) \in Int /\ 0 - Pos(w) \in Int /\ Ext(c, x) \in Int /\ 0 \in Int
  BY ONLY r \in Int, w \in Int, x \in Int, PosExt
<1>1. SMoves(c, a, Pos(r), 0) /\ CMoves(c, a, 0, 0)
  BY MovesRfd
<1> HIDE DEF a
<1>2. a \in ChannelRecord /\ a.output = c.output /\ a.extended = c.extended /\ a.extusage = c.extusage /\ a.efd = c.efd
  <2>1. c.output + 0 = c.output /\ c.extended + 0 = c.extended
    BY DEF ChannelRecord
  <2> QED BY <1>1, <2>1 DEF CMoves
<1>3. SMoves(a, k, 0, 0) /\ (w # Failed => CMoves(a, k, 0 - Pos(w), 0))
  BY <1>2, MovesWfd
<1>4. k.efd = a.efd
  <2>1. chan_write_failed(a).efd = a.efd
    BY <1>2 DEF chan_write_failed, Send, ChannelRecord
  <2>2. [a EXCEPT !.output = @ - w, !.cons = @ + w].efd = a.efd
    BY <1>2 DEF ChannelRecord
  <2> QED BY <2>1, <2>2 DEF channel_handle_wfd
<1> HIDE DEF k
<1>5. k \in ChannelRecord /\ k.extended = c.extended /\ k.extusage = c.extusage /\ k.efd = c.efd
  <2>1. c.extended + 0 = c.extended
    BY DEF ChannelRecord
  <2> QED BY <1>2, <1>3, <1>4, <2>1 DEF SMoves
<1>6. Ext(k, x) = Ext(c, x) /\ (EfdWrite(k) => x <= k.extended) /\ (x > 0 => k.efd)
  BY <1>5 DEF Ext, EfdWrite, EfdRead
<1>7. SMoves(k, e, 0, Ext(c, x)) /\ (x # Failed => CMoves(k, e, 0, Ext(c, x)))
  BY <1>5, <1>6, MovesEfd
<1> HIDE DEF e
<1>8. SMoves(e, z, 0, 0) /\ CMoves(e, z, 0, 0)
  BY <1>7, MovesWindow DEF SMoves
<1> HIDE DEF z
<1>9. SMoves(c, z, Pos(r), Ext(c, x))
  <2>1. SMoves(c, k, Pos(r), 0)
    BY <1>0, <1>1, <1>3, MovesThen
  <2>2. SMoves(c, e, Pos(r), Ext(c, x))
    BY <1>0, <1>7, <2>1, MovesThen
  <2> QED BY <1>0, <1>8, <2>2, MovesThen
<1>10. ASSUME w # Failed, x # Failed PROVE CMoves(c, z, 0 - Pos(w), Ext(c, x))
  <2>1. CMoves(c, k, 0 - Pos(w), 0)
    BY <1>0, <1>1, <1>3, <1>10, MovesThen
  <2>2. CMoves(c, e, 0 - Pos(w), Ext(c, x))
    BY <1>0, <1>7, <1>10, <2>1, MovesThen
  <2> QED BY <1>0, <1>8, <2>2, MovesThen
<1> QED BY <1>9, <1>10 DEF Posted, z, e, k, a

\* What the handlers make of an open channel.
Passed(c, r, w, x, h) ==
    LET d == channel_garbage_collect(channel_pre_open(c), h)
    IN  IF d.type = "open" THEN channel_garbage_collect(Posted(d, r, w, x), h) ELSE d

\* channel_pre_open moves nothing.
LEMMA PreMoves ==
    ASSUME NEW c \in ChannelRecord
    PROVE  LET d == channel_pre_open(c)
           IN  /\ d \in ChannelRecord /\ SMoves(c, d, 0, 0) /\ d.input = c.input /\ d.output = c.output
               /\ d.rwin = c.rwin /\ d.extended = c.extended /\ d.extusage = c.extusage /\ d.efd = c.efd
               /\ d.flags = c.flags /\ d.istate = c.istate /\ d.type = c.type
               /\ d = c \/ c.output = 0
<1> DEFINE d == channel_pre_open(c)
<1>1. Still(c, d)
  BY StillPreOpen
<1>2. d.flags = c.flags /\ d.istate = c.istate /\ d.type = c.type /\ d.efd = c.efd /\ (d = c \/ c.output = 0)
  <2>1. CASE d = c
    BY <2>1
  <2>2. CASE d = chan_obuf_empty(c) /\ c.output = 0
    BY <2>2 DEF chan_obuf_empty, ChannelRecord
  <2> QED BY <2>1, <2>2 DEF channel_pre_open
<1> HIDE DEF d
<1>3. /\ Quiescent(c, d) /\ d \in ChannelRecord /\ d.input = c.input /\ d.output = c.output
      /\ d.rwin = c.rwin /\ d.extended = c.extended /\ d.extusage = c.extusage
  BY <1>1 DEF Still, Quiescent
<1>4. SMoves(c, d, 0, 0)
  BY <1>2, <1>3, MovesBy
<1>5. /\ d \in ChannelRecord /\ SMoves(c, d, 0, 0) /\ d.input = c.input /\ d.output = c.output
      /\ d.rwin = c.rwin /\ d.extended = c.extended /\ d.extusage = c.extusage /\ d.efd = c.efd
      /\ d.flags = c.flags /\ d.istate = c.istate /\ d.type = c.type
      /\ d = c \/ c.output = 0
  BY <1>2, <1>3, <1>4
<1> QED BY <1>5 DEF d

\* The whole handler: a channel it collects first had nothing to read or write.
LEMMA PassMoves ==
    ASSUME NEW c \in ChannelRecord, c.type = "open", NEW h,
           NEW r \in Int, NEW w \in Int, NEW x \in Int, w >= Failed, x >= Failed,
           r # 0 => WantRead(c), w # 0 => WantWrite(c), x # 0 => WantExtended(channel_pre_open(c)),
           w <= c.output, EfdWrite(c) => x <= c.extended
    PROVE  /\ SMoves(c, Passed(c, r, w, x, h), Pos(r), Ext(c, x))
           /\ w # Failed /\ x # Failed => CMoves(channel_pre_open(c), Passed(c, r, w, x, h), 0 - Pos(w), Ext(c, x))
<1> DEFINE b == channel_pre_open(c)
           d == channel_garbage_collect(b, h)
           e == Posted(d, r, w, x)
           z == channel_garbage_collect(e, h)
<1>0. Pos(r) \in Int /\ Pos(w) \in Int /\ 0 - Pos(w) \in Int /\ Ext(c, x) \in Int /\ 0 \in Int
  BY ONLY r \in Int, w \in Int, x \in Int, PosExt
<1>1. /\ b \in ChannelRecord /\ SMoves(c, b, 0, 0) /\ b.input = c.input /\ b.output = c.output
      /\ b.rwin = c.rwin /\ b.extended = c.extended /\ b.extusage = c.extusage /\ b.efd = c.efd
      /\ b.istate = c.istate /\ b.type = "open" /\ (b = c \/ c.output = 0)
  BY PreMoves
<1>2. x # 0 => b.efd /\ ~(b.istate = "closed" /\ b.ostate = "closed")
  BY DEF WantExtended
<1> HIDE DEF b
<1>3. SMoves(b, d, 0, 0) /\ CMoves(b, d, 0, 0) /\ Still(b, d) /\ Sides(b, d)
      /\ (d.type # b.type => b.istate = "closed" /\ b.ostate = "closed")
  BY <1>1, MovesCollect, StillCollect, CollectSides
<1> HIDE DEF d
<1>4. /\ d \in ChannelRecord /\ d.input = c.input /\ d.output = c.output /\ d.rwin = c.rwin /\ d.extended = c.extended
      /\ d.extusage = c.extusage /\ d.efd = b.efd
  BY <1>1, <1>3 DEF Still, Quiescent, Sides
<1>5. SMoves(c, d, 0, 0)
  BY <1>0, <1>1, <1>3, MovesThen
<1>6. CASE d.type # "open"
  <2>1. b.istate = "closed" /\ b.ostate = "closed"
    BY <1>1, <1>3, <1>6
  <2>2. r = 0 /\ x = 0
    BY <1>1, <1>2, <2>1 DEF WantRead
  <2>3. w = 0
    <3>1. ASSUME w # 0 PROVE FALSE
      <4>1. c.output > 0 /\ c.ostate # "closed"
        BY <3>1 DEF WantWrite
      <4> QED BY <1>1, <2>1, <4>1
    <3> QED BY <3>1
  <2>4. Pos(r) = 0 /\ Ext(c, x) = 0 /\ 0 - Pos(w) = 0
    <3>1. ~(r > 0) /\ ~(w > 0) /\ ~(x > 0)
      BY <2>2, <2>3
    <3> QED BY <3>1, PosExt
  <2>5. SMoves(c, d, Pos(r), Ext(c, x)) /\ CMoves(b, d, 0 - Pos(w), Ext(c, x))
    BY <1>3, <1>5, <2>4
  <2>6. Passed(c, r, w, x, h) = d
    BY <1>6 DEF Passed, d, b
  <2> QED BY <2>5, <2>6 DEF b
<1>7. CASE d.type = "open"
  <2>1. (r > 0 => d.input < d.rwin) /\ w <= d.output /\ (EfdWrite(d) => x <= d.extended) /\ (x > 0 => d.efd) /\ Ext(d, x) = Ext(c, x)
    <3>1. r > 0 => r # 0
      OBVIOUS
    <3>2. x > 0 => x # 0
      OBVIOUS
    <3> QED BY <1>2, <1>4, <3>1, <3>2 DEF WantRead, EfdWrite, EfdRead, Ext
  <2>2. /\ SMoves(d, e, Pos(r), Ext(c, x))
        /\ w # Failed /\ x # Failed => CMoves(d, e, 0 - Pos(w), Ext(c, x))
    BY <1>4, <2>1, PostMoves
  <2> HIDE DEF e
  <2>3. SMoves(e, z, 0, 0) /\ CMoves(e, z, 0, 0)
    BY <2>2, MovesCollect DEF SMoves
  <2> HIDE DEF z
  <2>4. SMoves(c, z, Pos(r), Ext(c, x))
    <3>1. SMoves(c, e, Pos(r), Ext(c, x))
      BY <1>0, <1>5, <2>2, MovesThen
    <3> QED BY <1>0, <2>3, <3>1, MovesThen
  <2>5. ASSUME w # Failed, x # Failed PROVE CMoves(b, z, 0 - Pos(w), Ext(c, x))
    <3>1. CMoves(b, e, 0 - Pos(w), Ext(c, x))
      BY <1>0, <1>1, <1>3, <2>2, <2>5, MovesThen
    <3> QED BY <1>0, <1>1, <2>3, <3>1, MovesThen
  <2>6. Passed(c, r, w, x, h) = z
    BY <1>7 DEF Passed, d, b, z, e
  <2> QED BY <2>4, <2>5, <2>6 DEF b
<1> QED BY <1>6, <1>7

\* What HandleOpen counts.
LEMMA MovedIs ==
    ASSUME moved \in Counts, NEW r \in Int, NEW w \in Int, NEW x \in Int, NEW p \in Peers, moved' = Moved(p, r, w, x)
    PROVE  /\ moved' \in Counts
           /\ p = "server" => /\ moved'.lossy = moved.lossy
                              /\ moved'.rd["server"] = moved.rd["server"] + Pos(r) /\ moved'.wr["client"] = moved.wr["client"] + 0
                              /\ moved'.erd + moved'.told = (moved.erd + moved.told) + Pos(x) /\ moved'.ewr = moved.ewr + 0
           /\ p = "client" => /\ moved'.lossy = (moved.lossy \/ Failed \in {w, x})
                              /\ moved'.rd["server"] = moved.rd["server"] + 0 /\ moved'.wr["client"] = moved.wr["client"] + Pos(w)
                              /\ moved'.erd + moved'.told = (moved.erd + moved.told) + 0 /\ moved'.ewr = moved.ewr + Pos(x)
<1> DEFINE m == moved
           rd == [m.rd EXCEPT ![p] = IF r > 0 THEN @ + r ELSE @]
           wr == [m.wr EXCEPT ![p] = IF w > 0 THEN @ + w ELSE @]
           erd == IF p = "server" /\ x > 0 THEN m.erd + x ELSE m.erd
           ewr == IF p = "client" /\ x > 0 THEN m.ewr + x ELSE m.ewr
           lossy == m.lossy \/ (p = "client" /\ Failed \in {w, x})
<1>0. m.rd \in [Peers -> Nat] /\ m.wr \in [Peers -> Nat] /\ m.erd \in Nat /\ m.ewr \in Nat /\ m.told \in Nat /\ Pos(x) \in Nat
      /\ "client" \in Peers /\ "server" \in Peers /\ m \in Counts /\ lossy \in BOOLEAN
  BY DEF Counts, Peers, Pos
<1>1. moved' = [m EXCEPT !.rd = rd, !.wr = wr, !.erd = erd, !.ewr = ewr, !.lossy = lossy]
  BY DEF Moved
<1>2. /\ rd \in [Peers -> Nat] /\ wr \in [Peers -> Nat] /\ erd \in Nat /\ ewr \in Nat
  <2>1. \A n \in Nat : (r > 0 => n + r \in Nat) /\ (w > 0 => n + w \in Nat) /\ (x > 0 => n + x \in Nat)
    OBVIOUS
  <2> QED BY <1>0, <2>1
<1>3. \A n \in Nat : /\ (IF r > 0 THEN n + r ELSE n) = n + Pos(r)
                     /\ (IF w > 0 THEN n + w ELSE n) = n + Pos(w)
                     /\ (IF x > 0 THEN n + x ELSE n) = n + Pos(x)
                     /\ n + 0 = n
  BY DEF Pos
<1>4. m.rd["server"] \in Nat /\ m.wr["client"] \in Nat
  BY <1>0
<1>5. /\ p = "server" => /\ rd["server"] = m.rd["server"] + Pos(r) /\ wr["client"] = m.wr["client"] + 0
                         /\ erd = m.erd + Pos(x) /\ ewr = m.ewr + 0
      /\ p = "client" => /\ rd["server"] = m.rd["server"] + 0 /\ wr["client"] = m.wr["client"] + Pos(w)
                         /\ erd = m.erd + 0 /\ ewr = m.ewr + Pos(x)
  <2>1. CASE p = "server"
    <3>1. rd["server"] = (IF r > 0 THEN m.rd["server"] + r ELSE m.rd["server"]) /\ wr["client"] = m.wr["client"]
      BY <1>0, <2>1
    <3>2. erd = (IF x > 0 THEN m.erd + x ELSE m.erd) /\ ewr = m.ewr
      BY <2>1
    <3> QED BY <1>0, <1>3, <1>4, <2>1, <3>1, <3>2
  <2>2. CASE p = "client"
    <3>1. wr["client"] = (IF w > 0 THEN m.wr["client"] + w ELSE m.wr["client"]) /\ rd["server"] = m.rd["server"]
      BY <1>0, <2>2
    <3>2. ewr = (IF x > 0 THEN m.ewr + x ELSE m.ewr) /\ erd = m.erd
      BY <2>2
    <3> QED BY <1>0, <1>3, <1>4, <2>2, <3>1, <3>2
  <2> QED BY <2>1, <2>2 DEF Peers
<1>6. (p = "server" => lossy = m.lossy) /\ (p = "client" => lossy = (m.lossy \/ Failed \in {w, x}))
  <2>1. m.lossy \in BOOLEAN
    BY <1>0 DEF Counts
  <2> QED BY <2>1
<1> HIDE DEF rd, wr, erd, ewr, lossy
<1>7. moved' \in Counts /\ moved'.rd = rd /\ moved'.wr = wr /\ moved'.erd = erd /\ moved'.ewr = ewr /\ moved'.lossy = lossy
      /\ moved'.told = m.told
  BY <1>0, <1>1, <1>2 DEF Counts
<1>8. /\ (erd = m.erd + Pos(x) => erd + m.told = (m.erd + m.told) + Pos(x))
      /\ (erd = m.erd + 0 => erd + m.told = (m.erd + m.told) + 0)
  BY ONLY <1>0, <1>2
<1> QED BY <1>5, <1>6, <1>7, <1>8

\* What a handled channel is, from HandleOpen.
LEMMA HandledOpen ==
    ASSUME IInv, NEW p \in Peers, NEW r \in IOResults, NEW w \in IOResults, NEW x \in IOResults, HandleOpen(p, r, w, x)
    PROVE  /\ r \in Int /\ w \in Int /\ x \in Int /\ w >= Failed /\ x >= Failed
           /\ IOChoice(p, r, w, x) /\ moved' = Moved(p, r, w, x) /\ ch[p].type = "open"
           /\ Step(p, Passed(ch[p], r, w, x, HasChild))
           /\ EfdWrite(ch[p]) => x <= ch[p].extended
           /\ SMoves(ch[p], Passed(ch[p], r, w, x, HasChild), Pos(r), Ext(ch[p], x))
           /\ w # Failed /\ x # Failed =>
                CMoves(channel_pre_open(ch[p]), Passed(ch[p], r, w, x, HasChild), 0 - Pos(w), Ext(ch[p], x))
<1>1. r \in Int /\ w \in Int /\ x \in Int /\ w >= Failed /\ x >= Failed
  BY SizeAssumption DEF IOResults, Failed, Peers
<1>2. /\ IOChoice(p, r, w, x) /\ moved' = Moved(p, r, w, x) /\ ch[p].type = "open"
      /\ Step(p, Passed(ch[p], r, w, x, HasChild))
  BY DEF HandleOpen, Passed, Posted
<1>3. ch[p] \in ChannelRecord
  BY DEF IInv, TypeOK
<1>4. /\ r # 0 => WantRead(ch[p])
      /\ w # 0 => WantWrite(ch[p])
      /\ x # 0 => WantExtended(channel_pre_open(ch[p]))
      /\ w <= ch[p].output
      /\ x > 0 /\ EfdWrite(ch[p]) => x <= ch[p].extended
  BY <1>2 DEF IOChoice
<1>5. EfdWrite(ch[p]) => x <= ch[p].extended
  BY <1>1, <1>3, <1>4 DEF ChannelRecord
<1>6. /\ SMoves(ch[p], Passed(ch[p], r, w, x, HasChild), Pos(r), Ext(ch[p], x))
      /\ w # Failed /\ x # Failed =>
           CMoves(channel_pre_open(ch[p]), Passed(ch[p], r, w, x, HasChild), 0 - Pos(w), Ext(ch[p], x))
  BY <1>1, <1>2, <1>3, <1>4, <1>5, PassMoves
<1> QED BY <1>1, <1>2, <1>5, <1>6

\* What the server reads is in its buffers.
LEMMA OutServerHandles ==
    ASSUME IInv, OutInv, NEW r \in IOResults, NEW w \in IOResults, NEW x \in IOResults, HandleOpen("server", r, w, x)
    PROVE  OutInv'
<1> DEFINE c == ch["client"]
           s == ch["server"]
           z == Passed(s, r, w, x, HasChild)
           m == moved
           n == moved'
<1>0. /\ c \in ChannelRecord /\ s \in ChannelRecord /\ m \in Counts /\ OutTo(c, s, m) /\ "server" \in Peers
      /\ ch \in [Peers -> ChannelRecord] /\ ClientFine(c, c, 0, 0, m.lossy) /\ ServerShape(s)
  BY Ends DEF OutTo
<1>1. /\ r \in Int /\ w \in Int /\ x \in Int /\ IOChoice("server", r, w, x) /\ moved' = Moved("server", r, w, x)
      /\ Step("server", z) /\ SMoves(s, z, Pos(r), Ext(s, x))
  BY <1>0, HandledOpen
<1>2. ch'["client"] = c /\ ch'["server"] = z
  BY <1>0, <1>1 DEF Step, Peers
<1> HIDE DEF z
<1>3. /\ n \in Counts /\ n.lossy = m.lossy
      /\ n.rd["server"] = m.rd["server"] + Pos(r) /\ n.wr["client"] = m.wr["client"] + 0
      /\ n.erd + n.told = (m.erd + m.told) + Pos(x) /\ n.ewr = m.ewr + 0
  BY <1>0, <1>1, MovedIs
<1>4. Pos(r) \in Int /\ Pos(x) \in Int /\ Ext(s, x) \in Int /\ (~(r > 0) => Pos(r) = 0) /\ (~(x > 0) => Pos(x) = 0 /\ Ext(s, x) = 0)
  BY ONLY <1>1, PosExt
<1>5. x > 0 => EfdRead(s) /\ "EOF_SENT" \notin s.flags
  <2> SUFFICES ASSUME x > 0 PROVE EfdRead(s) /\ "EOF_SENT" \notin s.flags
    OBVIOUS
  <2> DEFINE b == channel_pre_open(s)
  <2>1. b.extusage = s.extusage /\ b.flags = s.flags
    BY <1>0, PreMoves
  <2>2. x # 0
    BY <1>1
  <2>3. WantExtended(b)
    BY <1>1, <2>2 DEF IOChoice
  <2> HIDE DEF b
  <2> QED BY <1>0, <2>1, <2>3 DEF WantExtended, EfdRead, EfdWrite, Has, ServerShape
<1>6. Ext(s, x) = Pos(x)
  BY <1>4, <1>5 DEF Ext, EfdRead, EfdWrite
<1>7. r > 0 => s.istate = "open"
  <2>1. r > 0 => r # 0
    BY <1>1
  <2> QED BY <1>1, <2>1 DEF IOChoice, WantRead
<1>8. ServerFine(s, z, Pos(r), Pos(x), n.lossy)
  <2>1. Pos(x) # 0 => EfdRead(s)
    BY <1>4, <1>5
  <2>2. s.istate = "closed" /\ "EOF_SENT" \in s.flags => Pos(r) = 0 /\ Pos(x) = 0
    BY <1>4, <1>5, <1>7
  <2>3. SMoves(s, z, Pos(r), Pos(x))
    BY <1>1, <1>6
  <2>4. ServerFine(s, z, Pos(r), Pos(x), m.lossy)
    BY <1>0, <1>4, <2>1, <2>2, <2>3, FineMoves
  <2> QED BY <1>3, <2>4
<1>9. ClientFine(c, c, 0, 0, n.lossy)
  BY <1>0, <1>3
<1>10. Pos(r) = 0 + 0 + Pos(r) /\ Pos(x) = 0 + 0 + Pos(x) /\ 0 \in Int
  BY ONLY <1>4
<1>11. m.lossy => n.lossy
  BY <1>3
<1> HIDE DEF c, s, m, n
<1>12. OutTo(c, z, n)
  <2> DEFINE i == Pos(r)
             k == Pos(x)
             o == 0
  <2>1. /\ o \in Int /\ i \in Int /\ k \in Int /\ i = o + o + i /\ k = o + o + k
        /\ n.rd["server"] = m.rd["server"] + i /\ n.wr["client"] = m.wr["client"] + o
        /\ n.erd + n.told = (m.erd + m.told) + k /\ n.ewr = m.ewr + o
        /\ ClientFine(c, c, o, o, n.lossy) /\ ServerFine(s, z, i, k, n.lossy)
    BY ONLY <1>3, <1>4, <1>8, <1>9, <1>10
  <2> HIDE DEF i, k, o
  <2>2. c \in ChannelRecord /\ s \in ChannelRecord /\ m \in Counts /\ OutTo(c, s, m) /\ n \in Counts /\ (m.lossy => n.lossy)
    BY ONLY <1>0, <1>3, <1>11
  <2> QED BY ONLY <2>1, <2>2, OutBy
<1> QED BY <1>2, <1>12 DEF OutInv, c, n

\* What the client writes comes from its buffers.
LEMMA OutClientHandles ==
    ASSUME IInv, OutInv, NEW r \in IOResults, NEW w \in IOResults, NEW x \in IOResults, HandleOpen("client", r, w, x)
    PROVE  OutInv'
<1> DEFINE c == ch["client"]
           s == ch["server"]
           b == channel_pre_open(c)
           z == Passed(c, r, w, x, HasChild)
           m == moved
           n == moved'
<1>0. /\ c \in ChannelRecord /\ s \in ChannelRecord /\ m \in Counts /\ OutTo(c, s, m) /\ "client" \in Peers
      /\ ch \in [Peers -> ChannelRecord] /\ ServerFine(s, s, 0, 0, m.lossy) /\ ClientShape(c) /\ (~m.lossy => ClientGood(c))
  BY Ends DEF OutTo
<1>1. /\ r \in Int /\ w \in Int /\ x \in Int /\ IOChoice("client", r, w, x) /\ moved' = Moved("client", r, w, x)
      /\ Step("client", z) /\ SMoves(c, z, Pos(r), Ext(c, x)) /\ (EfdWrite(c) => x <= c.extended) /\ c.type = "open"
      /\ (w # Failed /\ x # Failed => CMoves(b, z, 0 - Pos(w), Ext(c, x)))
  BY <1>0, HandledOpen
<1>2. ch'["client"] = z /\ ch'["server"] = s
  BY <1>0, <1>1 DEF Step, Peers
<1> HIDE DEF z
<1>3. /\ n \in Counts /\ n.lossy = (m.lossy \/ Failed \in {w, x})
      /\ n.rd["server"] = m.rd["server"] + 0 /\ n.wr["client"] = m.wr["client"] + Pos(w)
      /\ n.erd + n.told = (m.erd + m.told) + 0 /\ n.ewr = m.ewr + Pos(x)
  BY <1>0, <1>1, MovedIs
<1>4. /\ Pos(w) \in Int /\ Pos(x) \in Int /\ 0 - Pos(w) \in Int /\ 0 - Pos(x) \in Int /\ Ext(c, x) \in Int
      /\ (~(w > 0) => 0 - Pos(w) = 0) /\ (~(x > 0) => 0 - Pos(x) = 0 /\ Ext(c, x) = 0)
  BY ONLY <1>1, PosExt
<1>5. b \in ChannelRecord /\ b.extusage = c.extusage /\ b.extended = c.extended /\ b.output = c.output
  BY <1>0, PreMoves
<1>6. ~EfdRead(c)
  BY <1>0 DEF ClientShape, EfdRead
<1>7. x > 0 => EfdWrite(c)
  <2> SUFFICES ASSUME x > 0 PROVE EfdWrite(c)
    OBVIOUS
  <2>1. x # 0
    BY <1>1
  <2>2. WantExtended(b)
    BY <1>1, <2>1 DEF IOChoice
  <2> QED BY <1>5, <1>6, <2>2 DEF WantExtended, EfdRead, EfdWrite
<1>8. Ext(c, x) = 0 - Pos(x)
  BY <1>4, <1>7 DEF Ext
<1>9. ClientShape(b) /\ (ClientGood(c) => ClientGood(b))
  <2>1. ClientShape(b)
    BY <1>0, <1>5 DEF ClientShape
  <2>2. ClientGood(c) => ClientGood(b)
    BY <1>0, <1>1, GoodObuf DEF channel_pre_open
  <2> QED BY <2>1, <2>2
<1>10. w <= c.output /\ c.output \in Nat /\ c.extended \in Nat
  BY <1>0, <1>1 DEF IOChoice, ChannelRecord
<1> HIDE DEF b
<1>11. z \in ChannelRecord /\ ClientShape(z)
  <2>1. z \in ChannelRecord /\ z.extusage = c.extusage /\ z.extended = c.extended + Ext(c, x)
    BY <1>1 DEF SMoves
  <2>2. ASSUME ~IsSession PROVE z.extended = 0
    <3>1. c.extended = 0 /\ ~EfdWrite(c)
      BY <1>0, <2>2 DEF ClientShape, EfdWrite
    <3>2. Ext(c, x) = 0
      BY <1>6, <3>1 DEF Ext
    <3> QED BY <2>1, <3>1, <3>2
  <2> QED BY <1>0, <2>1, <2>2 DEF ClientShape
<1>12. ASSUME ~n.lossy PROVE ClientGood(z) /\ z.output = c.output + (0 - Pos(w)) /\ z.extended = c.extended + (0 - Pos(x))
  <2>1. ~m.lossy /\ w # Failed /\ x # Failed
    BY <1>3, <1>12
  <2>2. CMoves(b, z, 0 - Pos(w), 0 - Pos(x))
    BY <1>1, <1>8, <2>1
  <2>3. ClientGood(b)
    BY <1>0, <1>9, <2>1
  <2>4. b.ostate = "closed" => 0 - Pos(w) = 0 /\ 0 - Pos(x) = 0
    <3> SUFFICES ASSUME b.ostate = "closed" PROVE 0 - Pos(w) = 0 /\ 0 - Pos(x) = 0
      OBVIOUS
    <3>1. c.output = 0 /\ c.extended = 0
      BY <1>5, <2>3 DEF ClientGood
    <3>2. ~(w > 0) /\ ~(x > 0)
      BY <1>1, <1>7, <1>10, <3>1
    <3> QED BY <1>4, <3>2
  <2>5. 0 - Pos(x) # 0 => EfdWrite(b)
    BY <1>4, <1>5, <1>7 DEF EfdWrite
  <2>6. ClientGood(z)
    BY <1>4, <1>5, <1>9, <2>2, <2>3, <2>4, <2>5, ClientMoves
  <2> QED BY <1>5, <2>2, <2>6 DEF CMoves
<1>13. ASSUME ~n.lossy PROVE ServerGood(s) /\ Books(z, s, n)
  <2>1. ~m.lossy
    BY <1>3, <1>13
  <2>2. ServerGood(s) /\ Books(c, s, m)
    BY <1>0, <2>1 DEF OutTo
  <2>3. /\ m.rd["server"] = m.wr["client"] + c.output + Stdout(s) /\ m.erd + m.told = m.ewr + c.extended + Stderr(s)
    BY <2>2 DEF Books
  <2>4. /\ m.rd["server"] \in Nat /\ m.wr["client"] \in Nat /\ m.erd + m.told \in Nat /\ m.ewr \in Nat
        /\ Stdout(s) \in Nat /\ Stderr(s) \in Nat
    BY <1>0, Amounts DEF Counts, Peers
  <2>5. z.output = c.output + (0 - Pos(w)) /\ z.extended = c.extended + (0 - Pos(x))
    BY <1>12, <1>13
  <2>6. n.rd["server"] = n.wr["client"] + z.output + Stdout(s)
    BY ONLY <1>3, <1>4, <1>10, <2>3, <2>4, <2>5
  <2>7. n.erd + n.told = n.ewr + z.extended + Stderr(s)
    BY ONLY <1>3, <1>4, <1>10, <2>3, <2>4, <2>5
  <2> QED BY <2>2, <2>6, <2>7 DEF Books
<1>14. OutTo(z, s, n)
  BY <1>0, <1>11, <1>12, <1>13 DEF OutTo
<1> QED BY <1>2, <1>14 DEF OutInv

----------------------------------------------------------------------------
(* Everything the command wrote has reached the client.                    *)

\* Nothing is written yet.
LEMMA OutInit == ASSUME Init PROVE OutInv
<1> DEFINE c == ch["client"]
           s == ch["server"]
           m == moved
<1>0. "client" \in Peers /\ "server" \in Peers /\ WindowMax \in Nat
  BY SizeAssumption DEF Peers
<1>1. c = ClientChannel /\ s = NewChannel("none", 0, "ignore", NoUser)
      /\ m = [rd |-> [p \in Peers |-> 0], wr |-> [p \in Peers |-> 0], erd |-> 0, ewr |-> 0, told |-> 0, exit |-> FALSE, lossy |-> FALSE]
  BY <1>0 DEF Init
<1>2. s.out = <<>> /\ s.extended = 0 /\ s.input = 0 /\ s.istate = "open" /\ s.extusage = "ignore"
  BY <1>1 DEF NewChannel
<1>3. /\ c.out = Append(<<>>, Pkt("OPEN", WindowMax)) /\ c.output = 0 /\ c.extended = 0 /\ c.type = "opening"
      /\ c.ostate = "open" /\ c.extusage = (IF IsSession THEN "write" ELSE "ignore") /\ c.efd = IsSession
  BY <1>1 DEF ClientChannel, NewChannel, Send
<1>4. m.rd["server"] = 0 /\ m.wr["client"] = 0 /\ m.erd = 0 /\ m.ewr = 0 /\ m.told = 0
  BY <1>0, <1>1
<1> HIDE DEF c, s, m
<1>5. NoEow(c.out)
  <2>1. <<>> \in Seq(Packet) /\ Pkt("OPEN", WindowMax) \in Packet /\ Pkt("OPEN", WindowMax).t = "OPEN"
    BY <1>0 DEF Pkt, Packet, PacketTypes
  <2>2. NoEow(<<>>)
    BY DEF NoEow
  <2> QED BY <1>3, <2>1, <2>2, SendBounded
<1>6. ClientShape(c) /\ ClientGood(c)
  BY <1>3, <1>5 DEF ClientShape, ClientGood
<1>7. ServerShape(s) /\ ServerGood(s)
  <2>1. Bounded(<<>>)
    BY DEF Bounded
  <2> QED BY <1>2, <2>1 DEF ServerShape, ServerGood
<1>8. Stdout(s) = 0 /\ Stderr(s) = 0
  BY <1>2, CarriedEmpty DEF Stdout, Stderr
<1>9. Books(c, s, m)
  BY <1>3, <1>4, <1>8 DEF Books
<1> QED BY <1>6, <1>7, <1>9 DEF OutInv, OutTo, c, s, m

\* Every step keeps the books.
LEMMA OutKeeps ==
    ASSUME IInv, FlowInv, OutInv, [Next]_vars
    PROVE  OutInv'
<1>1. CASE UNCHANGED vars
  BY <1>1 DEF vars, OutInv
<1>2. CASE DispatchClient
  BY <1>2, OutClientDispatch, OutExtended, OutAnswers, OutClientReplies DEF DispatchClient
<1>3. CASE DispatchServer
  BY <1>3, OutServerDispatch, OutServerOpen, OutX11, OutExec DEF DispatchServer
<1>4. ASSUME NEW p \in Peers, \/ ChannelOutputPoll(p)
                              \/ \E r, w, x \in IOResults : HandleOpen(p, r, w, x)
                              \/ HandleOther(p)
                              \/ HandleExpired(p)
      PROVE  OutInv'
  <2>1. CASE ChannelOutputPoll(p)
    BY <2>1, OutPoll
  <2>2. CASE \E r, w, x \in IOResults : HandleOpen(p, r, w, x)
    BY <2>2, OutServerHandles, OutClientHandles DEF Peers
  <2>3. CASE HandleOther(p) \/ HandleExpired(p)
    BY <2>3, OutLocal
  <2> QED BY <1>4, <2>1, <2>2, <2>3
<1>5. CASE HandleConnecting
  BY <1>5, OutConnecting
<1>6. CASE ChildExit \/ CollectChildren
  BY <1>6, OutChild
<1>7. CASE MuxClientGone
  BY <1>7, OutLocal DEF Peers
<1> QED BY <1>1, <1>2, <1>3, <1>4, <1>5, <1>6, <1>7 DEF Next

\* A client that has closed its output has all of it: the server's EOF or
\* CLOSE came after the last data, and was sent with its buffers empty.
LEMMA AllWritten ==
    ASSUME IInv, OutInv, ~moved.lossy, ch["client"].ostate = "closed"
    PROVE  moved.wr["client"] = moved.rd["server"] /\ moved.ewr = moved.erd + moved.told
<1> DEFINE c == ch["client"]
           s == ch["server"]
<1>0. c \in ChannelRecord /\ s \in ChannelRecord /\ moved \in Counts /\ Other("client") = "server" /\ "client" \in Peers /\ "server" \in Peers
      /\ Other("server") = "client"
  BY Ends
<1>1. ClientGood(c) /\ ServerGood(s) /\ Books(c, s, moved)
  BY DEF OutInv, OutTo
<1>2. LinkOK(s, c) /\ Sane(s)
  BY <1>0 DEF IInv
<1>3. c.output = 0 /\ c.extended = 0 /\ c.flags \cap {"EOF_RCVD", "CLOSE_RCVD"} # {}
  BY <1>1 DEF ClientGood
<1>4. s.istate = "closed" /\ NoData(s.out)
  <2>1. CASE "CLOSE_RCVD" \in c.flags
    <3>1. "CLOSE_SENT" \in s.flags /\ s.out = <<>>
      BY <1>2, <2>1 DEF LinkOK
    <3>2. NoData(<<>>)
      BY DEF NoData
    <3> QED BY <1>2, <3>1, <3>2 DEF Sane
  <2>2. CASE "EOF_RCVD" \in c.flags
    BY <1>2, <2>2 DEF LinkOK, Sane
  <2> QED BY <1>3, <2>1, <2>2
<1>5. s.input = 0 /\ s.extended = 0
  BY <1>1, <1>4 DEF ServerGood
<1>6. Carried(s.out, {"DATA"}) = 0 /\ Carried(s.out, {"EXT"}) = 0
  <2>1. s.out \in Seq(Packet)
    BY <1>0 DEF ChannelRecord
  <2>2. \A i \in 1..Len(s.out) : s.out[i].t \notin {"DATA"} /\ s.out[i].t \notin {"EXT"}
    BY <1>4 DEF NoData, DataTypes
  <2> QED BY <2>1, <2>2, CarriedNone
<1>7. Stdout(s) = 0 /\ Stderr(s) = 0
  BY <1>5, <1>6 DEF Stdout, Stderr
<1>8. moved.wr["client"] \in Nat /\ moved.ewr \in Nat
  BY <1>0 DEF Counts
<1>9. moved.rd["server"] = moved.wr["client"] + 0 + 0 /\ moved.erd + moved.told = moved.ewr + 0 + 0
  BY <1>1, <1>3, <1>7 DEF Books
<1> QED BY ONLY <1>8, <1>9

\* A client that freed its channel closed its output, or never had any.
LEMMA OutGoal == ASSUME IInv, FlowInv, OutInv PROVE OutputComplete
<1> SUFFICES ASSUME ~moved.lossy, ch["client"].type = "freed", ch["client"].ostate # "closed"
             PROVE  moved.ewr = moved.erd + moved.told
  BY AllWritten DEF OutputComplete
<1> DEFINE c == ch["client"]
           s == ch["server"]
<1>0. c \in ChannelRecord /\ s \in ChannelRecord /\ moved \in Counts /\ "client" \in Peers /\ "server" \in Peers
  BY Ends
<1>1. Books(c, s, moved)
  BY DEF OutInv, OutTo
<1>2. Sane(c) /\ Phase(c, s) /\ Blank(c) /\ Blank(s)
  BY <1>0, FlowWithin DEF IInv
<1>3. Refused(c, s)
  <2>1. ~Established(c, s)
    BY <1>2 DEF Established, BothClosed, Sane
  <2> QED BY <1>2, <2>1 DEF Phase, Asked, Dialing, Confirming
<1>4. Unused(c) /\ Unused(s) /\ s.out = <<>>
  BY <1>3 DEF Refused, Unused, FreshTypes
<1>5. c.extended = 0 /\ s.extended = 0
  BY <1>2, <1>4 DEF Blank
<1>6. Stderr(s) = 0
  BY <1>4, <1>5, CarriedEmpty DEF Stderr
<1>7. moved.erd + moved.told = moved.ewr + 0 + 0 /\ moved.ewr \in Nat
  BY <1>0, <1>1, <1>5, <1>6 DEF Books, Counts
<1> QED BY ONLY <1>7

\* Everything the command wrote reaches the client's stdout and stderr:
\* chan_ibuf_empty sends EOF only when both buffers of the server are empty,
\* channel_output_poll sends no data after it, and chan_obuf_empty lets the
\* client close only when it has written all it got, stderr too.  So no order
\* of EOF, CLOSE, window updates and the child's exit loses a byte, unless
\* the client's own side gave up.
THEOREM OutputIsComplete == Spec => []OutputComplete
<1>1. Init => FlowInv /\ OutInv
  BY FlowInit, OutInit
<1>2. IInv /\ FlowInv /\ OutInv /\ [Next]_vars => FlowInv' /\ OutInv'
  BY FlowKeeps, OutKeeps
<1>3. IInv /\ FlowInv /\ OutInv => OutputComplete
  BY OutGoal
<1> QED BY <1>1, <1>2, <1>3, Invariant, PTL DEF Spec
============================================================================
