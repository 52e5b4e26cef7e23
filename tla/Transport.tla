------------------------------ MODULE Transport ------------------------------
(***************************************************************************)
(* The binary packet protocol of both ends of a connection (packet.c) with *)
(* the key exchange that runs inside it (kex.c, kexgen.c, kexgexc.c,       *)
(* kexgexs.c, dispatch.c): the first exchange, user authentication as far  *)
(* as the transport notices it, the hand-over of the packet state from     *)
(* sshd-auth to sshd-session, and rekeying that either end may start       *)
(* because of volume, time or ~R.  Every packet counts as one block.  A    *)
(* key is named by the two KEXINITs it was derived from, since the         *)
(* exchange hash covers both cookies.                                      *)
(***************************************************************************)
EXTENDS Integers, Sequences, SequencesExt

CONSTANTS Options  \* what the two proposals may agree on, the limits, and bounds of the environment

\* Sequence numbers outlast the first exchange, and the limit before
\* authentication leaves room for every attempt.
ASSUME OptionAssumption ==
    \A o \in Options :
        /\ {o.strict, o.gex, o.delayed} \subseteq BOOLEAN
        /\ {o.tries, o.seq_wrap, o.hard_blocks} \subseteq Nat
        /\ o.seq_wrap >= 8 /\ o.hard_blocks >= o.tries + 10

VARIABLES opt,    \* the member of Options this connection has
          end,    \* [End -> struct ssh]: state, kex, dispatch table and what it wrote
          taken,  \* number of the last application message each end has read
          made    \* [End -> how many messages of each kind the environment caused]

vars == <<opt, end, taken, made>>

Strict == opt.strict            \* both proposals name kex-strict-?-v00@openssh.com
GroupExchange == opt.gex        \* the method agreed on is diffie-hellman-group-exchange
Delayed == opt.delayed          \* compression zlib@openssh.com was agreed on
MaxBlocks == opt.max_blocks     \* max_blocks_in and max_blocks_out (RekeyLimit)
BlockSize == opt.block_size     \* bytes per block: the unit of a packet about to be sent
HardBlocks == opt.hard_blocks   \* the limit before authentication
SeqWrap == opt.seq_wrap         \* sequence numbers are modulo 2^32
MaxData(e) == opt.data[e]
MaxCtl(e) == opt.ctl[e]
MaxTries == opt.tries
MaxDue(e) == opt.due[e]

End == {"client", "server"}
Peer(e) == IF e = "client" THEN "server" ELSE "client"
Mode == {"in", "out"}

NoKey == <<0, 0>>

MethodType == {"GEX_REQUEST", "GEX_GROUP", "INIT", "REPLY"}
TransportType == MethodType \cup {"KEXINIT", "NEWKEYS", "SERVICE_REQUEST", "SERVICE_ACCEPT", "EXT_INFO"}
AuthType == {"USERAUTH_REQUEST", "USERAUTH_FAILURE", "USERAUTH_SUCCESS"}
AppType == {"DATA", "CTL"}
PacketType == TransportType \cup AuthType \cup AppType

ssh_packet_type_is_kex(t) == t \in TransportType \ {"SERVICE_REQUEST", "SERVICE_ACCEPT", "EXT_INFO"}

ssh_packet_is_rekeying(r) == r.rekeying \/ ~r.done

\* len is 0 or 1 block; a packet about to be sent is counted in bytes.
ssh_packet_check_rekey_blocklimit(r, len) ==
    \/ r.blocks["out"] + len * BlockSize > MaxBlocks
    \/ r.blocks["in"] > MaxBlocks

NeverNeedRekeying(r, len) == FALSE

ssh_packet_need_rekeying(r, len) ==
    /\ r.authed
    /\ ~ssh_packet_is_rekeying(r)
    /\ r.blocks["out"] # 0 \/ r.blocks["in"] # 0
    /\ r.due \/ ssh_packet_check_rekey_blocklimit(r, len)

ssh_packet_check_rekey_preauth(r) ==
    ~r.authed /\ \E m \in Mode : r.blocks[m] > HardBlocks

Fault(r, what) == [r EXCEPT !.fault = what]

\* A compression context is off, new (nothing went through it) or used.
StartCompression(r, modes) ==
    [r EXCEPT !.comp = [m \in Mode |-> IF m \in modes /\ Delayed THEN "new" ELSE r.comp[m]]]

ssh_set_newkeys(r, mode) ==
    IF r.newkeys[mode] = NoKey THEN Fault(r, "internal error")
    ELSE LET installed == [r EXCEPT !.key[mode] = r.newkeys[mode], !.newkeys[mode] = NoKey,
                                    !.blocks[mode] = 0, !.comp[mode] = "off",
                                    !.vol = IF mode = "out" THEN [all |-> 0, app |-> 0] ELSE @]
         IN  IF r.authed THEN StartCompression(installed, {mode}) ELSE installed

ssh_packet_enable_delayed_compress(r) ==
    StartCompression([r EXCEPT !.authed = TRUE],
                     {m \in Mode : r.key[m] # NoKey /\ r.comp[m] = "off"})

\* kex_gen_hash: both ends put the client's KEXINIT first.
ExchangeHash(r) == IF r.server THEN <<r.peer, r.my>> ELSE <<r.my, r.peer>>

Used(c) == IF c = "new" THEN "used" ELSE c

\* A sequence number may not wrap before the first keys are in place.
Wrapped(r, mode) == r.seq[mode] = SeqWrap - 1 /\ "INITIAL" \in r.flags

ssh_packet_send2_wrapped(r, t, n) ==
    LET pk == [type |-> t, n |-> n, hash |-> IF t = "REPLY" THEN ExchangeHash(r) ELSE NoKey, key |-> r.key["out"], seq |-> r.seq["out"], comp |-> r.comp["out"]]
        sent == [r EXCEPT !.wire = Append(@, pk),
                          !.seq["out"] = IF t = "NEWKEYS" /\ r.strict THEN 0 ELSE (@ + 1) % SeqWrap,
                          !.blocks["out"] = @ + 1, !.comp["out"] = Used(@),
                          !.vol = [all |-> @.all + 1,
                                   app |-> IF t \in AppType THEN @.app + 1 ELSE @.app]]
    IN  IF Wrapped(r, "out") THEN Fault(r, "wrapped during initial key exchange")
        ELSE IF t = "NEWKEYS" THEN ssh_set_newkeys(sent, "out")
        ELSE IF t = "USERAUTH_SUCCESS" THEN ssh_packet_enable_delayed_compress(sent)
        ELSE sent

ReversedFlush(r) ==
    LET step(p, s) == [ssh_packet_send2_wrapped(s, p.type, p.n) EXCEPT !.queue = Tail(@)]
    IN  FoldRight(step, r.queue, r)

\* What was held back goes out, in order, once NEWKEYS has been sent.  The
\* code means to stop at a packet that needs another exchange, but kex->done
\* is still 0 here, so ssh_packet_need_rekeying never holds.
Flush(r) ==
    LET step(s, p) == IF s.queue # <<>> /\ ssh_packet_need_rekeying(s, 1) THEN s
                      ELSE [ssh_packet_send2_wrapped(s, p.type, p.n) EXCEPT !.queue = Tail(@)]
        after[i \in 0 .. Len(r.queue)] == IF i = 0 THEN r ELSE step(after[i - 1], r.queue[i])
    IN  after[Len(r.queue)]

\* kex_send_kexinit, and ssh_packet_send2 of the KEXINIT it makes.
kex_send_kexinit(r) ==
    IF "INIT_SENT" \in r.flags THEN r
    ELSE [ssh_packet_send2_wrapped([r EXCEPT !.done = FALSE, !.my = @ + 1, !.rekeying = TRUE],
                                   "KEXINIT", r.my + 1)
          EXCEPT !.flags = @ \cup {"INIT_SENT"}]

kex_start_rekex(r) ==
    IF ~r.done THEN Fault(r, "requested twice") ELSE kex_send_kexinit([r EXCEPT !.done = FALSE])

HeldBackUnlessDone(r, t) ==
    ~ssh_packet_type_is_kex(t) /\ (~r.done \/ ssh_packet_need_rekeying(r, 1))

HeldBack(r, t) ==
    ~ssh_packet_type_is_kex(t) /\ (r.rekeying \/ ssh_packet_need_rekeying(r, 1))
ssh_packet_send2(r, t, n) ==
    IF ~r.rekeying /\ ~ssh_packet_type_is_kex(t) /\ ssh_packet_check_rekey_preauth(r)
    THEN Fault(r, "RekeyLimit exceeded before authentication completed")
    ELSE IF HeldBack(r, t)
    THEN LET q == [r EXCEPT !.queue = Append(@, [type |-> t, n |-> n])]
         IN  IF ssh_packet_need_rekeying(r, 1) THEN kex_start_rekex(q) ELSE q
    ELSE LET sent == ssh_packet_send2_wrapped(r, t, n)
         IN  IF t = "NEWKEYS" THEN Flush([sent EXCEPT !.rekeying = FALSE, !.due = FALSE]) ELSE sent

ssh_packet_check_rekey(r) ==
    IF ssh_packet_check_rekey_preauth(r)
    THEN Fault(r, "RekeyLimit exceeded before authentication completed")
    ELSE IF ssh_packet_need_rekeying(r, 0) THEN kex_start_rekex(r) ELSE r

Expect(r, types) == [r EXCEPT !.dispatch = @ \cup types]
Refuse(r, types) == [r EXCEPT !.dispatch = @ \ types]

-----------------------------------------------------------------------------
(* The key exchange *)

kex_derive_keys(r) == [r EXCEPT !.newkeys = [m \in Mode |-> ExchangeHash(r)]]

kex_maybe_send_ext_info(r) ==
    IF "INITIAL" \in r.flags THEN ssh_packet_send2(r, "EXT_INFO", 0) ELSE r

kex_send_newkeys(r) ==
    kex_maybe_send_ext_info(
        Expect(ssh_packet_send2(Refuse(r, TransportType), "NEWKEYS", 0), {"NEWKEYS"}))

kex_gen_client(r) == Expect(ssh_packet_send2(r, "INIT", 0), {"REPLY"})
kex_gen_server(r) == Expect(r, {"INIT"})
kexgex_client(r) == Expect(ssh_packet_send2(r, "GEX_REQUEST", 0), {"GEX_GROUP"})
kexgex_server(r) == Expect(r, {"GEX_REQUEST"})

\* The entry of kex->kex[] for the method agreed on.
StartMethod(r) ==
    CASE r.server /\ GroupExchange   -> kexgex_server(r)
      [] r.server /\ ~GroupExchange  -> kex_gen_server(r)
      [] ~r.server /\ GroupExchange  -> kexgex_client(r)
      [] ~r.server /\ ~GroupExchange -> kex_gen_client(r)

kex_choose_conf(r, seq) ==
    IF "INITIAL" \notin r.flags THEN r
    ELSE IF Strict /\ seq # 0 THEN Fault(r, "KEXINIT was not the first packet")
    ELSE [r EXCEPT !.strict = Strict]

kex_input_kexinit(r, pk) ==
    IF "INIT_RECVD" \in r.flags THEN Fault(r, "multiple KEXINIT received from peer")
    ELSE StartMethod(kex_choose_conf(
             kex_send_kexinit(Refuse([r EXCEPT !.flags = @ \cup {"INIT_RECVD"}, !.peer = pk.n], {"KEXINIT"})),
             pk.seq))

input_kex_dh_gex_request(r) == Expect(ssh_packet_send2(Refuse(r, {"GEX_REQUEST"}), "GEX_GROUP", 0), {"INIT"})
input_kex_dh_gex_group(r) == Expect(ssh_packet_send2(Refuse(r, {"GEX_GROUP"}), "INIT", 0), {"REPLY"})

\* Also input_kex_dh_gex_init: the reply carries the signed hash.
input_kex_gen_init(r) ==
    kex_send_newkeys(kex_derive_keys(ssh_packet_send2(Refuse(r, {"INIT"}), "REPLY", 0)))

\* Also input_kex_dh_gex_reply: the hash is computed again and compared.
input_kex_gen_reply(r, pk) ==
    IF pk.hash = ExchangeHash(r) THEN kex_send_newkeys(kex_derive_keys(Refuse(r, {"REPLY"})))
    ELSE Fault(r, "signature")

KeepRecvd(r) ==
    LET s == ssh_set_newkeys(Expect(Refuse(r, {"NEWKEYS"}), {"KEXINIT"}), "in")
    IN  [s EXCEPT !.done = TRUE, !.flags = @ \ {"INITIAL", "INIT_SENT"}]

KeepSent(r) ==
    LET s == ssh_set_newkeys(Expect(Refuse(r, {"NEWKEYS"}), {"KEXINIT"}), "in")
    IN  [s EXCEPT !.done = TRUE, !.flags = @ \ {"INITIAL", "INIT_RECVD"}]

kex_input_newkeys(r) ==
    LET s == ssh_set_newkeys(Expect(Refuse(r, {"NEWKEYS"}), {"KEXINIT"}), "in")
    IN  [s EXCEPT !.done = TRUE, !.flags = @ \ {"INITIAL", "INIT_SENT", "INIT_RECVD"}]

-----------------------------------------------------------------------------
(* Authentication, as the transport sees it *)

\* ssh_userauth2 and do_authentication2: a new dispatch table once the first
\* exchange is done.
StartAuth(r) ==
    IF r.server THEN [r EXCEPT !.dispatch = {"EXT_INFO", "SERVICE_REQUEST"}]
    ELSE [ssh_packet_send2(r, "SERVICE_REQUEST", 0) EXCEPT !.dispatch = {"EXT_INFO", "SERVICE_ACCEPT"}]

MaxExtInfo(r) == IF r.server THEN 1 ELSE 2

kex_input_ext_info(r) ==
    IF r.ext = MaxExtInfo(r) THEN Fault(r, "too many SSH2_MSG_EXT_INFO messages")
    ELSE Refuse([r EXCEPT !.ext = @ + 1,
                          !.flags = IF r.server THEN @ \cup {"HAS_EXT_INFO_IN_AUTH"} ELSE @], {"EXT_INFO"})

\* client_init_dispatch and server_init_dispatch
InitDispatch(r) == [r EXCEPT !.dispatch = AppType \cup {"KEXINIT"}]

input_service_request(r) ==
    Refuse(ssh_packet_send2(Expect(r, {"USERAUTH_REQUEST"}), "SERVICE_ACCEPT", 0), {"EXT_INFO"})

input_userauth_service_accept(r) ==
    Expect(ssh_packet_send2(r, "USERAUTH_REQUEST", 0), {"EXT_INFO", "USERAUTH_SUCCESS", "USERAUTH_FAILURE"})

\* The first request is answered by a second EXT_INFO, before its result.
input_userauth_request(r, ok) ==
    LET first == "attempted" \notin r.flags
        q == [r EXCEPT !.flags = @ \cup {"attempted"}]
        s == IF first /\ "HAS_EXT_INFO_IN_AUTH" \in r.flags THEN ssh_packet_send2(q, "EXT_INFO", 0) ELSE q
    IN  IF ok THEN [ssh_packet_send2(s, "USERAUTH_SUCCESS", 0) EXCEPT !.handover = TRUE]
        ELSE ssh_packet_send2(s, "USERAUTH_FAILURE", 0)

\* ssh_packet_get_state in sshd-auth, ssh_packet_set_state in sshd-session:
\* what the blob carries survives; keys are set again, which zeroes the
\* counters and starts compression afresh.
ssh_packet_set_state(r) ==
    LET keys == [m \in Mode |-> r.key[m]]
        bare == [r EXCEPT !.done = TRUE, !.rekeying = FALSE, !.queue = <<>>, !.due = FALSE,
                          !.authed = FALSE, !.newkeys = keys]
        vol == r.vol
        set == ssh_set_newkeys(ssh_set_newkeys(bare, "in"), "out")
    IN  InitDispatch([ssh_packet_enable_delayed_compress(set) EXCEPT !.vol = vol, !.handover = FALSE])

-----------------------------------------------------------------------------
(* Reading a packet *)

Readable(r, pk) == pk.key = r.key["in"] /\ pk.seq = r.seq["in"] /\ pk.comp = r.comp["in"]

ssh_packet_read_poll2(r, pk) ==
    LET read == [r EXCEPT !.seq["in"] = IF pk.type = "NEWKEYS" /\ r.strict THEN 0 ELSE (@ + 1) % SeqWrap,
                          !.blocks["in"] = @ + 1, !.comp["in"] = Used(@)]
    IN  IF ~Readable(r, pk) THEN Fault(r, "Corrupted MAC on input")
        ELSE IF Wrapped(r, "in") THEN Fault(r, "wrapped during initial key exchange")
        ELSE ssh_packet_check_rekey(
                 IF pk.type = "USERAUTH_SUCCESS" THEN ssh_packet_enable_delayed_compress(read) ELSE read)

Handle(r, pk, ok) ==
    CASE pk.type = "KEXINIT"          -> kex_input_kexinit(r, pk)
      [] pk.type = "GEX_REQUEST"      -> input_kex_dh_gex_request(r)
      [] pk.type = "GEX_GROUP"        -> input_kex_dh_gex_group(r)
      [] pk.type = "INIT"             -> input_kex_gen_init(r)
      [] pk.type = "REPLY"            -> input_kex_gen_reply(r, pk)
      [] pk.type = "NEWKEYS"          -> IF "INITIAL" \in r.flags THEN StartAuth(kex_input_newkeys(r))
                                         ELSE kex_input_newkeys(r)
      [] pk.type = "EXT_INFO"         -> kex_input_ext_info(r)
      [] pk.type = "SERVICE_REQUEST"  -> input_service_request(r)
      [] pk.type = "SERVICE_ACCEPT"   -> input_userauth_service_accept(r)
      [] pk.type = "USERAUTH_REQUEST" -> input_userauth_request(r, ok)
      [] pk.type = "USERAUTH_FAILURE" -> ssh_packet_send2(r, "USERAUTH_REQUEST", 0)
      [] pk.type = "USERAUTH_SUCCESS" -> InitDispatch(r)
      [] pk.type \in AppType          -> r

\* ssh_packet_read_poll_seqnr and ssh_dispatch_run
Dispatch(r, pk, ok) ==
    LET read == ssh_packet_read_poll2(r, pk)
    IN  IF read.fault # "none" THEN read
        ELSE IF "INIT_RECVD" \in read.flags /\ ~ssh_packet_type_is_kex(pk.type)
        THEN Fault(read, "non-transport message during key exchange")
        ELSE IF pk.type \notin read.dispatch THEN Fault(read, "protocol error")
        ELSE Handle(read, pk, ok)

-----------------------------------------------------------------------------
Fresh(server) ==
    [server |-> server, rekeying |-> FALSE, done |-> FALSE, flags |-> {"INITIAL"},
     strict |-> FALSE, my |-> 0, peer |-> 0, authed |-> FALSE, handover |-> FALSE, ext |-> 0,
     key |-> [m \in Mode |-> NoKey], newkeys |-> [m \in Mode |-> NoKey],
     seq |-> [m \in Mode |-> 0], blocks |-> [m \in Mode |-> 0], comp |-> [m \in Mode |-> "off"],
     vol |-> [all |-> 0, app |-> 0], due |-> FALSE,
     dispatch |-> {"KEXINIT"}, queue |-> <<>>, wire |-> <<>>, fault |-> "none"]

\* kex_setup at both ends
Init ==
    /\ opt \in Options
    /\ end = [e \in End |-> kex_send_kexinit(Fresh(e = "server"))]
    /\ taken = [e \in End |-> 0]
    /\ made = [e \in End |-> [app |-> 0, ctl |-> 0, due |-> 0, tries |-> 0]]

\* An end that runs its loop: no fault, not between two processes.
Running(e) == end[e].fault = "none" /\ ~end[e].handover

\* The next packet is read and handled; a server may refuse a user MaxTries times.
Receive(e) ==
    /\ Running(e)
    /\ end[Peer(e)].wire # <<>>
    /\ LET pk == Head(end[Peer(e)].wire)
           sent == [end EXCEPT ![Peer(e)].wire = Tail(@)]
       IN  \E ok \in IF pk.type = "USERAUTH_REQUEST" /\ made[e].tries < MaxTries THEN BOOLEAN ELSE {TRUE} :
             /\ end' = [sent EXCEPT ![e] = Dispatch(sent[e], pk, ok)]
             /\ made' = IF ok THEN made ELSE [made EXCEPT ![e].tries = @ + 1]
             /\ taken' = IF pk.type \in AppType THEN [taken EXCEPT ![e] = pk.n] ELSE taken
    /\ UNCHANGED opt

InLoop(e) == Running(e) /\ "DATA" \in end[e].dispatch

\* channel_output_poll, which the loops call only outside a key exchange.
SendData(e) ==
    /\ InLoop(e) /\ ~ssh_packet_is_rekeying(end[e])
    /\ made[e].app - made[e].ctl < MaxData(e)
    /\ end' = [end EXCEPT ![e] = ssh_packet_send2(@, "DATA", made[e].app + 1)]
    /\ made' = [made EXCEPT ![e].app = @ + 1]
    /\ UNCHANGED <<opt, taken>>

\* Everything else that is sent: window adjustments, requests and replies, EOF, CLOSE.
SendCtl(e) ==
    /\ InLoop(e) /\ made[e].ctl < MaxCtl(e)
    /\ end' = [end EXCEPT ![e] = ssh_packet_send2(@, "CTL", made[e].app + 1)]
    /\ made' = [made EXCEPT ![e].app = @ + 1, ![e].ctl = @ + 1]
    /\ UNCHANGED <<opt, taken>>

\* The rekey interval runs out.
Due(e) ==
    /\ InLoop(e) /\ ~end[e].due /\ made[e].due < MaxDue(e)
    /\ end' = [end EXCEPT ![e].due = TRUE]
    /\ made' = [made EXCEPT ![e].due = @ + 1]
    /\ UNCHANGED <<opt, taken>>

\* The check each pass of client_loop and server_loop2 makes.
CheckRekey(e) ==
    /\ InLoop(e) /\ ssh_packet_need_rekeying(end[e], 0)
    /\ end' = [end EXCEPT ![e] = ssh_packet_check_rekey(@)]
    /\ UNCHANGED <<opt, taken, made>>

\* ~R typed at the client.
ManualRekey ==
    /\ InLoop("client") /\ ~ssh_packet_is_rekeying(end["client"])
    /\ made["client"].due < MaxDue("client")
    /\ end' = [end EXCEPT !["client"] = kex_start_rekex(@)]
    /\ made' = [made EXCEPT !["client"].due = @ + 1]
    /\ UNCHANGED <<opt, taken>>

HandOver ==
    /\ end["server"].handover /\ end["server"].fault = "none"
    /\ end' = [end EXCEPT !["server"] = ssh_packet_set_state(@)]
    /\ UNCHANGED <<opt, taken, made>>

Next == \/ \E e \in End : Receive(e) \/ SendData(e) \/ SendCtl(e) \/ Due(e) \/ CheckRekey(e)
        \/ ManualRekey
        \/ HandOver

\* Weak fairness, with the enabling conditions written out: an end that can
\* read does not wait for ever to do so, since both loops read the connection
\* on every pass, and they make the check as often.
Fairness ==
    /\ \A e \in End :
         /\ []<>(~Running(e) \/ end[Peer(e)].wire = <<>>) \/ []<><<Receive(e)>>_vars
         /\ []<>~(InLoop(e) /\ ssh_packet_need_rekeying(end[e], 0)) \/ []<><<CheckRekey(e)>>_vars
    /\ WF_vars(HandOver)

Spec == Init /\ [][Next]_vars /\ Fairness

-----------------------------------------------------------------------------
Packet == [type : PacketType, n : Nat, hash : Nat \X Nat, key : Nat \X Nat,
           seq : 0 .. SeqWrap - 1, comp : {"off", "new", "used"}]

TypeOK ==
    /\ opt \in Options /\ taken \in [End -> Nat]
    /\ \A e \in End :
         LET r == end[e]
         IN  /\ r.flags \subseteq {"INITIAL", "INIT_SENT", "INIT_RECVD", "HAS_EXT_INFO_IN_AUTH", "attempted"}
             /\ r.key \in [Mode -> Nat \X Nat] /\ r.newkeys \in [Mode -> Nat \X Nat]
             /\ r.seq \in [Mode -> 0 .. SeqWrap - 1] /\ r.blocks \in [Mode -> Nat]
             /\ r.comp \in [Mode -> {"off", "new", "used"}]
             /\ r.dispatch \subseteq PacketType
             /\ \A i \in DOMAIN r.wire : r.wire[i] \in Packet
             /\ \A i \in DOMAIN r.queue : r.queue[i] \in [type : PacketType, n : Nat]

\* No end ever meets a packet it cannot decrypt or decompress or does not
\* expect, asks for an exchange while one is under way, or installs keys it
\* has not derived, whichever ends start whichever exchanges when.
NoFault == \A e \in End : end[e].fault = "none"

\* One key never encrypts two packets with the same sequence number, although
\* numbers wrap around and restart under strict KEX (the last packet under a
\* key is a NEWKEYS that vol no longer counts).
NonceFresh == \A e \in End : end[e].key["out"] # NoKey => end[e].vol.all < SeqWrap

\* The pending application messages of e: written and not read, then held back.
Pending(e) ==
    LET numbers(s) == LET a == SelectSeq(s, LAMBDA p : p.type \in AppType)
                      IN  [i \in DOMAIN a |-> a[i].n]
    IN  numbers(end[e].wire) \o numbers(end[e].queue)

\* Over all exchanges, what applications see of a connection is a FIFO in each
\* direction: nothing held back is lost, repeated or overtaken.
Link == INSTANCE MessageLink WITH pending <- [e \in End |-> Pending(e)], taken <- taken
FifoLink == Link!Spec

\* Every exchange ends, at both ends, also when limits are so small that one
\* packet is enough to start the next.
ExchangesEnd == \A e \in End : ~end[e].done ~> end[e].done

\* Whatever an application sends arrives, however often the ends rekey.
AllDelivered == \A e \in End : Pending(e) # <<>> ~> Pending(e) = <<>>
=============================================================================
