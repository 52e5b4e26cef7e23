-------------------------- MODULE TransportProofs --------------------------
(***************************************************************************)
(* Proofs about Transport, for any options, limits, number of exchanges    *)
(* and order in which the two ends run: neither ever meets a fault.        *)
(*                                                                         *)
(* A position says where one direction of the connection is: between which *)
(* packets, in which exchange, and with which sequence number, compression *)
(* and key the next packet goes.  May says what an end may send there and  *)
(* After where that leads, so that what is on the wire is a Path from the  *)
(* position the receiver has read up to, to the one the sender has written *)
(* up to.  The invariant (Both) relates the two positions of either end to *)
(* its state (Local): how far one direction of an exchange may be ahead of *)
(* the other, which keys wait to be installed, which packets the dispatch  *)
(* table has, and, before a user is accepted, how much was written in      *)
(* answer to what was read.  Between the server's sending USERAUTH_SUCCESS *)
(* and the client's reading it the ends disagree on where the client's     *)
(* packets are (Awaiting).                                                 *)
(***************************************************************************)
EXTENDS Transport, SequenceTheorems, WellFoundedInduction, TLAPS

Flag == {"INITIAL", "INIT_SENT", "INIT_RECVD", "HAS_EXT_INFO_IN_AUTH", "attempted"}
Sequenced(o) == 0..o.seq_wrap - 1
Message(o) == [type : PacketType, n : Nat, hash : Nat \X Nat, key : Nat \X Nat,
               seq : Sequenced(o), comp : {"off", "new", "used"}]
Item == [type : PacketType, n : Nat]

\* struct ssh, as long as nothing went wrong
Ssh(o) ==
    [server : BOOLEAN, rekeying : BOOLEAN, done : BOOLEAN, flags : SUBSET Flag,
     strict : BOOLEAN, my : Nat, peer : Nat, authed : BOOLEAN, handover : BOOLEAN, ext : Nat,
     key : [Mode -> Nat \X Nat], newkeys : [Mode -> Nat \X Nat],
     seq : [Mode -> Sequenced(o)], blocks : [Mode -> Nat], comp : [Mode -> {"off", "new", "used"}],
     vol : [all : Nat, app : Nat], due : BOOLEAN,
     dispatch : SUBSET PacketType, queue : Seq(Item), wire : Seq(Message(o)), fault : {"none"}]

----------------------------------------------------------------------------
(* Positions in a stream of packets.                                       *)

\* Where a sender or a receiver is in the packets of one direction: between
\* which packets of an exchange, of the authentication or after it; in which
\* exchange; how many packets there were up to the authentication; and what
\* the next packet is numbered and compressed with.
Busy == {"kexinit", "gex", "method"}
Stages == Busy \cup {"start", "auth", "open"}
Contexts == {"off", "new", "used"}

\* The packets of the first exchange in one direction, and of everything up
\* to the end of the authentication.
First(o) == IF o.gex THEN 4 ELSE 3
Most(o) == First(o) + o.tries + 5

Position(o) == [st : Stages, k : Nat, n : 0..Most(o), seq : Sequenced(o), comp : Contexts]

\* What either end sends in an exchange.
Prelude(d) == IF d = "server" THEN "GEX_GROUP" ELSE "GEX_REQUEST"
Method(d) == IF d = "server" THEN "REPLY" ELSE "INIT"

\* The stage in which the method's last message of an end comes.
Eve(o) == IF o.gex THEN "gex" ELSE "kexinit"

\* The i-th packet of the authentication.
Dialogue(d, i, t) ==
    \/ i = 0 /\ t = "EXT_INFO"
    \/ d = "client" /\ i = 1 /\ t = "SERVICE_REQUEST"
    \/ d = "client" /\ i > 1 /\ t = "USERAUTH_REQUEST"
    \/ d = "server" /\ i = 1 /\ t = "SERVICE_ACCEPT"
    \/ d = "server" /\ i = 2 /\ t = "EXT_INFO"
    \/ d = "server" /\ i > 2 /\ t \in {"USERAUTH_FAILURE", "USERAUTH_SUCCESS"}

\* What d may send at x.
May(o, d, x, t) ==
    \/ x.st \in {"start", "open"} /\ t = "KEXINIT"
    \/ x.st = "open" /\ t \in AppType
    \/ x.st = "kexinit" /\ o.gex /\ t = Prelude(d)
    \/ x.st = Eve(o) /\ t = Method(d)
    \/ x.st = "method" /\ t = "NEWKEYS"
    \/ x.st = "auth" /\ Dialogue(d, x.n - First(o), t)

Early(x) == x.k = 0 \/ (x.k = 1 /\ x.st # "open")

\* Where a packet of type t leads.
StageAfter(x, t) ==
    IF t = "KEXINIT" THEN "kexinit"
    ELSE IF t \in {"GEX_REQUEST", "GEX_GROUP"} THEN "gex"
    ELSE IF t \in {"INIT", "REPLY"} THEN "method"
    ELSE IF t = "NEWKEYS" THEN (IF x.k = 1 THEN "auth" ELSE "open")
    ELSE IF t = "USERAUTH_SUCCESS" THEN "open" ELSE x.st
CompAfter(o, x, t) ==
    IF t = "NEWKEYS" THEN (IF x.k # 1 /\ o.delayed THEN "new" ELSE "off")
    ELSE IF t = "USERAUTH_SUCCESS" THEN (IF o.delayed THEN "new" ELSE "off")
    ELSE Used(x.comp)
After(o, x, t) ==
    [st |-> StageAfter(x, t), k |-> IF t = "KEXINIT" THEN x.k + 1 ELSE x.k,
     n |-> IF Early(x) /\ t # "USERAUTH_SUCCESS" THEN x.n + 1 ELSE 0,
     seq |-> IF t = "NEWKEYS" /\ o.strict THEN 0 ELSE (x.seq + 1) % o.seq_wrap,
     comp |-> CompAfter(o, x, t)]

\* The key in use at x: the one of the last exchange that is over.
Key(x) == IF x.st \in Busy THEN <<x.k - 1, x.k - 1>> ELSE <<x.k, x.k>>

\* pk is what the receiver expects at x.
Fits(o, d, x, pk) ==
    /\ May(o, d, x, pk.type) /\ pk.key = Key(x) /\ pk.seq = x.seq /\ pk.comp = x.comp
    /\ pk.type = "KEXINIT" => pk.n = x.k + 1
    /\ pk.type = "REPLY" => pk.hash = <<x.k, x.k>>

\* The packets w of d lead from f to t.
Path(o, d, w, f, t) ==
    \E v \in [0..Len(w) -> Position(o)] :
        /\ v[0] = f /\ v[Len(w)] = t
        /\ \A i \in 1..Len(w) : Fits(o, d, v[i - 1], w[i]) /\ v[i] = After(o, v[i - 1], w[i].type)

----------------------------------------------------------------------------
(* One end, which has read up to x and written up to y.                    *)

Me(r) == IF r.server THEN "server" ELSE "client"
Other(r) == IF r.server THEN "client" ELSE "server"

At(r, m, x) == r.seq[m] = x.seq /\ r.comp[m] = x.comp /\ r.key[m] = Key(x)

\* The key exchange: what was sent and received of it, how far either
\* direction is ahead of the other, the keys that wait to be used, and what
\* is settled.
Phase(r, x, y) ==
    /\ x.k = r.peer /\ y.k = r.my
    /\ r.rekeying <=> y.st \in Busy
    /\ r.done <=> x.st \in {"auth", "open"} /\ y.st \notin Busy
    /\ "INIT_SENT" \in r.flags <=> ~r.done
    /\ "INIT_RECVD" \in r.flags <=> x.st \in Busy

Steps(o, server, x, y) ==
    /\ x.st \in Busy \/ (x.st \in {"auth", "open"} /\ y.st \notin Busy) => x.k = y.k
    /\ x.st \notin Busy /\ (x.st = "start" \/ y.st \in Busy) => y.st = "kexinit" /\ y.k = x.k + 1
    /\ x.st = "method" <=> x.st \in Busy /\ y.st \notin Busy
    /\ x.st = "kexinit" => y.st = IF server THEN "kexinit" ELSE IF o.gex THEN "gex" ELSE "method"
    /\ x.st = "gex" => o.gex /\ y.st = IF server THEN "gex" ELSE "method"
    /\ x.st = "start" <=> x.k = 0
    /\ y.st # "start" /\ y.k # 0

Derived(r, x) ==
    r.newkeys = [m \in Mode |-> IF x.st = "method" /\ m = "in" THEN <<x.k, x.k>> ELSE NoKey]

Settled(o, r, x, y) ==
    /\ x.k # 0 => r.strict = o.strict
    /\ y.st \notin Busy => r.queue = <<>>

Exchange(o, r, x, y) ==
    Phase(r, x, y) /\ Steps(o, r.server, x, y) /\ Derived(r, x) /\ Settled(o, r, x, y)

\* What the dispatch table has for the exchange.
Accepts(o, r, x) ==
    /\ x.st \in {"start", "open"} => "KEXINIT" \in r.dispatch
    /\ x.st = "kexinit" /\ o.gex => Prelude(Other(r)) \in r.dispatch
    /\ x.st = Eve(o) => Method(Other(r)) \in r.dispatch
    /\ x.st = "method" => "NEWKEYS" \in r.dispatch


\* Up to the authentication everything follows from how much was read, and
\* how much was read from what was written.
Placed(o, x) ==
    /\ Early(x)
    /\ x.st = "start" => x.n = 0 /\ x.seq = 0
    /\ x.st = "kexinit" => x.n = 1
    /\ x.st = "gex" => x.n = 2
    /\ x.st = "method" => x.n = First(o) - 1
    /\ x.st = "auth" => x.n >= First(o)
    /\ x.comp = "off" /\ x.seq <= x.n

Written(o, server, n) ==
    LET f == First(o)
    IN  IF server THEN IF n = 0 THEN 1
                       ELSE IF n < f - 1 THEN n
                       ELSE IF n < f + 2 THEN f + 1
                       ELSE IF n = f + 2 THEN n ELSE n + 1
        ELSE IF n < f - 1 THEN n + 1
             ELSE IF n < f THEN f + 1
             ELSE IF n < f + 2 THEN f + 2
             ELSE IF n = f + 2 THEN n + 1 ELSE n

\* What has been sent up to y, before and after the authentication.
Pre(r, y) ==
    /\ (y.k = 0 /\ y.st = "start") \/ (y.k = 1 /\ y.st \notin {"start", "open"})
    /\ y.comp = "off" /\ y.seq <= y.n /\ r.blocks["out"] <= y.n
Post(r, y) ==
    "INITIAL" \notin r.flags /\ ~Early(y) /\ y.n = 0 /\ y.st \notin {"start", "auth"}

Unauthed(o, r, x, y) ==
    LET i == x.n - First(o)
    IN  /\ r.queue = <<>> /\ ~r.handover /\ "DATA" \notin r.dispatch
        /\ Placed(o, x) /\ Pre(r, y) /\ y.n = Written(o, r.server, x.n)
        /\ "INITIAL" \in r.flags <=> x.st # "auth"
        /\ i < 1 => r.ext = 0
        /\ Accepts(o, r, x)
        /\ r.server =>
             /\ i = 0 => {"EXT_INFO", "SERVICE_REQUEST"} \subseteq r.dispatch
             /\ i = 1 => "SERVICE_REQUEST" \in r.dispatch
             /\ i > 1 => "USERAUTH_REQUEST" \in r.dispatch
             /\ i > 0 => "HAS_EXT_INFO_IN_AUTH" \in r.flags
             /\ "attempted" \in r.flags <=> i > 2
        /\ ~r.server =>
             /\ i = 0 => {"EXT_INFO", "SERVICE_ACCEPT"} \subseteq r.dispatch
             /\ i = 1 => "SERVICE_ACCEPT" \in r.dispatch
             /\ i = 2 => "EXT_INFO" \in r.dispatch
             /\ i \in {1, 2} => r.ext = 1
             /\ i > 1 => {"USERAUTH_FAILURE", "USERAUTH_SUCCESS"} \subseteq r.dispatch

\* Compression as it is when the user has just been accepted.
Begun(o) == IF o.delayed THEN "new" ELSE "off"

Authed(o, r, x, y) ==
    /\ ~Early(x) /\ x.n = 0 /\ x.st # "auth" /\ Post(r, y)
    /\ \A i \in 1..Len(r.queue) : r.queue[i].type \in AppType
    /\ r.handover =>
         r.server /\ r.done /\ "DATA" \notin r.dispatch /\ \A m \in Mode : r.comp[m] = Begun(o)
    /\ ~r.handover => AppType \subseteq r.dispatch /\ Accepts(o, r, x)

\* All of it but what a packet that is read changes before it is handled.
Whole(o, r, x, y) ==
    /\ r \in Ssh(o) /\ r.fault = "none" /\ x \in Position(o) /\ y \in Position(o)
    /\ r.key["in"] = Key(x) /\ At(r, "out", y)
    /\ Exchange(o, r, x, y)
    /\ IF r.authed THEN Authed(o, r, x, y) ELSE Unauthed(o, r, x, y)

Local(o, r, x, y) ==
    /\ Whole(o, r, x, y) /\ r.seq["in"] = x.seq /\ r.comp["in"] = x.comp
    /\ ~r.authed => r.blocks["in"] <= x.n

----------------------------------------------------------------------------
(* Both ends.                                                              *)

\* Where the client's packets go on once the user has been accepted.
Opened(o, y) == [y EXCEPT !.st = "open", !.n = 0, !.comp = Begun(o)]

\* The packets w lead from f to t before the user is accepted.
Counted(w, f, t) ==
    t.n = f.n + Len(w) /\ \A i \in 1..Len(w) : w[i].type # "USERAUTH_SUCCESS"

\* The user's being accepted is, but for an EXT_INFO, the next that is read.
Accepting(w) ==
    \E i \in {1, 2} : /\ i <= Len(w) /\ w[i].type = "USERAUTH_SUCCESS"
                      /\ i = 2 => w[1].type = "EXT_INFO"

----------------------------------------------------------------------------
(* Paths.                                                                  *)

OptOK(o) ==
    /\ {o.strict, o.gex, o.delayed} \subseteq BOOLEAN
    /\ {o.tries, o.seq_wrap, o.hard_blocks} \subseteq Nat
    /\ o.seq_wrap >= 8 /\ o.hard_blocks >= o.tries + 10

\* Sequence numbers stay within their width.
LEMMA NextNumber ==
    ASSUME NEW o, OptOK(o), NEW a \in Sequenced(o)
    PROVE  /\ (a + 1) % o.seq_wrap \in Sequenced(o) /\ 0 \in Sequenced(o)
           /\ a + 1 < o.seq_wrap => (a + 1) % o.seq_wrap = a + 1
           /\ (a + 1) % o.seq_wrap <= a + 1
<1> DEFINE w == o.seq_wrap
<1>1. w \in Nat /\ w >= 8 /\ a \in 0..w - 1
  BY DEF OptOK, Sequenced
<1> HIDE DEF w
<1>2. (a + 1) % w \in 0..w - 1 /\ 0 \in 0..w - 1 /\ (a + 1 < w => (a + 1) % w = a + 1)
  BY <1>1
<1>3. (a + 1) % w <= a + 1
  <2>1. CASE a + 1 < w
    BY <1>1, <1>2, <2>1
  <2>2. CASE a + 1 = w
    BY <1>1, <1>2, <2>2
  <2> QED BY <1>1, <2>1, <2>2
<1> QED BY <1>2, <1>3 DEF w, Sequenced

\* A packet that is expected leads to a position.
LEMMA NextPosition ==
    ASSUME NEW o, OptOK(o), NEW x \in Position(o), NEW t, ~Early(x) \/ x.n < Most(o)
    PROVE  After(o, x, t) \in Position(o)
<1>1. Most(o) \in Nat
  BY DEF Most, First, OptOK
<1>2. x.st \in Stages /\ x.k \in Nat /\ x.n \in 0..Most(o) /\ x.seq \in Sequenced(o) /\ x.comp \in Contexts
  BY DEF Position
<1>3. StageAfter(x, t) \in Stages
  BY <1>2 DEF StageAfter, Stages, Busy
<1>4. CompAfter(o, x, t) \in Contexts
  BY <1>2 DEF CompAfter, Contexts, Used
<1>5. (IF Early(x) /\ t # "USERAUTH_SUCCESS" THEN x.n + 1 ELSE 0) \in 0..Most(o)
  BY <1>1, <1>2
<1>6. (IF t = "NEWKEYS" /\ o.strict THEN 0 ELSE (x.seq + 1) % o.seq_wrap) \in Sequenced(o)
  BY <1>2, NextNumber
<1>7. (IF t = "KEXINIT" THEN x.k + 1 ELSE x.k) \in Nat
  BY <1>2
<1> QED BY <1>3, <1>4, <1>5, <1>6, <1>7 DEF After, Position

\* A path has its ends among the positions.
LEMMA PathEnds ==
    ASSUME NEW o, NEW d, NEW w, Len(w) \in Nat, NEW f, NEW t, Path(o, d, w, f, t)
    PROVE  f \in Position(o) /\ t \in Position(o)
BY DEF Path

\* No packets lead nowhere.
LEMMA PathEmpty ==
    ASSUME NEW o, NEW d, NEW f
    PROVE  /\ f \in Position(o) => Path(o, d, <<>>, f, f)
           /\ \A t : Path(o, d, <<>>, f, t) => f = t
<1>1. Len(<<>>) = 0
  OBVIOUS
<1>2. ASSUME f \in Position(o) PROVE Path(o, d, <<>>, f, f)
  <2> DEFINE v == [i \in 0..Len(<<>>) |-> f]
  <2>1. v \in [0..Len(<<>>) -> Position(o)] /\ v[0] = f /\ v[Len(<<>>)] = f
    BY <1>1, <1>2
  <2>2. \A i \in 1..Len(<<>>) : FALSE
    BY <1>1
  <2> HIDE DEF v
  <2> QED BY <2>1, <2>2 DEF Path
<1>3. ASSUME NEW t, Path(o, d, <<>>, f, t) PROVE f = t
  BY <1>1, <1>3 DEF Path
<1> QED BY <1>2, <1>3

\* One more packet.
LEMMA PathAppend ==
    ASSUME NEW o, NEW d, NEW S, NEW w \in Seq(S), NEW f, NEW t, Path(o, d, w, f, t),
           NEW pk \in S, Fits(o, d, t, pk), After(o, t, pk.type) \in Position(o)
    PROVE  Path(o, d, Append(w, pk), f, After(o, t, pk.type))
<1> DEFINE n == Len(w)
           u == Append(w, pk)
           z == After(o, t, pk.type)
<1>1. /\ n \in Nat /\ Len(u) = n + 1 /\ u[n + 1] = pk
      /\ \A i \in 1..n : u[i] = w[i]
  BY AppendProperties, LenProperties
<1>2. PICK v \in [0..n -> Position(o)] :
          /\ v[0] = f /\ v[n] = t
          /\ \A i \in 1..n : Fits(o, d, v[i - 1], w[i]) /\ v[i] = After(o, v[i - 1], w[i].type)
  BY DEF Path
<1> DEFINE q == [i \in 0..n + 1 |-> IF i = n + 1 THEN z ELSE v[i]]
<1> HIDE DEF n, u, z
<1>3. q \in [0..n + 1 -> Position(o)] /\ q[0] = f /\ q[n + 1] = z
  BY <1>1, <1>2 DEF z
<1>4. \A i \in 0..n : q[i] = v[i]
  BY <1>1
<1>5. ASSUME NEW i \in 1..n + 1 PROVE Fits(o, d, q[i - 1], u[i]) /\ q[i] = After(o, q[i - 1], u[i].type)
  <2>1. CASE i = n + 1
    <3>1. i - 1 = n /\ n \in 0..n
      BY <1>1, <2>1
    <3>2. q[i - 1] = t /\ u[i] = pk /\ q[i] = z
      BY <1>1, <1>2, <1>3, <1>4, <2>1, <3>1
    <3> QED BY <3>2 DEF z
  <2>2. CASE i # n + 1
    <3>1. i \in 1..n /\ i \in 0..n /\ i - 1 \in 0..n
      BY <1>1, <2>2
    <3>2. q[i - 1] = v[i - 1] /\ u[i] = w[i] /\ q[i] = v[i]
      BY <1>1, <1>4, <3>1
    <3> QED BY <1>2, <3>1, <3>2
  <2> QED BY <2>1, <2>2
<1> HIDE DEF q
<1>6. \A i \in 1..n + 1 : Fits(o, d, q[i - 1], u[i]) /\ q[i] = After(o, q[i - 1], u[i].type)
  BY <1>5
<1>7. Path(o, d, u, f, z)
  BY <1>1, <1>3, <1>6 DEF Path
<1> QED BY <1>7 DEF u, z

\* The first packet is expected by the receiver.
LEMMA PathTail ==
    ASSUME NEW o, NEW d, NEW S, NEW w \in Seq(S), w # <<>>, NEW f, NEW t, Path(o, d, w, f, t)
    PROVE  /\ Fits(o, d, f, Head(w)) /\ After(o, f, Head(w).type) \in Position(o)
           /\ Path(o, d, Tail(w), After(o, f, Head(w).type), t)
<1> DEFINE n == Len(w)
           u == Tail(w)
           z == After(o, f, Head(w).type)
<1>1. /\ n \in Nat \ {0} /\ Len(u) = n - 1 /\ Head(w) = w[1]
      /\ \A i \in 1..n - 1 : u[i] = w[i + 1]
  BY HeadTailProperties, LenProperties, EmptySeq
<1>2. PICK v \in [0..n -> Position(o)] :
          /\ v[0] = f /\ v[n] = t
          /\ \A i \in 1..n : Fits(o, d, v[i - 1], w[i]) /\ v[i] = After(o, v[i - 1], w[i].type)
  BY DEF Path
<1> DEFINE q == [i \in 0..n - 1 |-> v[i + 1]]
<1>3. Fits(o, d, f, Head(w)) /\ v[1] = z /\ z \in Position(o)
  <2>1. 1 \in 1..n /\ 1 - 1 = 0 /\ 1 \in 0..n
    BY <1>1
  <2>2. Fits(o, d, v[0], w[1]) /\ v[1] = After(o, v[0], w[1].type)
    BY <1>2, <2>1
  <2> QED BY <1>1, <1>2, <2>1, <2>2
<1> HIDE DEF n, u, z
<1>4. q \in [0..n - 1 -> Position(o)] /\ q[0] = z /\ q[n - 1] = t
  <2>1. \A i \in 0..n - 1 : i + 1 \in 0..n
    BY <1>1
  <2>2. 0 \in 0..n - 1 /\ n - 1 \in 0..n - 1 /\ (n - 1) + 1 = n /\ 0 + 1 = 1
    BY <1>1
  <2> QED BY <1>2, <1>3, <2>1, <2>2
<1>5. ASSUME NEW i \in 1..n - 1 PROVE Fits(o, d, q[i - 1], u[i]) /\ q[i] = After(o, q[i - 1], u[i].type)
  <2>1. /\ i + 1 \in 1..n /\ i \in 0..n - 1 /\ i - 1 \in 0..n - 1 /\ (i - 1) + 1 = i /\ (i + 1) - 1 = i
    BY <1>1
  <2>2. q[i - 1] = v[i] /\ u[i] = w[i + 1] /\ q[i] = v[i + 1]
    BY <1>1, <2>1
  <2>3. Fits(o, d, v[(i + 1) - 1], w[i + 1]) /\ v[i + 1] = After(o, v[(i + 1) - 1], w[i + 1].type)
    BY <1>2, <2>1
  <2> QED BY <2>1, <2>2, <2>3
<1> HIDE DEF q
<1>6. \A i \in 1..n - 1 : Fits(o, d, q[i - 1], u[i]) /\ q[i] = After(o, q[i - 1], u[i].type)
  BY <1>5
<1>7. Path(o, d, u, z, t)
  BY <1>1, <1>4, <1>6 DEF Path
<1> QED BY <1>3, <1>7 DEF u, z

----------------------------------------------------------------------------
(* Sending.                                                                *)

\* What neither packets nor keys change, and what no packet that is sent
\* changes.
Control(r, s) ==
    /\ s.server = r.server /\ s.rekeying = r.rekeying /\ s.done = r.done /\ s.flags = r.flags
    /\ s.strict = r.strict /\ s.my = r.my /\ s.peer = r.peer /\ s.handover = r.handover
    /\ s.ext = r.ext /\ s.due = r.due /\ s.dispatch = r.dispatch /\ s.fault = r.fault
\* One sequence begins with another.
Grows(v, w) == Len(v) <= Len(w) /\ \A i \in 1..Len(v) : w[i] = v[i]
Input(r, s) ==
    /\ s.server = r.server /\ s.comp["in"] = r.comp["in"] /\ s.seq["in"] = r.seq["in"]
    /\ s.blocks["in"] = r.blocks["in"] /\ s.key["in"] = r.key["in"] /\ Grows(r.wire, s.wire)
Kept(r, s) == Control(r, s) /\ Input(r, s)

\* An end that has sent what leads from f to y.
Kind(r, f, y) ==
    IF r.authed THEN Post(r, y) ELSE Pre(r, y) /\ Counted(r.wire, f, y)
Sender(r, f, y) ==
    /\ r \in Ssh(opt) /\ r.fault = "none" /\ y \in Position(opt)
    /\ At(r, "out", y) /\ Path(opt, Me(r), r.wire, f, y)
    /\ Kind(r, f, y)

\* It may send one more packet: there is room for it in what is sent up to the
\* authentication.
Room(r, y) ==
    ~r.authed => y.n < Most(opt) /\ ("INITIAL" \in r.flags => y.n <= 6)

Packed(r, t, n) ==
    [type |-> t, n |-> n, hash |-> IF t = "REPLY" THEN ExchangeHash(r) ELSE NoKey, key |-> r.key["out"],
     seq |-> r.seq["out"], comp |-> r.comp["out"]]

\* The packet is put on the wire and counted.
Sent(r, t, n) ==
    [r EXCEPT !.wire = Append(@, Packed(r, t, n)),
              !.seq["out"] = IF t = "NEWKEYS" /\ r.strict THEN 0 ELSE (@ + 1) % SeqWrap,
              !.blocks["out"] = @ + 1, !.comp["out"] = Used(@),
              !.vol = [all |-> @.all + 1,
                       app |-> IF t \in AppType THEN @.app + 1 ELSE @.app]]

\* The types of what is in the record.
LEMMA SshTypes ==
    ASSUME NEW o, NEW r \in Ssh(o)
    PROVE  /\ r.wire \in Seq(Message(o)) /\ r.queue \in Seq(Item) /\ r.my \in Nat /\ r.peer \in Nat
           /\ r.seq \in [Mode -> Sequenced(o)] /\ r.blocks \in [Mode -> Nat] /\ r.key \in [Mode -> Nat \X Nat]
           /\ r.comp \in [Mode -> Contexts] /\ r.newkeys \in [Mode -> Nat \X Nat] /\ r.vol \in [all : Nat, app : Nat]
           /\ r.server \in BOOLEAN /\ r.authed \in BOOLEAN /\ r.rekeying \in BOOLEAN /\ r.done \in BOOLEAN
BY DEF Ssh, Contexts

\* What a packet that is sent changes.
LEMMA SentFacts ==
    ASSUME OptOK(opt), NEW r \in Ssh(opt), NEW t \in PacketType, NEW n \in Nat
    PROVE  LET s == Sent(r, t, n)
           IN  /\ s \in Ssh(opt) /\ Kept(r, s) /\ s.authed = r.authed /\ s.newkeys = r.newkeys /\ s.queue = r.queue
               /\ s.key = r.key /\ s.wire = Append(r.wire, Packed(r, t, n))
               /\ s.seq["out"] = IF t = "NEWKEYS" /\ r.strict THEN 0 ELSE (r.seq["out"] + 1) % SeqWrap
               /\ s.blocks["out"] = r.blocks["out"] + 1 /\ s.comp["out"] = Used(r.comp["out"])
<1> DEFINE p == Packed(r, t, n)
           q == IF t = "NEWKEYS" /\ r.strict THEN 0 ELSE (r.seq["out"] + 1) % SeqWrap
           b == r.blocks["out"] + 1
           c == Used(r.comp["out"])
           v == [all |-> r.vol.all + 1, app |-> IF t \in AppType THEN r.vol.app + 1 ELSE r.vol.app]
           w == Append(r.wire, p)
           sq == [r.seq EXCEPT !["out"] = q]
           bl == [r.blocks EXCEPT !["out"] = b]
           cm == [r.comp EXCEPT !["out"] = c]
           s == [r EXCEPT !.wire = w, !.seq = sq, !.blocks = bl, !.comp = cm, !.vol = v]
<1>1. /\ r.wire \in Seq(Message(opt)) /\ r.seq \in [Mode -> Sequenced(opt)] /\ r.blocks \in [Mode -> Nat]
      /\ r.comp \in [Mode -> Contexts] /\ r.vol \in [all : Nat, app : Nat] /\ r.key \in [Mode -> Nat \X Nat]
      /\ r.my \in Nat /\ r.peer \in Nat
  BY SshTypes
<1>2. "out" \in Mode /\ "in" \in Mode
  BY DEF Mode
<1>3. p \in Message(opt)
  <2>1. (IF t = "REPLY" THEN ExchangeHash(r) ELSE NoKey) \in Nat \X Nat
    BY <1>1 DEF ExchangeHash, NoKey
  <2>2. r.key["out"] \in Nat \X Nat /\ r.seq["out"] \in Sequenced(opt) /\ r.comp["out"] \in {"off", "new", "used"}
    BY <1>1, <1>2 DEF Contexts
  <2> QED BY <2>1, <2>2 DEF Packed, Message
<1>4. w \in Seq(Message(opt))
  BY <1>1, <1>3, AppendProperties
<1>5. q \in Sequenced(opt)
  BY <1>1, <1>2, NextNumber DEF SeqWrap
<1>6. b \in Nat /\ c \in Contexts /\ v \in [all : Nat, app : Nat]
  <2>1. b \in Nat
    BY <1>1, <1>2
  <2>2. c \in Contexts
    BY <1>1, <1>2 DEF Used, Contexts
  <2>3. r.vol.all \in Nat /\ r.vol.app \in Nat
    BY <1>1
  <2>4. v \in [all : Nat, app : Nat]
    BY <2>3
  <2> QED BY <2>1, <2>2, <2>4
<1>7. /\ sq \in [Mode -> Sequenced(opt)] /\ bl \in [Mode -> Nat] /\ cm \in [Mode -> Contexts]
      /\ sq["out"] = q /\ sq["in"] = r.seq["in"] /\ bl["out"] = b /\ bl["in"] = r.blocks["in"]
      /\ cm["out"] = c /\ cm["in"] = r.comp["in"]
  BY <1>1, <1>2, <1>5, <1>6
<1>8. s = Sent(r, t, n)
  BY DEF Sent
<1> HIDE DEF p, q, b, c, v, w, sq, bl, cm
<1>9. s \in Ssh(opt)
  BY <1>4, <1>6, <1>7 DEF Ssh, Contexts
<1>10. /\ s.server = r.server /\ s.rekeying = r.rekeying /\ s.done = r.done /\ s.flags = r.flags
       /\ s.strict = r.strict /\ s.my = r.my /\ s.peer = r.peer /\ s.handover = r.handover
       /\ s.ext = r.ext /\ s.due = r.due /\ s.dispatch = r.dispatch /\ s.fault = r.fault
       /\ s.authed = r.authed /\ s.newkeys = r.newkeys /\ s.queue = r.queue
       /\ s.key = r.key /\ s.wire = w /\ s.seq = sq /\ s.blocks = bl /\ s.comp = cm
  BY DEF Ssh
<1> HIDE DEF s
<1>11. Grows(r.wire, w)
  BY <1>1, <1>3, AppendProperties, LenProperties DEF Grows, w
<1>12. Kept(r, s)
  BY <1>7, <1>10, <1>11 DEF Kept, Input, Control
<1> QED BY <1>7, <1>8, <1>9, <1>10, <1>12 DEF w, q, b, c, p

\* A sender that may send a packet has sent it.
LEMMA PathSent ==
    ASSUME OptOK(opt), NEW r, NEW f, NEW y, Sender(r, f, y), NEW t \in PacketType, NEW n \in Nat,
           May(opt, Me(r), y, t), t = "KEXINIT" => n = y.k + 1, t = "REPLY" => ExchangeHash(r) = <<y.k, y.k>>,
           Room(r, y)
    PROVE  /\ Path(opt, Me(r), Append(r.wire, Packed(r, t, n)), f, After(opt, y, t))
           /\ After(opt, y, t) \in Position(opt)
<1> DEFINE p == Packed(r, t, n)
<1>1. After(opt, y, t) \in Position(opt)
  BY NextPosition DEF Sender, Room, Post, Kind
<1>2. /\ p.type = t /\ p.n = n /\ p.key = r.key["out"] /\ p.seq = r.seq["out"] /\ p.comp = r.comp["out"]
      /\ t = "REPLY" => p.hash = ExchangeHash(r)
  BY DEF Packed
<1>3. p \in Message(opt) /\ r.wire \in Seq(Message(opt))
  <2>1. "out" \in Mode
    BY DEF Mode
  <2>2. /\ r.wire \in Seq(Message(opt)) /\ r.seq \in [Mode -> Sequenced(opt)]
        /\ r.comp \in [Mode -> Contexts] /\ r.key \in [Mode -> Nat \X Nat] /\ r.my \in Nat /\ r.peer \in Nat
    BY SshTypes DEF Sender
  <2>3. (IF t = "REPLY" THEN ExchangeHash(r) ELSE NoKey) \in Nat \X Nat
    BY <2>2 DEF ExchangeHash, NoKey
  <2>4. r.key["out"] \in Nat \X Nat /\ r.seq["out"] \in Sequenced(opt) /\ r.comp["out"] \in {"off", "new", "used"}
    BY <2>1, <2>2 DEF Contexts
  <2> QED BY <2>2, <2>3, <2>4 DEF Packed, Message
<1> HIDE DEF p
<1>4. Fits(opt, Me(r), y, p)
  BY <1>2 DEF Fits, Sender, At
<1>5. Path(opt, Me(r), Append(r.wire, p), f, After(opt, y, p.type))
  BY <1>1, <1>2, <1>3, <1>4, PathAppend DEF Sender
<1> QED BY <1>1, <1>2, <1>5 DEF p

\* There are positions before and after the authentication, and a packet
\* leads from one to one of the same kind.
LEMMA SameKind ==
    ASSUME OptOK(opt), NEW r, NEW f, NEW y, Sender(r, f, y), NEW t \in PacketType \ {"USERAUTH_SUCCESS"}, NEW n \in Nat,
           May(opt, Me(r), y, t), Room(r, y),
           NEW s, s.authed = r.authed, s.flags = r.flags, s.wire = Append(r.wire, Packed(r, t, n)),
           s.blocks["out"] \in Nat, s.blocks["out"] <= r.blocks["out"] + 1
    PROVE  LET z == After(opt, y, t)
           IN  /\ Kind(s, f, z)
               /\ z.n = IF r.authed THEN 0 ELSE y.n + 1
<1> DEFINE z == After(opt, y, t)
           p == Packed(r, t, n)
<1>1. y.k \in Nat /\ y.n \in Nat /\ y.st \in Stages /\ y.seq \in Sequenced(opt) /\ y \in Position(opt)
  <2>1. Most(opt) \in Nat
    BY DEF Most, First, OptOK
  <2> QED BY <2>1 DEF Sender, Position
<1>2. z.st = StageAfter(y, t) /\ z.comp = CompAfter(opt, y, t)
      /\ z.k = (IF t = "KEXINIT" THEN y.k + 1 ELSE y.k) /\ z.n = (IF Early(y) THEN y.n + 1 ELSE 0)
      /\ z.seq = IF t = "NEWKEYS" /\ opt.strict THEN 0 ELSE (y.seq + 1) % opt.seq_wrap
  BY DEF After
<1>3. /\ t = "KEXINIT" <=> y.st \in {"start", "open"} /\ t \notin AppType
      /\ t \in {"GEX_REQUEST", "GEX_GROUP"} => y.st = "kexinit"
      /\ t \in {"INIT", "REPLY"} => y.st = Eve(opt)
      /\ t = "NEWKEYS" <=> y.st = "method"
      /\ t \in AppType => y.st = "open"
  BY DEF May, Prelude, Method, Dialogue, AppType, Eve
<1> HIDE DEF z
<1>4. CASE r.authed
  <2>1. ~Early(y) /\ y.n = 0 /\ y.st \notin {"start", "auth"} /\ "INITIAL" \notin r.flags
    BY <1>4 DEF Sender, Post, Kind
  <2>2. y.k # 0 /\ (y.k = 1 => y.st = "open")
    BY <2>1 DEF Early
  <2>3. z.st \notin {"start", "auth"} /\ z.n = 0
    BY <1>2, <1>3, <2>1, <2>2 DEF StageAfter, Eve, Stages, Busy
  <2>4. z.k # 0 /\ (z.k = 1 => z.st = "open")
    BY <1>1, <1>2, <1>3, <2>2 DEF StageAfter, Eve, AppType
  <2> QED BY <1>4, <2>1, <2>3, <2>4 DEF Post, Early, z, Kind
<1>5. CASE ~r.authed
  <2>1. /\ (y.k = 0 /\ y.st = "start") \/ (y.k = 1 /\ y.st \notin {"start", "open"})
        /\ y.comp = "off" /\ y.seq <= y.n /\ r.blocks["out"] <= y.n /\ Counted(r.wire, f, y)
    BY <1>5 DEF Sender, Pre, Kind
  <2>2. Early(y)
    BY <2>1 DEF Early
  <2>3. (z.k = 0 /\ z.st = "start") \/ (z.k = 1 /\ z.st \notin {"start", "open"})
    BY <1>1, <1>2, <1>3, <2>1 DEF StageAfter, Eve, AppType
  <2>4. z.comp = "off"
    BY <1>2, <1>3, <2>1 DEF CompAfter, Used
  <2>5. z.n = y.n + 1 /\ z.seq <= z.n
    <3>1. z.n = y.n + 1
      BY <1>2, <2>2
    <3>2. opt.seq_wrap \in Nat /\ opt.seq_wrap >= 8 /\ y.seq \in 0..opt.seq_wrap - 1
      BY <1>1 DEF OptOK, Sequenced
    <3> DEFINE w == opt.seq_wrap
               q == y.seq
    <3>3. w \in Nat /\ w >= 8 /\ q \in 0..w - 1 /\ q <= y.n /\ y.n \in Nat
      BY <1>1, <2>1, <3>2
    <3> HIDE DEF w, q
    <3>4. (q + 1) % w <= q + 1 /\ (q + 1) % w \in 0..w - 1
      BY <1>1, NextNumber DEF w, q, Sequenced
    <3>5. (q + 1) % w <= y.n + 1
      BY <3>3, <3>4
    <3> QED BY <1>1, <1>2, <3>1, <3>5 DEF w, q
  <2>6. s.blocks["out"] <= z.n
    <3>1. "out" \in Mode
      BY DEF Mode
    <3>2. r.blocks["out"] \in Nat
      BY <3>1, SshTypes DEF Sender
    <3> QED BY <1>1, <2>1, <2>5, <3>2
  <2>7. Counted(s.wire, f, z)
    <3>1. r.wire \in Seq(Message(opt))
      BY SshTypes DEF Sender
    <3>2. p.type = t
      BY DEF Packed
    <3>3. /\ Len(s.wire) = Len(r.wire) + 1 /\ Len(r.wire) \in Nat
          /\ \A i \in 1..Len(r.wire) : s.wire[i] = r.wire[i]
          /\ s.wire[Len(r.wire) + 1] = p
      <4> HIDE DEF p
      <4>1. s.wire = Append(r.wire, p)
        BY DEF p
      <4>2. r.wire \in Seq(Message(opt) \cup {p}) /\ p \in Message(opt) \cup {p}
        BY <3>1
      <4> QED BY <4>1, <4>2, AppendProperties, LenProperties
    <3>4. f.n + Len(r.wire) = y.n
      BY <2>1 DEF Counted
    <3>5. z.n = f.n + Len(s.wire)
      <4>1. f.n \in Nat
        <5>1. f \in Position(opt)
          BY <3>3, PathEnds DEF Sender
        <5>2. Most(opt) \in Nat
          BY DEF Most, First, OptOK
        <5> QED BY <5>1, <5>2 DEF Position
      <4> QED BY <2>5, <3>3, <3>4, <4>1
    <3>6. \A i \in 1..Len(s.wire) : s.wire[i].type # "USERAUTH_SUCCESS"
      <4> HIDE DEF p
      <4> SUFFICES ASSUME NEW i \in 1..Len(s.wire) PROVE s.wire[i].type # "USERAUTH_SUCCESS"
        OBVIOUS
      <4>1. i \in 1..Len(r.wire) \/ i = Len(r.wire) + 1
        BY <3>3
      <4> QED BY <2>1, <3>2, <3>3, <4>1 DEF Counted
    <3> QED BY <3>5, <3>6 DEF Counted
  <2> QED BY <1>5, <2>3, <2>4, <2>5, <2>6, <2>7 DEF Pre, z, Kind
<1> QED BY <1>4, <1>5

\* Numbers have not wrapped.
LEMMA NotWrapped ==
    ASSUME OptOK(opt), NEW r, NEW f, NEW y, Sender(r, f, y), Room(r, y)
    PROVE  ~Wrapped(r, "out")
<1>1. SUFFICES ASSUME "INITIAL" \in r.flags PROVE r.seq["out"] # opt.seq_wrap - 1
  BY DEF Wrapped, SeqWrap
<1>2. ~r.authed
  BY <1>1 DEF Sender, Post, Kind
<1>3. y.n <= 6 /\ y.seq <= y.n /\ r.seq["out"] = y.seq
  BY <1>1, <1>2 DEF Room, Sender, Pre, At, Kind
<1>4. y.seq \in Sequenced(opt) /\ y.n \in 0..Most(opt) /\ opt.seq_wrap \in Nat /\ opt.seq_wrap >= 8 /\ Most(opt) \in Nat
  BY DEF Sender, Position, OptOK, Most, First
<1> QED BY <1>3, <1>4 DEF Sequenced

\* Only NEWKEYS changes the key.
LEMMA KeyAfter ==
    ASSUME NEW o, NEW d, NEW y \in Position(o), NEW t, t # "NEWKEYS", May(o, d, y, t)
    PROVE  Key(After(o, y, t)) = Key(y)
<1> DEFINE z == After(o, y, t)
<1>1. y.k \in Nat /\ y.st \in Stages
  BY DEF Position
<1>2. CASE t = "KEXINIT"
  <2>1. z.k = y.k + 1 /\ z.st = "kexinit"
    BY <1>2 DEF After, StageAfter
  <2>2. y.st \in {"start", "open"}
    BY <1>2 DEF May, Prelude, Method, Dialogue, AppType
  <2>3. z.k - 1 = y.k
    BY <1>1, <2>1
  <2> HIDE DEF z
  <2>4. Key(z) = Key(y)
    BY <2>1, <2>2, <2>3 DEF Key, Busy
  <2> QED BY <2>4 DEF z
<1>3. CASE t # "KEXINIT"
  <2>1. z.k = y.k /\ z.st = StageAfter(y, t)
    BY <1>3 DEF After
  <2>2. StageAfter(y, t) \in Busy <=> y.st \in Busy
    BY <1>3 DEF May, StageAfter, Busy, Prelude, Method, Dialogue, AppType, Eve
  <2> HIDE DEF z
  <2>3. Key(z) = Key(y)
    BY <2>1, <2>2 DEF Key
  <2> QED BY <2>3 DEF z
<1> QED BY <1>2, <1>3

\* ssh_packet_send2_wrapped, of a packet that changes neither keys nor
\* compression.
LEMMA Sends ==
    ASSUME OptOK(opt), NEW r, NEW f, NEW y, Sender(r, f, y), Room(r, y),
           NEW t \in PacketType \ {"NEWKEYS", "USERAUTH_SUCCESS"}, NEW n \in Nat,
           May(opt, Me(r), y, t), t = "KEXINIT" => n = y.k + 1, t = "REPLY" => ExchangeHash(r) = <<y.k, y.k>>
    PROVE  LET s == ssh_packet_send2_wrapped(r, t, n)
           IN  /\ Sender(s, f, After(opt, y, t)) /\ Kept(r, s)
               /\ s.authed = r.authed /\ s.newkeys = r.newkeys /\ s.queue = r.queue
               /\ After(opt, y, t).n = IF r.authed THEN 0 ELSE y.n + 1
<1> DEFINE s == Sent(r, t, n)
           z == After(opt, y, t)
<1>1. ssh_packet_send2_wrapped(r, t, n) = s
  BY NotWrapped DEF ssh_packet_send2_wrapped, Sent, Packed
<1>2. /\ Path(opt, Me(r), Append(r.wire, Packed(r, t, n)), f, z) /\ z \in Position(opt)
  BY PathSent
<1>3. r \in Ssh(opt)
  BY DEF Sender
<1>4. /\ s \in Ssh(opt) /\ Kept(r, s) /\ s.authed = r.authed /\ s.newkeys = r.newkeys /\ s.queue = r.queue
      /\ s.key = r.key /\ s.wire = Append(r.wire, Packed(r, t, n))
      /\ s.seq["out"] = (r.seq["out"] + 1) % SeqWrap
      /\ s.blocks["out"] = r.blocks["out"] + 1 /\ s.comp["out"] = Used(r.comp["out"])
  BY <1>3, SentFacts
<1> HIDE DEF s
<1>5. z.seq = (y.seq + 1) % SeqWrap /\ z.comp = Used(y.comp)
  BY DEF After, CompAfter, SeqWrap
<1>6. Key(z) = Key(y)
  BY KeyAfter DEF Sender
<1> HIDE DEF z
<1>7. At(s, "out", z)
  BY <1>4, <1>5, <1>6 DEF At, Sender
<1>8. Me(s) = Me(r) /\ s.fault = "none"
  BY <1>4 DEF Kept, Control, Me, Sender
<1>9. Kind(s, f, z) /\ z.n = IF r.authed THEN 0 ELSE y.n + 1
  <2>1. s.flags = r.flags
    BY <1>4 DEF Kept, Control
  <2>2. r.blocks["out"] \in Nat
    BY <1>3, SshTypes DEF Mode
  <2>3. s.blocks["out"] \in Nat /\ s.blocks["out"] <= r.blocks["out"] + 1
    BY <1>4, <2>2
  <2>4. t \in PacketType \ {"USERAUTH_SUCCESS"} /\ s.authed = r.authed /\ s.wire = Append(r.wire, Packed(r, t, n))
    BY <1>4
  <2> QED BY <2>1, <2>3, <2>4, SameKind, Zenon DEF z
<1>10. Sender(s, f, z)
  BY <1>2, <1>4, <1>7, <1>8, <1>9 DEF Sender
<1> QED BY <1>1, <1>4, <1>9, <1>10 DEF z

----------------------------------------------------------------------------
(* Keys and compression.                                                   *)

\* ssh_set_newkeys with keys to install.
LEMMA SetNewkeys ==
    ASSUME NEW r \in Ssh(opt), NEW mode \in Mode, r.newkeys[mode] # NoKey
    PROVE  LET s == ssh_set_newkeys(r, mode)
           IN  /\ s \in Ssh(opt) /\ Control(r, s)
               /\ s.authed = r.authed /\ s.wire = r.wire /\ s.queue = r.queue /\ s.seq = r.seq
               /\ s.key = [r.key EXCEPT ![mode] = r.newkeys[mode]]
               /\ s.newkeys = [r.newkeys EXCEPT ![mode] = NoKey]
               /\ s.blocks = [r.blocks EXCEPT ![mode] = 0]
               /\ s.comp = [r.comp EXCEPT ![mode] = IF r.authed /\ Delayed THEN "new" ELSE "off"]
<1> DEFINE ky == [r.key EXCEPT ![mode] = r.newkeys[mode]]
           nk == [r.newkeys EXCEPT ![mode] = NoKey]
           bl == [r.blocks EXCEPT ![mode] = 0]
           cm == [r.comp EXCEPT ![mode] = "off"]
           vl == IF mode = "out" THEN [all |-> 0, app |-> 0] ELSE r.vol
           i == [r EXCEPT !.key = ky, !.newkeys = nk, !.blocks = bl, !.comp = cm, !.vol = vl]
           dm == [r.comp EXCEPT ![mode] = IF r.authed /\ Delayed THEN "new" ELSE "off"]
<1>1. /\ r.key \in [Mode -> Nat \X Nat] /\ r.newkeys \in [Mode -> Nat \X Nat] /\ r.blocks \in [Mode -> Nat]
      /\ r.comp \in [Mode -> Contexts] /\ r.vol \in [all : Nat, app : Nat]
  BY SshTypes
<1>2. /\ ky \in [Mode -> Nat \X Nat] /\ nk \in [Mode -> Nat \X Nat] /\ bl \in [Mode -> Nat]
  BY <1>1 DEF NoKey
<1>3. cm \in [Mode -> Contexts] /\ dm \in [Mode -> Contexts] /\ vl \in [all : Nat, app : Nat]
  BY <1>1 DEF Contexts
<1>4. ssh_set_newkeys(r, mode) = IF r.authed THEN StartCompression(i, {mode}) ELSE i
  BY DEF ssh_set_newkeys
<1>5. [m \in Mode |-> IF m \in {mode} /\ Delayed THEN "new" ELSE cm[m]] = IF Delayed THEN [r.comp EXCEPT ![mode] = "new"] ELSE cm
  BY <1>1
<1> HIDE DEF ky, nk, bl, vl
<1>6. i.comp = cm /\ StartCompression(i, {mode}) = [i EXCEPT !.comp = [m \in Mode |-> IF m \in {mode} /\ Delayed THEN "new" ELSE cm[m]]]
  <2>1. i.comp = cm
    BY DEF Ssh
  <2> HIDE DEF i, cm
  <2> QED BY <2>1 DEF StartCompression
<1>7. ssh_set_newkeys(r, mode) = [i EXCEPT !.comp = dm]
  <2>1. CASE r.authed /\ Delayed
    BY <1>4, <1>5, <1>6, <2>1
  <2>2. CASE r.authed /\ ~Delayed
    BY <1>4, <1>5, <1>6, <2>2
  <2>3. CASE ~r.authed
    <3>1. dm = cm /\ i.comp = cm
      BY <1>6, <2>3
    <3>2. [i EXCEPT !.comp = dm] = i
      BY <1>3, <3>1 DEF Ssh
    <3> QED BY <1>4, <2>3, <3>2
  <2> QED BY <2>1, <2>2, <2>3
<1> HIDE DEF cm, dm
<1> DEFINE s == [i EXCEPT !.comp = dm]
<1>8. /\ s.server = r.server /\ s.rekeying = r.rekeying /\ s.done = r.done /\ s.flags = r.flags
      /\ s.strict = r.strict /\ s.my = r.my /\ s.peer = r.peer /\ s.handover = r.handover
      /\ s.ext = r.ext /\ s.due = r.due /\ s.dispatch = r.dispatch /\ s.fault = r.fault
      /\ s.authed = r.authed /\ s.wire = r.wire /\ s.queue = r.queue /\ s.seq = r.seq
      /\ s.key = ky /\ s.newkeys = nk /\ s.blocks = bl /\ s.comp = dm
  BY DEF Ssh
<1>9. s \in Ssh(opt)
  BY <1>2, <1>3 DEF Ssh, Contexts
<1> HIDE DEF s
<1> QED BY <1>7, <1>8, <1>9 DEF Control, s, ky, nk, bl, dm

\* ssh_packet_enable_delayed_compress.
LEMMA EnableCompress ==
    ASSUME NEW r \in Ssh(opt)
    PROVE  LET s == ssh_packet_enable_delayed_compress(r)
           IN  /\ s \in Ssh(opt) /\ Control(r, s)
               /\ s.authed = TRUE /\ s.wire = r.wire /\ s.queue = r.queue /\ s.seq = r.seq
               /\ s.key = r.key /\ s.newkeys = r.newkeys /\ s.blocks = r.blocks
               /\ s.comp \in [Mode -> Contexts]
               /\ \A m \in Mode : s.comp[m] = IF r.key[m] # NoKey /\ r.comp[m] = "off" /\ Delayed THEN "new" ELSE r.comp[m]
<1> DEFINE a == [r EXCEPT !.authed = TRUE]
           M == {m \in Mode : r.key[m] # NoKey /\ r.comp[m] = "off"}
           cm == [m \in Mode |-> IF m \in M /\ Delayed THEN "new" ELSE r.comp[m]]
           s == [a EXCEPT !.comp = cm]
<1>1. r.comp \in [Mode -> Contexts]
  BY SshTypes
<1>2. /\ cm \in [Mode -> Contexts]
      /\ \A m \in Mode : cm[m] = IF r.key[m] # NoKey /\ r.comp[m] = "off" /\ Delayed THEN "new" ELSE r.comp[m]
  BY <1>1 DEF Contexts
<1>3. a.comp = r.comp
  BY DEF Ssh
<1>4. ssh_packet_enable_delayed_compress(r) = s
  BY <1>3 DEF ssh_packet_enable_delayed_compress, StartCompression
<1> HIDE DEF cm
<1>5. /\ s.server = r.server /\ s.rekeying = r.rekeying /\ s.done = r.done /\ s.flags = r.flags
      /\ s.strict = r.strict /\ s.my = r.my /\ s.peer = r.peer /\ s.handover = r.handover
      /\ s.ext = r.ext /\ s.due = r.due /\ s.dispatch = r.dispatch /\ s.fault = r.fault
      /\ s.authed = TRUE /\ s.wire = r.wire /\ s.queue = r.queue /\ s.seq = r.seq
      /\ s.key = r.key /\ s.newkeys = r.newkeys /\ s.blocks = r.blocks /\ s.comp = cm
  BY DEF Ssh
<1>6. s \in Ssh(opt)
  BY <1>2 DEF Ssh, Contexts
<1> HIDE DEF s
<1> QED BY <1>2, <1>4, <1>5, <1>6 DEF Control

\* NEWKEYS is the last packet under the old key.
LEMMA SendsNewkeys ==
    ASSUME OptOK(opt), NEW r, NEW f, NEW y, Sender(r, f, y), Room(r, y), y.st = "method", r.newkeys["out"] = <<y.k, y.k>>, r.strict = Strict
    PROVE  LET s == ssh_packet_send2_wrapped(r, "NEWKEYS", 0)
           IN  /\ Sender(s, f, After(opt, y, "NEWKEYS")) /\ Kept(r, s)
               /\ s.authed = r.authed /\ s.newkeys = [r.newkeys EXCEPT !["out"] = NoKey] /\ s.queue = r.queue
               /\ After(opt, y, "NEWKEYS").n = IF r.authed THEN 0 ELSE y.n + 1
<1> DEFINE q == Sent(r, "NEWKEYS", 0)
           s == ssh_set_newkeys(q, "out")
           z == After(opt, y, "NEWKEYS")
<1>1. ssh_packet_send2_wrapped(r, "NEWKEYS", 0) = s
  BY NotWrapped DEF ssh_packet_send2_wrapped, Sent, Packed
<1>2. "NEWKEYS" \in PacketType /\ 0 \in Nat /\ "out" \in Mode /\ "in" \in Mode
  BY DEF PacketType, TransportType, Mode
<1>3. May(opt, Me(r), y, "NEWKEYS")
  BY DEF May
<1>4. /\ Path(opt, Me(r), Append(r.wire, Packed(r, "NEWKEYS", 0)), f, z) /\ z \in Position(opt)
  BY <1>2, <1>3, PathSent
<1>5. r \in Ssh(opt) /\ y \in Position(opt)
  BY DEF Sender
<1>6. /\ q \in Ssh(opt) /\ Kept(r, q) /\ q.authed = r.authed /\ q.newkeys = r.newkeys /\ q.queue = r.queue
      /\ q.key = r.key /\ q.wire = Append(r.wire, Packed(r, "NEWKEYS", 0))
      /\ q.seq["out"] = IF r.strict THEN 0 ELSE (r.seq["out"] + 1) % SeqWrap
  BY <1>2, <1>5, SentFacts
<1>7. q.newkeys["out"] # NoKey /\ (r.authed <=> y.k # 1)
  <2>1. y.k # 0 /\ (r.authed <=> y.k # 1)
    BY DEF Sender, Post, Pre, Early, Kind
  <2> QED BY <1>6, <2>1 DEF NoKey
<1> HIDE DEF q
<1>8. /\ s \in Ssh(opt) /\ Control(q, s)
      /\ s.authed = q.authed /\ s.wire = q.wire /\ s.queue = q.queue /\ s.seq = q.seq
      /\ s.key = [q.key EXCEPT !["out"] = q.newkeys["out"]]
      /\ s.newkeys = [q.newkeys EXCEPT !["out"] = NoKey]
      /\ s.blocks = [q.blocks EXCEPT !["out"] = 0]
      /\ s.comp = [q.comp EXCEPT !["out"] = IF q.authed /\ Delayed THEN "new" ELSE "off"]
  BY <1>2, <1>6, <1>7, SetNewkeys
<1> HIDE DEF s
<1>9. q.key \in [Mode -> Nat \X Nat] /\ q.blocks \in [Mode -> Nat] /\ q.comp \in [Mode -> Contexts]
  BY <1>6, SshTypes
<1>10. /\ s.key["out"] = <<y.k, y.k>> /\ s.key["in"] = q.key["in"]
       /\ s.blocks["out"] = 0 /\ s.blocks["in"] = q.blocks["in"]
       /\ s.comp["out"] = (IF q.authed /\ Delayed THEN "new" ELSE "off") /\ s.comp["in"] = q.comp["in"]
  BY <1>2, <1>6, <1>8, <1>9
<1>11. /\ z.st = (IF y.k = 1 THEN "auth" ELSE "open") /\ z.k = y.k
       /\ z.seq = (IF Strict THEN 0 ELSE (y.seq + 1) % SeqWrap)
       /\ z.comp = IF y.k # 1 /\ Delayed THEN "new" ELSE "off"
  BY DEF After, StageAfter, CompAfter, Strict, Delayed, SeqWrap
<1> HIDE DEF z
<1>12. Key(z) = <<y.k, y.k>>
  BY <1>11 DEF Key, Busy
<1>13. At(s, "out", z)
  BY <1>6, <1>7, <1>8, <1>10, <1>11, <1>12 DEF At, Sender
<1>14. Kept(r, s) /\ Me(s) = Me(r) /\ s.fault = "none"
  BY <1>6, <1>8, <1>10 DEF Kept, Input, Control, Me, Sender
<1>15. Kind(s, f, z) /\ z.n = IF r.authed THEN 0 ELSE y.n + 1
  <2>1. s.flags = r.flags
    BY <1>14 DEF Kept, Control
  <2>2. r.blocks["out"] \in Nat
    BY <1>2, <1>5, SshTypes
  <2>3. s.blocks["out"] \in Nat /\ s.blocks["out"] <= r.blocks["out"] + 1
    BY <1>10, <2>2
  <2>4. /\ "NEWKEYS" \in PacketType \ {"USERAUTH_SUCCESS"} /\ s.authed = r.authed
        /\ s.wire = Append(r.wire, Packed(r, "NEWKEYS", 0))
    BY <1>2, <1>6, <1>8
  <2> DEFINE t == "NEWKEYS"
             i == 0
  <2>5. /\ t \in PacketType \ {"USERAUTH_SUCCESS"} /\ i \in Nat /\ May(opt, Me(r), y, t)
        /\ s.wire = Append(r.wire, Packed(r, t, i)) /\ z = After(opt, y, t) /\ s.authed = r.authed
    BY <1>2, <1>3, <2>4 DEF z
  <2> HIDE DEF t, i
  <2>6. Kind(s, f, After(opt, y, t)) /\ After(opt, y, t).n = IF r.authed THEN 0 ELSE y.n + 1
    BY <2>1, <2>3, <2>5, SameKind, Zenon
  <2> QED BY <2>5, <2>6
<1>16. Sender(s, f, z)
  BY <1>4, <1>6, <1>8, <1>13, <1>14, <1>15 DEF Sender
<1> QED BY <1>1, <1>6, <1>8, <1>10, <1>14, <1>15, <1>16 DEF z

----------------------------------------------------------------------------
(* What else changes in an end.                                            *)

\* Everything but the dispatch table, in two parts: what a packet changes, and
\* the rest.
Carried(r, s) ==
    /\ s.server = r.server /\ s.authed = r.authed /\ s.fault = r.fault /\ s.wire = r.wire
    /\ s.seq = r.seq /\ s.key = r.key /\ s.comp = r.comp /\ s.blocks = r.blocks
Rest(r, s) ==
    /\ s.rekeying = r.rekeying /\ s.done = r.done /\ s.flags = r.flags /\ s.strict = r.strict
    /\ s.my = r.my /\ s.peer = r.peer /\ s.handover = r.handover /\ s.ext = r.ext
    /\ s.due = r.due /\ s.newkeys = r.newkeys /\ s.queue = r.queue

\* The packets written only become more.
LEMMA InputTransitive ==
    ASSUME NEW r \in Ssh(opt), NEW s \in Ssh(opt), NEW t \in Ssh(opt), Input(r, s), Input(s, t)
    PROVE  Input(r, t)
<1> DEFINE a == Len(r.wire)
           b == Len(s.wire)
           c == Len(t.wire)
<1>1. a \in Nat /\ b \in Nat /\ c \in Nat
  BY SshTypes, LenProperties
<1>2. /\ a <= b /\ b <= c /\ \A i \in 1..a : s.wire[i] = r.wire[i]
      /\ \A i \in 1..b : t.wire[i] = s.wire[i]
  BY DEF Input, Grows
<1> HIDE DEF a, b, c
<1>3. \A i \in 1..a : i \in 1..b
  BY <1>1, <1>2
<1>4. a <= c /\ \A i \in 1..a : t.wire[i] = r.wire[i]
  BY <1>1, <1>2, <1>3
<1> QED BY <1>4 DEF Input, Grows, a, c

\* What is kept stays kept.
LEMMA KeptTransitive ==
    ASSUME NEW r \in Ssh(opt), NEW s \in Ssh(opt), NEW t \in Ssh(opt), Kept(r, s), Kept(s, t)
    PROVE  Kept(r, t)
BY InputTransitive DEF Kept, Control

\* Nothing changes nothing.
LEMMA InputReflexive ==
    ASSUME NEW r \in Ssh(opt)
    PROVE  Input(r, r)
<1>1. Len(r.wire) \in Nat
  BY SshTypes, LenProperties
<1> QED BY <1>1 DEF Input, Grows

\* A sender that does not send stays where it is.
LEMMA Pure ==
    ASSUME NEW r, NEW f, NEW y, Sender(r, f, y), NEW s \in Ssh(opt), Carried(r, s),
           r.authed => "INITIAL" \notin s.flags
    PROVE  Sender(s, f, y) /\ Input(r, s)
<1>1. Input(r, s)
  <2>1. Len(r.wire) \in Nat
    BY SshTypes, LenProperties DEF Sender
  <2> QED BY <2>1 DEF Input, Grows, Carried
<1>2. At(s, "out", y) /\ Me(s) = Me(r) /\ s.wire = r.wire /\ s.authed = r.authed /\ s.blocks = r.blocks /\ s.fault = "none"
  BY DEF Sender, At, Carried, Me
<1>3. Kind(s, f, y)
  BY <1>2 DEF Kind, Post, Pre, Sender
<1> QED BY <1>1, <1>2, <1>3 DEF Sender

\* Changes of the dispatch table alone.
LEMMA Table ==
    ASSUME NEW r \in Ssh(opt), NEW T \in SUBSET PacketType
    PROVE  /\ Expect(r, T) \in Ssh(opt) /\ Carried(r, Expect(r, T)) /\ Rest(r, Expect(r, T))
           /\ Expect(r, T).dispatch = r.dispatch \cup T
           /\ Refuse(r, T) \in Ssh(opt) /\ Carried(r, Refuse(r, T)) /\ Rest(r, Refuse(r, T))
           /\ Refuse(r, T).dispatch = r.dispatch \ T
<1>1. r.dispatch \cup T \in SUBSET PacketType /\ r.dispatch \ T \in SUBSET PacketType
  BY DEF Ssh
<1>2. ASSUME NEW D \in SUBSET PacketType
      PROVE  LET s == [r EXCEPT !.dispatch = D]
             IN  s \in Ssh(opt) /\ Carried(r, s) /\ Rest(r, s) /\ s.dispatch = D
  <2> DEFINE s == [r EXCEPT !.dispatch = D]
  <2>1. s \in Ssh(opt)
    BY DEF Ssh
  <2>2. Carried(r, s) /\ Rest(r, s) /\ s.dispatch = D
    BY DEF Ssh, Carried, Rest
  <2> QED BY <2>1, <2>2
<1> QED BY <1>1, <1>2 DEF Expect, Refuse

\* A sender whose dispatch table changes stays where it is.
LEMMA SenderTable ==
    ASSUME NEW r, NEW f, NEW y, Sender(r, f, y), NEW s, s \in Ssh(opt), Carried(r, s), Rest(r, s)
    PROVE  Sender(s, f, y) /\ Input(r, s)
<1>1. r.authed => "INITIAL" \notin s.flags
  BY DEF Sender, Kind, Post, Rest
<1> QED BY <1>1, Pure

\* USERAUTH_SUCCESS is the last packet that is not compressed.
LEMMA SendsSuccess ==
    ASSUME OptOK(opt), NEW r, NEW f, NEW y, Sender(r, f, y), Room(r, y), r.server, ~r.authed,
           y.st = "auth", y.n - First(opt) > 2, r.key["in"] # NoKey, r.comp["in"] = "off", "INITIAL" \notin r.flags
    PROVE  LET s == ssh_packet_send2_wrapped(r, "USERAUTH_SUCCESS", 0)
               z == After(opt, y, "USERAUTH_SUCCESS")
           IN  /\ Sender(s, f, z) /\ Control(r, s) /\ s.authed = TRUE /\ s.newkeys = r.newkeys /\ s.queue = r.queue
               /\ s.key = r.key /\ s.seq["in"] = r.seq["in"] /\ s.wire = Append(r.wire, Packed(r, "USERAUTH_SUCCESS", 0))
               /\ \A m \in Mode : s.comp[m] = Begun(opt)
               /\ z.st = "open" /\ z.k = 1 /\ z.n = 0
<1> DEFINE q == Sent(r, "USERAUTH_SUCCESS", 0)
           s == ssh_packet_enable_delayed_compress(q)
           z == After(opt, y, "USERAUTH_SUCCESS")
<1>1. ssh_packet_send2_wrapped(r, "USERAUTH_SUCCESS", 0) = s
  BY NotWrapped DEF ssh_packet_send2_wrapped, Sent, Packed
<1>2. "USERAUTH_SUCCESS" \in PacketType /\ 0 \in Nat /\ "out" \in Mode /\ "in" \in Mode /\ Mode = {"in", "out"}
  BY DEF PacketType, AuthType, Mode
<1>3. May(opt, Me(r), y, "USERAUTH_SUCCESS")
  BY DEF May, Dialogue, Me
<1>4. /\ Path(opt, Me(r), Append(r.wire, Packed(r, "USERAUTH_SUCCESS", 0)), f, z) /\ z \in Position(opt)
  BY <1>2, <1>3, PathSent
<1>5. r \in Ssh(opt) /\ y \in Position(opt) /\ y.k = 1 /\ y.comp = "off" /\ r.comp["out"] = "off" /\ r.fault = "none"
  BY DEF Sender, Kind, Pre, At
<1>6. /\ q \in Ssh(opt) /\ Kept(r, q) /\ q.authed = r.authed /\ q.newkeys = r.newkeys /\ q.queue = r.queue
      /\ q.key = r.key /\ q.wire = Append(r.wire, Packed(r, "USERAUTH_SUCCESS", 0))
      /\ q.seq["out"] = (r.seq["out"] + 1) % SeqWrap
      /\ q.comp["out"] = Used(r.comp["out"])
  BY <1>2, <1>5, SentFacts
<1> HIDE DEF q
<1>7. /\ s \in Ssh(opt) /\ Control(q, s)
      /\ s.authed = TRUE /\ s.wire = q.wire /\ s.queue = q.queue /\ s.seq = q.seq
      /\ s.key = q.key /\ s.newkeys = q.newkeys /\ s.blocks = q.blocks
      /\ \A m \in Mode : s.comp[m] = IF q.key[m] # NoKey /\ q.comp[m] = "off" /\ Delayed THEN "new" ELSE q.comp[m]
  BY <1>6, EnableCompress
<1> HIDE DEF s
<1>8. z.st = "open" /\ z.k = 1 /\ z.n = 0 /\ z.seq = (y.seq + 1) % SeqWrap /\ z.comp = Begun(opt)
  BY <1>5 DEF After, StageAfter, CompAfter, SeqWrap, Begun
<1> HIDE DEF z
<1>9. q.comp["out"] = "off" /\ q.comp["in"] = "off" /\ q.key["in"] # NoKey /\ q.key["out"] # NoKey
  <2>1. r.key["out"] = <<1, 1>>
    BY <1>5 DEF Sender, At, Key, Busy
  <2> QED BY <1>5, <1>6, <2>1 DEF Kept, Input, Used, NoKey
<1>10. \A m \in Mode : s.comp[m] = Begun(opt)
  BY <1>2, <1>7, <1>9 DEF Begun, Delayed
<1>11. At(s, "out", z)
  <2>1. Key(z) = Key(y)
    BY <1>5, <1>8 DEF Key, Busy
  <2> QED BY <1>2, <1>6, <1>7, <1>8, <1>10, <2>1 DEF At, Sender
<1>12. Control(r, s)
  BY <1>6, <1>7 DEF Kept, Control
<1>13. s.seq["in"] = r.seq["in"]
  BY <1>6, <1>7 DEF Kept, Input
<1>14. Me(s) = Me(r) /\ s.fault = "none" /\ "INITIAL" \notin s.flags
  BY <1>5, <1>12 DEF Control, Me
<1>15. Kind(s, f, z)
  BY <1>7, <1>8, <1>14 DEF Kind, Post, Early
<1>16. Sender(s, f, z)
  BY <1>4, <1>6, <1>7, <1>11, <1>14, <1>15 DEF Sender
<1> QED BY <1>1, <1>6, <1>7, <1>8, <1>10, <1>12, <1>13, <1>16 DEF z

\* A packet of the exchange is sent at once.
LEMMA KexSend ==
    ASSUME NEW r, NEW t, NEW n, t # "NEWKEYS", ssh_packet_type_is_kex(t)
    PROVE  ssh_packet_send2(r, t, n) = ssh_packet_send2_wrapped(r, t, n)
BY DEF ssh_packet_send2, HeldBack

\* Before authentication so is every other packet, outside an exchange.
LEMMA PlainSend ==
    ASSUME OptOK(opt), NEW r, NEW f, NEW y, Sender(r, f, y), NEW t, NEW n, t # "NEWKEYS", ~r.authed, ~r.rekeying,
           \A m \in Mode : r.blocks[m] <= Most(opt)
    PROVE  ssh_packet_send2(r, t, n) = ssh_packet_send2_wrapped(r, t, n)
<1>1. \A m \in Mode : r.blocks[m] \in Nat
  BY SshTypes DEF Sender
<1>2. Most(opt) \in Nat /\ Most(opt) <= HardBlocks /\ HardBlocks \in Nat
  BY DEF Most, First, OptOK, HardBlocks
<1>3. ~ssh_packet_check_rekey_preauth(r)
  BY <1>1, <1>2 DEF ssh_packet_check_rekey_preauth
<1>4. ~ssh_packet_need_rekeying(r, 1)
  BY DEF ssh_packet_need_rekeying
<1> QED BY <1>3, <1>4 DEF ssh_packet_send2, HeldBack

----------------------------------------------------------------------------
(* What is held back.                                                      *)

\* Induction over the natural numbers, for sets.
LEMMA Counting ==
    ASSUME NEW T, T \subseteq Nat, 0 \in T, \A n \in Nat : n \in T => n + 1 \in T
    PROVE  T = Nat
<1> SUFFICES ASSUME Nat \ T # {} PROVE FALSE
  OBVIOUS
<1> DEFINE R == {ss \in Nat \X Nat : ss[1] < ss[2]}
<1>1. IsWellFoundedOn(R, Nat)
  BY NatLessThanWellFounded DEF OpToRel
<1>2. Nat \ T \subseteq Nat
  OBVIOUS
<1> HIDE DEF R
<1>3. PICK x \in Nat \ T : \A y \in Nat \ T : ~(<<y, x>> \in R)
  BY <1>1, <1>2, WFMin
<1>4. x # 0 /\ x - 1 \in Nat /\ x - 1 < x /\ (x - 1) + 1 = x
  OBVIOUS
<1>5. x - 1 \notin T
  BY <1>4
<1>6. <<x - 1, x>> \in R
  BY <1>4 DEF R
<1> QED BY <1>3, <1>4, <1>5, <1>6

\* One packet that was held back goes out.
Released(s, p) ==
    IF s.queue # <<>> /\ ssh_packet_need_rekeying(s, 1) THEN s
    ELSE [ssh_packet_send2_wrapped(s, p.type, p.n) EXCEPT !.queue = Tail(@)]

\* g[i] is what is left of r when i of them are out.
Releases(g, r, n) ==
    g = [i \in 0..n |-> IF i = 0 THEN r ELSE Released(g[i - 1], r.queue[i])]

\* There is such a function.
LEMMA ReleasesExist ==
    ASSUME NEW r, NEW n \in Nat
    PROVE  \E g : Releases(g, r, n)
<1> DEFINE T == {k \in Nat : \E g : Releases(g, r, k)}
<1>1. 0 \in T
  <2> DEFINE g == [i \in 0..0 |-> r]
  <2>1. \A i \in 0..0 : i = 0
    OBVIOUS
  <2>2. g = [i \in 0..0 |-> IF i = 0 THEN r ELSE Released(g[i - 1], r.queue[i])]
    BY <2>1
  <2> HIDE DEF g
  <2> QED BY <2>2 DEF Releases
<1>2. ASSUME NEW k \in Nat, k \in T PROVE k + 1 \in T
  <2>1. PICK g : Releases(g, r, k)
    BY <1>2
  <2> DEFINE h == [i \in 0..k + 1 |-> IF i = k + 1 THEN Released(g[k], r.queue[k + 1]) ELSE g[i]]
  <2>2. /\ \A i \in 0..k : h[i] = g[i] /\ h[k + 1] = Released(g[k], r.queue[k + 1])
        /\ DOMAIN h = 0..k + 1 /\ h = [i \in 0..k + 1 |-> h[i]]
    OBVIOUS
  <2>3. \A i \in 0..k : g[i] = IF i = 0 THEN r ELSE Released(g[i - 1], r.queue[i])
    BY <2>1 DEF Releases
  <2> HIDE DEF h
  <2>4. ASSUME NEW i \in 0..k + 1
        PROVE  h[i] = IF i = 0 THEN r ELSE Released(h[i - 1], r.queue[i])
    <3>1. CASE i = k + 1
      <4>1. i - 1 = k /\ k \in 0..k /\ i # 0
        BY <3>1
      <4> QED BY <2>2, <3>1, <4>1
    <3>2. CASE i = 0
      <4>1. 0 \in 0..k
        OBVIOUS
      <4> QED BY <2>2, <2>3, <3>2, <4>1
    <3>3. CASE i # 0 /\ i # k + 1
      <4>1. i \in 0..k /\ i - 1 \in 0..k
        BY <3>3
      <4> QED BY <2>2, <2>3, <3>3, <4>1
    <3> QED BY <3>1, <3>2, <3>3
  <2>5. Releases(h, r, k + 1)
    BY <2>2, <2>4 DEF Releases
  <2> QED BY <2>5
<1>3. T = Nat
  <2> HIDE DEF T
  <2>1. T \subseteq Nat
    BY DEF T
  <2> QED BY <1>1, <1>2, <2>1, Counting
<1> QED BY <1>3

\* Flush is its last value.
LEMMA FlushIs ==
    ASSUME NEW r, Len(r.queue) \in Nat
    PROVE  \E g : Releases(g, r, Len(r.queue)) /\ Flush(r) = g[Len(r.queue)]
<1> DEFINE n == Len(r.queue)
           after == CHOOSE g : g = [i \in 0..n |-> IF i = 0 THEN r ELSE Released(g[i - 1], r.queue[i])]
<1>1. \E g : g = [i \in 0..n |-> IF i = 0 THEN r ELSE Released(g[i - 1], r.queue[i])]
  BY ReleasesExist DEF Releases
<1>2. after = [i \in 0..n |-> IF i = 0 THEN r ELSE Released(after[i - 1], r.queue[i])]
  BY <1>1
<1>3. Flush(r) = after[n]
  BY DEF Flush, Released
<1> HIDE DEF after
<1> QED BY <1>2, <1>3 DEF Releases

\* A change of the queue alone.
LEMMA Queue ==
    ASSUME NEW r \in Ssh(opt), NEW q \in Seq(Item)
    PROVE  LET s == [r EXCEPT !.queue = q]
           IN  /\ s \in Ssh(opt) /\ Carried(r, s) /\ Control(r, s) /\ s.newkeys = r.newkeys
               /\ s.queue = q
<1> DEFINE s == [r EXCEPT !.queue = q]
<1>1. s \in Ssh(opt)
  BY DEF Ssh
<1>2. Carried(r, s) /\ Control(r, s) /\ s.newkeys = r.newkeys /\ s.queue = q
  BY DEF Ssh, Carried, Control
<1> QED BY <1>1, <1>2

\* One packet goes out.
LEMMA ReleasesOne ==
    ASSUME OptOK(opt), NEW s, NEW f, NEW z, Sender(s, f, z), s.authed, z.st = "open", ~s.done,
           NEW p \in Item, p.type \in AppType, s.queue # <<>>
    PROVE  LET t == Released(s, p)
           IN  /\ \E v : Sender(t, f, v) /\ v.st = "open" /\ v.k = z.k
               /\ Kept(s, t) /\ t.authed = s.authed /\ t.newkeys = s.newkeys /\ t.queue = Tail(s.queue)
<1> DEFINE u == ssh_packet_send2_wrapped(s, p.type, p.n)
           t == [u EXCEPT !.queue = Tail(s.queue)]
           v == After(opt, z, p.type)
<1>1. ~ssh_packet_need_rekeying(s, 1)
  BY DEF ssh_packet_need_rekeying, ssh_packet_is_rekeying
<1>2. p.type \in PacketType \ {"NEWKEYS", "USERAUTH_SUCCESS"} /\ p.n \in Nat /\ p.type \notin {"KEXINIT", "REPLY"}
  BY DEF Item, AppType, PacketType
<1>3. May(opt, Me(s), z, p.type) /\ Room(s, z)
  BY DEF May, Room
<1>4. /\ Sender(u, f, v) /\ Kept(s, u)
      /\ u.authed = s.authed /\ u.newkeys = s.newkeys /\ u.queue = s.queue
  BY <1>2, <1>3, Sends
<1>5. v.st = "open" /\ v.k = z.k
  BY DEF After, StageAfter, AppType
<1> HIDE DEF u, v
<1>6. Released(s, p) = t
  BY <1>1, <1>4 DEF Released, u
<1>7. s \in Ssh(opt) /\ u \in Ssh(opt)
  BY <1>4 DEF Sender
<1>8. s.queue \in Seq(Item)
  BY <1>7, SshTypes
<1>9. Tail(s.queue) \in Seq(Item)
  BY <1>8, HeadTailProperties
<1>10. /\ t \in Ssh(opt) /\ Carried(u, t) /\ Control(u, t) /\ t.newkeys = u.newkeys /\ t.queue = Tail(s.queue)
  BY <1>7, <1>9, Queue
<1> HIDE DEF t
<1>11. Sender(t, f, v) /\ Input(u, t)
  <2>1. u.authed => "INITIAL" \notin t.flags
    BY <1>4, <1>10 DEF Control, Sender, Kind, Post
  <2> QED BY <1>4, <1>10, <2>1, Pure
<1>12. Kept(s, t)
  BY <1>4, <1>7, <1>10, <1>11, KeptTransitive DEF Kept
<1>13. t.authed = s.authed /\ t.newkeys = s.newkeys
  BY <1>4, <1>10 DEF Carried
<1> QED BY <1>5, <1>6, <1>10, <1>11, <1>12, <1>13

\* s is r with left of what it holds back still to send.
Emptied(r, f, y, s, left) ==
    /\ \E z : Sender(s, f, z) /\ z.st = "open" /\ z.k = y.k
    /\ Kept(r, s) /\ s.authed = r.authed /\ s.newkeys = r.newkeys /\ Len(s.queue) = left

\* Everything that was held back is sent, under the new key.
LEMMA Flushes ==
    ASSUME OptOK(opt), NEW r, NEW f, NEW y, Sender(r, f, y), r.authed, y.st = "open", ~r.done,
           \A i \in 1..Len(r.queue) : r.queue[i].type \in AppType
    PROVE  LET s == Flush(r)
           IN  /\ \E z : Sender(s, f, z) /\ z.st = "open" /\ z.k = y.k
               /\ Kept(r, s) /\ s.authed = r.authed /\ s.newkeys = r.newkeys /\ s.queue = <<>>
<1> DEFINE n == Len(r.queue)
<1>1. r \in Ssh(opt) /\ r.queue \in Seq(Item)
  BY SshTypes DEF Sender
<1>2. n \in Nat /\ \A i \in 1..n : r.queue[i] \in Item
  BY <1>1, LenProperties, ElementOfSeq
<1>3. PICK g : Releases(g, r, n) /\ Flush(r) = g[n]
  BY <1>2, FlushIs
<1>4. \A i \in 0..n : g[i] = IF i = 0 THEN r ELSE Released(g[i - 1], r.queue[i])
  BY <1>3 DEF Releases
<1> DEFINE T == {i \in Nat : i <= n => Emptied(r, f, y, g[i], n - i)}
<1>5. 0 \in T
  <2>1. g[0] = r
    BY <1>2, <1>4
  <2>2. Kept(r, r)
    BY <1>1, InputReflexive DEF Kept, Control
  <2>3. Len(r.queue) = n - 0
    BY <1>2
  <2>4. Emptied(r, f, y, r, n - 0)
    BY <2>2, <2>3 DEF Emptied
  <2> HIDE DEF n
  <2> QED BY <2>1, <2>4
<1>6. ASSUME NEW i \in Nat, i \in T PROVE i + 1 \in T
  <2> SUFFICES ASSUME i + 1 <= n PROVE Emptied(r, f, y, g[i + 1], n - (i + 1))
    OBVIOUS
  <2> HIDE DEF n
  <2>1. i <= n /\ i \in 0..n /\ i + 1 \in 0..n /\ i + 1 \in 1..n /\ (i + 1) - 1 = i /\ i + 1 # 0 /\ n - i # 0 /\ (n - i) - 1 = n - (i + 1)
    BY <1>2
  <2> DEFINE s == g[i]
             p == r.queue[i + 1]
             t == Released(s, p)
  <2>2. Emptied(r, f, y, g[i], n - i)
    BY <1>6, <2>1
  <2>3. PICK z : Sender(s, f, z) /\ z.st = "open" /\ z.k = y.k
    BY <2>2 DEF Emptied
  <2>4. Kept(r, s) /\ s.authed = r.authed /\ s.newkeys = r.newkeys /\ Len(s.queue) = n - i
    BY <2>2 DEF Emptied
  <2>5. g[i + 1] = t
    BY <1>4, <2>1
  <2>6. p \in Item /\ p.type \in AppType
    BY <1>2, <2>1 DEF n
  <2> HIDE DEF s, p
  <2>7. ~s.done /\ s.authed
    BY <2>4 DEF Kept, Control
  <2>8. s.queue \in Seq(Item) /\ s \in Ssh(opt)
    BY <2>3, SshTypes DEF Sender
  <2>9. s.queue # <<>>
    BY <2>1, <2>4, <2>8, EmptySeq
  <2>10. /\ \E v : Sender(t, f, v) /\ v.st = "open" /\ v.k = z.k
         /\ Kept(s, t) /\ t.authed = s.authed /\ t.newkeys = s.newkeys /\ t.queue = Tail(s.queue)
    BY <2>3, <2>6, <2>7, <2>9, ReleasesOne
  <2> HIDE DEF t
  <2>11. Len(t.queue) = n - (i + 1)
    <3>1. Len(t.queue) = Len(s.queue) - 1
      BY <2>8, <2>9, <2>10, HeadTailProperties
    <3> QED BY <2>1, <2>4, <3>1
  <2>12. t \in Ssh(opt)
    BY <2>10 DEF Sender
  <2>13. Kept(r, t)
    BY <1>1, <2>4, <2>8, <2>10, <2>12, KeptTransitive
  <2>14. /\ \E v : Sender(t, f, v) /\ v.st = "open" /\ v.k = y.k
         /\ Kept(r, t) /\ t.authed = r.authed /\ t.newkeys = r.newkeys
         /\ Len(t.queue) = n - (i + 1)
    BY <2>3, <2>4, <2>10, <2>11, <2>13
  <2> QED BY <2>5, <2>14 DEF Emptied
<1>7. T = Nat
  <2> HIDE DEF T
  <2>1. T \subseteq Nat
    BY DEF T
  <2> QED BY <1>5, <1>6, <2>1, Counting
<1>8. Emptied(r, f, y, g[n], 0)
  <2> HIDE DEF n
  <2>1. n \in T /\ n <= n /\ n - n = 0
    BY <1>2, <1>7
  <2> QED BY <2>1
<1>9. g[n].queue = <<>>
  <2>1. g[n] \in Ssh(opt)
    BY <1>8 DEF Sender, Emptied
  <2>2. g[n].queue \in Seq(Item)
    BY <2>1, SshTypes
  <2>3. Len(g[n].queue) = 0
    BY <1>2, <1>8 DEF Emptied
  <2> QED BY <2>2, <2>3, EmptySeq
<1> QED BY <1>3, <1>8, <1>9 DEF Emptied

\* Where nothing was held back, nothing is sent.
LEMMA FlushNothing ==
    ASSUME NEW r, r.queue = <<>>
    PROVE  Flush(r) = r
<1>1. Len(r.queue) = 0
  OBVIOUS
<1>2. PICK g : Releases(g, r, 0) /\ Flush(r) = g[0]
  BY <1>1, FlushIs
<1> QED BY <1>2 DEF Releases

----------------------------------------------------------------------------
(* What either end sends in an exchange.                                   *)

\* What only the peer's packets change.
Standing(r, s) ==
    /\ s.done = r.done /\ s.flags = r.flags /\ s.strict = r.strict /\ s.my = r.my /\ s.peer = r.peer
    /\ s.handover = r.handover /\ s.ext = r.ext /\ s.authed = r.authed

\* ssh_packet_send2 of NEWKEYS: what was held back follows it.
LEMMA NewkeysSent ==
    ASSUME OptOK(opt), NEW r, NEW f, NEW y, Sender(r, f, y), Room(r, y), y.st = "method",
           r.newkeys["out"] = <<y.k, y.k>>, r.strict = Strict, ~r.done, ~r.authed => r.queue = <<>>,
           \A i \in 1..Len(r.queue) : r.queue[i].type \in AppType
    PROVE  LET s == ssh_packet_send2(r, "NEWKEYS", 0)
           IN  /\ \E z : /\ Sender(s, f, z) /\ z.k = y.k /\ z.st = (IF r.authed THEN "open" ELSE "auth")
                         /\ ~r.authed => z.n = y.n + 1
               /\ Input(r, s) /\ Standing(r, s) /\ s.dispatch = r.dispatch /\ s.queue = <<>>
               /\ s.newkeys = [r.newkeys EXCEPT !["out"] = NoKey] /\ s.rekeying = FALSE
<1> DEFINE u == ssh_packet_send2_wrapped(r, "NEWKEYS", 0)
           v == [u EXCEPT !.rekeying = FALSE, !.due = FALSE]
           s == Flush(v)
           z == After(opt, y, "NEWKEYS")
<1>1. ssh_packet_send2(r, "NEWKEYS", 0) = s
  BY DEF ssh_packet_send2, HeldBack, ssh_packet_type_is_kex, TransportType, MethodType
<1>2. /\ Sender(u, f, z) /\ Kept(r, u) /\ u.authed = r.authed
      /\ u.newkeys = [r.newkeys EXCEPT !["out"] = NoKey] /\ u.queue = r.queue
      /\ z.n = IF r.authed THEN 0 ELSE y.n + 1
  BY SendsNewkeys
<1>3. z.k = y.k /\ z.st = IF r.authed THEN "open" ELSE "auth"
  <2>1. r.authed <=> y.k # 1
    BY DEF Sender, Kind, Post, Pre, Early
  <2> QED BY <2>1 DEF After, StageAfter
<1> HIDE DEF u, z
<1>4. u \in Ssh(opt) /\ r \in Ssh(opt)
  BY <1>2 DEF Sender
<1>5. v \in Ssh(opt)
  BY <1>4 DEF Ssh
<1>6. /\ Carried(u, v) /\ v.done = u.done /\ v.flags = u.flags /\ v.strict = u.strict /\ v.my = u.my
      /\ v.peer = u.peer /\ v.handover = u.handover /\ v.ext = u.ext /\ v.newkeys = u.newkeys
      /\ v.queue = u.queue /\ v.dispatch = u.dispatch /\ v.rekeying = FALSE
  BY <1>4 DEF Ssh, Carried
<1> HIDE DEF v
<1>7. Sender(v, f, z) /\ Input(u, v)
  <2>1. u.authed => "INITIAL" \notin v.flags
    BY <1>2, <1>6 DEF Sender, Kind, Post
  <2> QED BY <1>2, <1>5, <1>6, <2>1, Pure
<1>8. Input(r, v)
  BY <1>2, <1>4, <1>5, <1>7, InputTransitive DEF Kept
<1>9. /\ Standing(r, v) /\ v.dispatch = r.dispatch /\ v.queue = r.queue
      /\ v.newkeys = [r.newkeys EXCEPT !["out"] = NoKey]
  BY <1>2, <1>6 DEF Standing, Kept, Control, Carried
<1>10. CASE r.authed
  <2>1. ~v.done /\ v.authed /\ z.st = "open"
    BY <1>3, <1>9, <1>10 DEF Standing
  <2>2. /\ \E w : Sender(s, f, w) /\ w.st = "open" /\ w.k = z.k
        /\ Kept(v, s) /\ s.authed = v.authed /\ s.newkeys = v.newkeys /\ s.queue = <<>>
    BY <1>7, <1>9, <2>1, Flushes
  <2> HIDE DEF s
  <2>3. s \in Ssh(opt)
    BY <2>2 DEF Sender
  <2>4. Input(r, s)
    BY <1>4, <1>5, <1>8, <2>2, <2>3, InputTransitive DEF Kept
  <2>5. Standing(r, s) /\ s.dispatch = r.dispatch /\ s.rekeying = FALSE
    BY <1>6, <1>9, <2>2 DEF Kept, Control, Standing
  <2> QED BY <1>1, <1>3, <1>9, <1>10, <2>2, <2>4, <2>5
<1>11. CASE ~r.authed
  <2>1. s = v
    BY <1>9, <1>11, FlushNothing
  <2> HIDE DEF s
  <2> QED BY <1>1, <1>2, <1>3, <1>6, <1>7, <1>8, <1>9, <1>11, <2>1
<1> QED BY <1>10, <1>11

\* The keys of exchange k wait to be used.
KeysFor(r, k) == r.newkeys = [m \in Mode |-> <<k, k>>]

\* s is r with NEWKEYS and what follows it sent.
Finished(r, f, y, s) ==
    /\ \E z : /\ Sender(s, f, z) /\ z.k = y.k /\ z.st = (IF r.authed THEN "open" ELSE "auth")
              /\ ~r.authed => z.n = First(opt) + 1
    /\ Input(r, s) /\ Standing(r, s) /\ s.queue = <<>> /\ s.rekeying = FALSE
    /\ s.dispatch = (r.dispatch \ TransportType) \cup {"NEWKEYS"}
    /\ s.newkeys = [m \in Mode |-> IF m = "in" THEN <<y.k, y.k>> ELSE NoKey]

\* kex_send_newkeys: the first time EXT_INFO follows.
LEMMA NewkeysAll ==
    ASSUME OptOK(opt), NEW r, NEW f, NEW y, Sender(r, f, y), y.st = "method",
           KeysFor(r, y.k), r.strict = Strict, ~r.done,
           ~r.authed => /\ r.queue = <<>> /\ y.n = First(opt) - 1 /\ "INITIAL" \in r.flags
                        /\ r.blocks["in"] <= First(opt),
           \A i \in 1..Len(r.queue) : r.queue[i].type \in AppType
    PROVE  Finished(r, f, y, kex_send_newkeys(r))
<1> DEFINE a == Refuse(r, TransportType)
           b == ssh_packet_send2(a, "NEWKEYS", 0)
           c == Expect(b, {"NEWKEYS"})
           s == kex_maybe_send_ext_info(c)
<1>1. kex_send_newkeys(r) = s
  BY DEF kex_send_newkeys
<1>2. r \in Ssh(opt) /\ TransportType \in SUBSET PacketType /\ {"NEWKEYS"} \in SUBSET PacketType
  BY DEF Sender, PacketType, TransportType
<1>3. a \in Ssh(opt) /\ Carried(r, a) /\ Rest(r, a) /\ a.dispatch = r.dispatch \ TransportType
  BY <1>2, Table
<1> HIDE DEF a
<1>4. Sender(a, f, y) /\ Input(r, a)
  BY <1>3, SenderTable
<1>5. /\ Standing(r, a) /\ a.newkeys = r.newkeys /\ a.queue = r.queue
  BY <1>3 DEF Carried, Rest, Standing
<1>6. First(opt) \in {3, 4} /\ Most(opt) \in Nat /\ Most(opt) >= 8 /\ First(opt) + 1 < Most(opt)
  BY DEF First, Most, OptOK
<1>7. Room(a, y)
  <2>1. ~a.authed => y.n = First(opt) - 1
    BY <1>5 DEF Standing
  <2> QED BY <1>6, <2>1 DEF Room
<1>8. /\ \E z : /\ Sender(b, f, z) /\ z.k = y.k /\ z.st = (IF a.authed THEN "open" ELSE "auth")
                /\ ~a.authed => z.n = y.n + 1
      /\ Input(a, b) /\ Standing(a, b) /\ b.dispatch = a.dispatch /\ b.queue = <<>>
      /\ b.newkeys = [a.newkeys EXCEPT !["out"] = NoKey] /\ b.rekeying = FALSE
  <2>1. a.newkeys["out"] = <<y.k, y.k>> /\ a.strict = Strict /\ ~a.done
    BY <1>5 DEF Standing, Mode, KeysFor
  <2>2. (~a.authed => a.queue = <<>>) /\ \A i \in 1..Len(a.queue) : a.queue[i].type \in AppType
    BY <1>5 DEF Standing
  <2> QED BY <1>4, <1>7, <2>1, <2>2, NewkeysSent
<1> HIDE DEF b
<1>9. b \in Ssh(opt)
  BY <1>8 DEF Sender
<1>10. c \in Ssh(opt) /\ Carried(b, c) /\ Rest(b, c) /\ c.dispatch = b.dispatch \cup {"NEWKEYS"}
  BY <1>2, <1>9, Table
<1> HIDE DEF c
<1>11. PICK z : /\ Sender(b, f, z) /\ z.k = y.k /\ z.st = (IF r.authed THEN "open" ELSE "auth")
                /\ ~r.authed => z.n = First(opt)
  <2>1. a.authed = r.authed
    BY <1>5 DEF Standing
  <2> QED BY <1>6, <1>8, <2>1
<1>12. Sender(c, f, z) /\ Input(b, c)
  BY <1>10, <1>11, SenderTable
<1>13. Input(r, c)
  <2>1. Input(r, b)
    BY <1>2, <1>3, <1>4, <1>8, <1>9, InputTransitive
  <2> QED BY <1>2, <1>9, <1>10, <1>12, <2>1, InputTransitive
<1>14. /\ Standing(r, c) /\ c.queue = <<>> /\ c.rekeying = FALSE
       /\ c.dispatch = (r.dispatch \ TransportType) \cup {"NEWKEYS"}
       /\ c.newkeys = [r.newkeys EXCEPT !["out"] = NoKey]
  BY <1>3, <1>5, <1>8, <1>10 DEF Standing, Carried, Rest
<1>15. [r.newkeys EXCEPT !["out"] = NoKey] = [m \in Mode |-> IF m = "in" THEN <<y.k, y.k>> ELSE NoKey]
  BY DEF Mode, KeysFor
<1>16. CASE r.authed
  <2>1. "INITIAL" \notin c.flags
    BY <1>14, <1>16 DEF Sender, Kind, Post, Standing
  <2>2. s = c
    BY <2>1 DEF kex_maybe_send_ext_info
  <2> HIDE DEF s
  <2> QED BY <1>1, <1>11, <1>12, <1>13, <1>14, <1>15, <1>16, <2>2 DEF s, Finished
<1>17. CASE ~r.authed
  <2> DEFINE w == After(opt, z, "EXT_INFO")
  <2>1. "INITIAL" \in c.flags /\ ~c.authed /\ ~c.rekeying /\ z.n = First(opt) /\ z.st = "auth"
    BY <1>11, <1>14, <1>17 DEF Standing
  <2>2. Room(c, z)
    BY <1>6, <2>1 DEF Room
  <2>3. \A m \in Mode : c.blocks[m] <= Most(opt)
    <3>1. c.blocks["out"] <= z.n
      BY <1>12, <2>1 DEF Sender, Kind, Pre
    <3>2. c.blocks["in"] <= First(opt)
      BY <1>13, <1>17 DEF Input
    <3>3. c.blocks["in"] \in Nat /\ c.blocks["out"] \in Nat
      BY <1>10, SshTypes DEF Mode
    <3> QED BY <1>6, <2>1, <3>1, <3>2, <3>3 DEF Mode
  <2>4. s = ssh_packet_send2_wrapped(c, "EXT_INFO", 0)
    BY <1>12, <2>1, <2>3, PlainSend DEF kex_maybe_send_ext_info
  <2>5. "EXT_INFO" \in PacketType \ {"NEWKEYS", "USERAUTH_SUCCESS"} /\ 0 \in Nat
    BY DEF PacketType, TransportType
  <2>6. May(opt, Me(c), z, "EXT_INFO")
    BY <1>6, <2>1 DEF May, Dialogue
  <2>7. /\ Sender(s, f, w) /\ Kept(c, s)
        /\ s.authed = c.authed /\ s.newkeys = c.newkeys /\ s.queue = c.queue
        /\ w.n = z.n + 1
    BY <1>12, <2>1, <2>2, <2>4, <2>5, <2>6, Sends
  <2> HIDE DEF s
  <2>8. w.st = "auth" /\ w.k = y.k
    BY <1>11, <2>1 DEF After, StageAfter
  <2>9. s \in Ssh(opt)
    BY <2>7 DEF Sender
  <2>10. Input(r, s)
    BY <1>2, <1>10, <1>13, <2>7, <2>9, InputTransitive DEF Kept
  <2>11. /\ Standing(r, s) /\ s.queue = <<>> /\ s.rekeying = FALSE
         /\ s.dispatch = (r.dispatch \ TransportType) \cup {"NEWKEYS"}
         /\ s.newkeys = [r.newkeys EXCEPT !["out"] = NoKey]
    BY <1>14, <2>7 DEF Kept, Control, Standing
  <2>12. w.n = First(opt) + 1
    BY <2>1, <2>7
  <2> HIDE DEF w
  <2> QED BY <1>1, <1>15, <1>17, <2>7, <2>8, <2>10, <2>11, <2>12 DEF s, Finished
<1> QED BY <1>16, <1>17

\* s is r with its KEXINIT number k sent.
Initiated(r, s, k) ==
    /\ s.done = FALSE /\ s.rekeying = TRUE /\ s.my = k /\ s.flags = r.flags \cup {"INIT_SENT"}
    /\ s.strict = r.strict /\ s.peer = r.peer /\ s.handover = r.handover /\ s.ext = r.ext
    /\ s.authed = r.authed /\ s.newkeys = r.newkeys /\ s.queue = r.queue /\ s.dispatch = r.dispatch

\* kex_send_kexinit.
LEMMA KexinitSent ==
    ASSUME OptOK(opt), NEW r, NEW f, NEW y, Sender(r, f, y), Room(r, y), y.st \in {"start", "open"}, y.k = r.my,
           "INIT_SENT" \notin r.flags
    PROVE  LET s == kex_send_kexinit(r)
           IN  /\ \E z : /\ Sender(s, f, z) /\ z.k = y.k + 1 /\ z.st = "kexinit"
                         /\ ~r.authed => z.n = y.n + 1
               /\ Input(r, s) /\ Initiated(r, s, y.k + 1)
<1> DEFINE a == [r EXCEPT !.done = FALSE, !.my = r.my + 1, !.rekeying = TRUE]
           b == ssh_packet_send2_wrapped(a, "KEXINIT", r.my + 1)
           s == [b EXCEPT !.flags = b.flags \cup {"INIT_SENT"}]
           z == After(opt, y, "KEXINIT")
<1>1. kex_send_kexinit(r) = s
  BY DEF kex_send_kexinit
<1>2. r \in Ssh(opt) /\ r.my \in Nat /\ r.my + 1 \in Nat
  BY SshTypes DEF Sender
<1>3. a \in Ssh(opt)
  BY <1>2 DEF Ssh
<1>4. /\ Carried(r, a) /\ a.done = FALSE /\ a.rekeying = TRUE /\ a.my = r.my + 1 /\ a.flags = r.flags
      /\ a.strict = r.strict /\ a.peer = r.peer /\ a.handover = r.handover /\ a.ext = r.ext
      /\ a.authed = r.authed /\ a.newkeys = r.newkeys /\ a.queue = r.queue /\ a.dispatch = r.dispatch
  BY <1>2 DEF Ssh, Carried
<1> HIDE DEF a
<1>5. Sender(a, f, y) /\ Input(r, a)
  <2>1. r.authed => "INITIAL" \notin a.flags
    BY <1>4 DEF Sender, Kind, Post
  <2> QED BY <1>3, <1>4, <2>1, Pure
<1>6. Room(a, y)
  BY <1>4 DEF Room
<1>7. May(opt, Me(a), y, "KEXINIT") /\ "KEXINIT" \in PacketType \ {"NEWKEYS", "USERAUTH_SUCCESS"}
  BY DEF May, PacketType, TransportType
<1>8. /\ Sender(b, f, z) /\ Kept(a, b)
      /\ b.authed = a.authed /\ b.newkeys = a.newkeys /\ b.queue = a.queue
      /\ z.n = IF a.authed THEN 0 ELSE y.n + 1
  BY <1>2, <1>5, <1>6, <1>7, Sends
<1>9. z.k = y.k + 1 /\ z.st = "kexinit"
  BY DEF After, StageAfter
<1> HIDE DEF b, z
<1>10. b \in Ssh(opt)
  BY <1>8 DEF Sender
<1>11. b.flags \cup {"INIT_SENT"} \in SUBSET Flag
  BY <1>10 DEF Ssh, Flag
<1>12. s \in Ssh(opt)
  BY <1>10, <1>11 DEF Ssh
<1>13. /\ Carried(b, s) /\ s.done = b.done /\ s.rekeying = b.rekeying /\ s.my = b.my /\ s.flags = b.flags \cup {"INIT_SENT"}
       /\ s.strict = b.strict /\ s.peer = b.peer /\ s.handover = b.handover /\ s.ext = b.ext
       /\ s.authed = b.authed /\ s.newkeys = b.newkeys /\ s.queue = b.queue /\ s.dispatch = b.dispatch
  BY <1>10 DEF Ssh, Carried
<1> HIDE DEF s
<1>14. Sender(s, f, z) /\ Input(b, s)
  <2>1. b.authed => "INITIAL" \notin s.flags
    BY <1>8, <1>13 DEF Sender, Kind, Post
  <2> QED BY <1>8, <1>12, <1>13, <2>1, Pure
<1>15. Input(r, s)
  <2>1. Input(r, b)
    BY <1>2, <1>3, <1>5, <1>8, <1>10, InputTransitive DEF Kept
  <2> QED BY <1>2, <1>10, <1>12, <1>14, <2>1, InputTransitive
<1>16. Initiated(r, s, y.k + 1)
  BY <1>4, <1>8, <1>13 DEF Initiated, Kept, Control
<1>17. ~r.authed => z.n = y.n + 1
  BY <1>4, <1>8
<1> QED BY <1>1, <1>9, <1>14, <1>15, <1>16, <1>17

\* kex_start_rekex, outside an exchange.
LEMMA RekexSent ==
    ASSUME OptOK(opt), NEW r, NEW f, NEW y, Sender(r, f, y), r.authed, y.st = "open", y.k = r.my,
           "INIT_SENT" \notin r.flags, r.done
    PROVE  LET s == kex_start_rekex(r)
           IN  /\ \E z : Sender(s, f, z) /\ z.k = y.k + 1 /\ z.st = "kexinit"
               /\ Input(r, s) /\ Initiated(r, s, y.k + 1)
<1> DEFINE a == [r EXCEPT !.done = FALSE]
           s == kex_send_kexinit(a)
<1>1. kex_start_rekex(r) = s
  BY DEF kex_start_rekex
<1>2. r \in Ssh(opt)
  BY DEF Sender
<1>3. a \in Ssh(opt)
  BY <1>2 DEF Ssh
<1>4. /\ Carried(r, a) /\ a.my = r.my /\ a.flags = r.flags
      /\ a.strict = r.strict /\ a.peer = r.peer /\ a.handover = r.handover /\ a.ext = r.ext
      /\ a.authed = r.authed /\ a.newkeys = r.newkeys /\ a.queue = r.queue /\ a.dispatch = r.dispatch
  BY <1>2 DEF Ssh, Carried
<1> HIDE DEF a
<1>5. Sender(a, f, y) /\ Input(r, a)
  <2>1. r.authed => "INITIAL" \notin a.flags
    BY <1>4 DEF Sender, Kind, Post
  <2> QED BY <1>3, <1>4, <2>1, Pure
<1>6. Room(a, y)
  BY <1>4 DEF Room
<1>7. /\ \E z : Sender(s, f, z) /\ z.k = y.k + 1 /\ z.st = "kexinit"
      /\ Input(a, s) /\ Initiated(a, s, y.k + 1)
  BY <1>4, <1>5, <1>6, KexinitSent
<1> HIDE DEF s
<1>8. s \in Ssh(opt)
  BY <1>7 DEF Sender
<1>9. Input(r, s)
  BY <1>2, <1>3, <1>5, <1>7, <1>8, InputTransitive
<1>10. Initiated(r, s, y.k + 1)
  BY <1>4, <1>7 DEF Initiated
<1> QED BY <1>1, <1>7, <1>9, <1>10

\* s comes from r without a packet's being read.
Comes(r, f, x, s) ==
    /\ \E z : Sender(s, f, z) /\ Whole(opt, s, x, z)
    /\ Input(r, s) /\ s.authed = r.authed

\* A new exchange is begun outside one only, also by a packet that it holds
\* back.
LEMMA Rekeys ==
    ASSUME OptOK(opt), NEW r, NEW f, NEW x, NEW y, Whole(opt, r, x, y), Sender(r, f, y), r.authed, r.done, ~r.handover,
           NEW q \in Seq(Item), \A i \in 1..Len(q) : q[i].type \in AppType
    PROVE  LET s == kex_start_rekex([r EXCEPT !.queue = q])
           IN  Comes(r, f, x, s) /\ s.handover = r.handover /\ s.dispatch = r.dispatch
<1> DEFINE a == [r EXCEPT !.queue = q]
           s == kex_start_rekex(a)
<1>1. r \in Ssh(opt) /\ x \in Position(opt) /\ y \in Position(opt) /\ r.key["in"] = Key(x) /\ Exchange(opt, r, x, y) /\ Authed(opt, r, x, y)
  BY DEF Whole
<1>2. /\ a \in Ssh(opt) /\ Carried(r, a) /\ Control(r, a) /\ a.newkeys = r.newkeys /\ a.queue = q
  BY <1>1, Queue
<1> HIDE DEF a
<1>3. Sender(a, f, y) /\ Input(r, a)
  <2>1. r.authed => "INITIAL" \notin a.flags
    BY <1>2 DEF Control, Sender, Kind, Post
  <2> QED BY <1>2, <2>1, Pure
<1>4. x.st = "open" /\ y.st = "open" /\ x.k = y.k /\ y.k = r.my /\ "INIT_SENT" \notin r.flags
  BY <1>1 DEF Exchange, Phase, Steps, Authed, Post, Position, Stages, Busy
<1>5. a.authed /\ y.k = a.my /\ "INIT_SENT" \notin a.flags /\ a.done
  BY <1>2, <1>4 DEF Carried, Control
<1>6. /\ \E z : Sender(s, f, z) /\ z.k = y.k + 1 /\ z.st = "kexinit"
      /\ Input(a, s) /\ Initiated(a, s, y.k + 1)
  BY <1>3, <1>4, <1>5, RekexSent
<1> HIDE DEF s
<1>7. PICK z : Sender(s, f, z) /\ z.k = y.k + 1 /\ z.st = "kexinit"
  BY <1>6
<1>8. s \in Ssh(opt) /\ z \in Position(opt) /\ s.fault = "none" /\ At(s, "out", z) /\ Kind(s, f, z)
  BY <1>7 DEF Sender
<1>9. Input(r, s)
  BY <1>1, <1>2, <1>3, <1>6, <1>8, InputTransitive
<1>10. /\ s.done = FALSE /\ s.rekeying = TRUE /\ s.my = y.k + 1 /\ s.flags = r.flags \cup {"INIT_SENT"}
       /\ s.strict = r.strict /\ s.peer = r.peer /\ s.handover = r.handover /\ s.ext = r.ext
       /\ s.authed = r.authed /\ s.newkeys = r.newkeys /\ s.queue = q /\ s.dispatch = r.dispatch /\ s.server = r.server
  BY <1>2, <1>6, <1>9 DEF Initiated, Control, Carried, Input
<1>11. x.k \in Nat /\ y.k \in Nat
  BY <1>1 DEF Position
<1>12. Exchange(opt, s, x, z)
  <2>1. Phase(r, x, y) /\ Steps(opt, r.server, x, y) /\ Derived(r, x) /\ Settled(opt, r, x, y)
    BY <1>1 DEF Exchange
  <2>2. Phase(s, x, z)
    BY <1>4, <1>7, <1>10, <2>1 DEF Phase, Busy
  <2>3. Steps(opt, s.server, x, z)
    BY <1>4, <1>7, <1>10, <1>11, <2>1 DEF Steps, Busy
  <2>4. Derived(s, x)
    BY <1>10, <2>1 DEF Derived
  <2>5. Settled(opt, s, x, z)
    BY <1>7, <1>10, <2>1 DEF Settled, Busy
  <2> QED BY <2>2, <2>3, <2>4, <2>5 DEF Exchange
<1>13. Authed(opt, s, x, z)
  <2>1. Accepts(opt, s, x)
    BY <1>1, <1>10 DEF Authed, Accepts, Other
  <2> QED BY <1>1, <1>8, <1>10, <2>1 DEF Authed, Kind
<1>14. s.key["in"] = Key(x)
  BY <1>1, <1>9 DEF Input
<1>15. Whole(opt, s, x, z)
  BY <1>1, <1>8, <1>10, <1>12, <1>13, <1>14 DEF Whole
<1> QED BY <1>7, <1>9, <1>10, <1>15 DEF a, s, Comes

----------------------------------------------------------------------------
(* Application messages.                                                   *)

\* The parts of Whole.
LEMMA WholeParts ==
    ASSUME NEW r, NEW x, NEW y, Whole(opt, r, x, y)
    PROVE  /\ r \in Ssh(opt) /\ r.fault = "none" /\ x \in Position(opt) /\ y \in Position(opt)
           /\ r.key["in"] = Key(x) /\ At(r, "out", y)
           /\ Phase(r, x, y) /\ Steps(opt, r.server, x, y) /\ Derived(r, x) /\ Settled(opt, r, x, y)
           /\ r.authed => Authed(opt, r, x, y)
           /\ ~r.authed => Unauthed(opt, r, x, y)
BY DEF Whole, Exchange

\* A packet that is queued, or sent outside an exchange.
LEMMA WholeSame ==
    ASSUME NEW r, NEW x, NEW y, Whole(opt, r, x, y), r.authed, NEW s, NEW f, NEW z, Sender(s, f, z),
           z.st = y.st, z.k = y.k, Control(r, s), s.key["in"] = r.key["in"], s.authed = r.authed, s.newkeys = r.newkeys,
           y.st \in Busy \/ s.queue = <<>>, ~r.handover,
           \A i \in 1..Len(s.queue) : s.queue[i].type \in AppType
    PROVE  Whole(opt, s, x, z)
<1>1. /\ x \in Position(opt) /\ r.key["in"] = Key(x) /\ Authed(opt, r, x, y)
      /\ Phase(r, x, y) /\ Steps(opt, r.server, x, y) /\ Derived(r, x) /\ Settled(opt, r, x, y)
  BY WholeParts
<1>2. s \in Ssh(opt) /\ z \in Position(opt) /\ s.fault = "none" /\ At(s, "out", z) /\ Post(s, z)
  BY DEF Sender, Kind
<1>3. Phase(s, x, z)
  BY <1>1 DEF Phase, Control
<1>4. Steps(opt, s.server, x, z)
  BY <1>1 DEF Steps, Control
<1>5. Derived(s, x)
  BY <1>1 DEF Derived
<1>6. Settled(opt, s, x, z)
  BY <1>1 DEF Settled, Control
<1>7. Accepts(opt, s, x)
  BY <1>1 DEF Authed, Accepts, Other, Control
<1>8. Authed(opt, s, x, z)
  BY <1>1, <1>2, <1>7 DEF Authed, Control
<1> QED BY <1>1, <1>2, <1>3, <1>4, <1>5, <1>6, <1>8 DEF Whole, Exchange

\* ssh_packet_send2 of what an application sends: it goes out at once, or is
\* held back and may begin an exchange.
LEMMA AppSend ==
    ASSUME OptOK(opt), NEW r, NEW f, NEW x, NEW y, Whole(opt, r, x, y), Sender(r, f, y), r.authed, ~r.handover,
           NEW t \in AppType, NEW n \in Nat
    PROVE  Comes(r, f, x, ssh_packet_send2(r, t, n))
<1> DEFINE s == ssh_packet_send2(r, t, n)
           e == [type |-> t, n |-> n]
           q == Append(r.queue, e)
           a == [r EXCEPT !.queue = q]
<1>1. /\ r \in Ssh(opt) /\ x \in Position(opt) /\ y \in Position(opt) /\ Authed(opt, r, x, y)
      /\ Phase(r, x, y) /\ Steps(opt, r.server, x, y) /\ Settled(opt, r, x, y)
  BY WholeParts
<1>2. r.queue \in Seq(Item) /\ e \in Item /\ t # "NEWKEYS" /\ ~ssh_packet_type_is_kex(t)
  BY <1>1, SshTypes DEF Item, PacketType, AppType, ssh_packet_type_is_kex, TransportType, MethodType
<1>3. ~ssh_packet_check_rekey_preauth(r)
  BY DEF ssh_packet_check_rekey_preauth
<1>4. q \in Seq(Item) /\ \A i \in 1..Len(q) : q[i].type \in AppType
  <2>1. /\ q \in Seq(Item) /\ Len(q) = Len(r.queue) + 1 /\ Len(r.queue) \in Nat /\ q[Len(r.queue) + 1] = e
        /\ \A i \in 1..Len(r.queue) : q[i] = r.queue[i]
    BY <1>2, AppendProperties, LenProperties
  <2>2. \A i \in 1..Len(r.queue) : r.queue[i].type \in AppType
    BY <1>1 DEF Authed
  <2> HIDE DEF q
  <2> SUFFICES ASSUME NEW i \in 1..Len(q) PROVE q[i].type \in AppType
    BY <2>1
  <2>3. i \in 1..Len(r.queue) \/ i = Len(r.queue) + 1
    BY <2>1
  <2> QED BY <2>1, <2>2, <2>3
<1> HIDE DEF q
<1>5. CASE ssh_packet_need_rekeying(r, 1)
  <2>1. r.done
    BY <1>5 DEF ssh_packet_need_rekeying, ssh_packet_is_rekeying
  <2>2. s = kex_start_rekex(a)
    BY <1>2, <1>3, <1>5 DEF ssh_packet_send2, HeldBack, q
  <2>3. Comes(r, f, x, kex_start_rekex(a))
    BY <1>4, <2>1, Rekeys
  <2> QED BY <2>2, <2>3, Zenon
<1>6. CASE ~ssh_packet_need_rekeying(r, 1) /\ r.rekeying
  <2>1. s = a
    BY <1>2, <1>3, <1>6 DEF ssh_packet_send2, HeldBack, q
  <2>2. /\ a \in Ssh(opt) /\ Carried(r, a) /\ Control(r, a) /\ a.newkeys = r.newkeys /\ a.queue = q
    BY <1>1, <1>4, Queue
  <2> HIDE DEF s, a
  <2>3. Sender(a, f, y) /\ Input(r, a)
    <3>1. r.authed => "INITIAL" \notin a.flags
      BY <2>2 DEF Control, Sender, Kind, Post
    <3> QED BY <2>2, <3>1, Pure
  <2>4. y.st \in Busy
    BY <1>1, <1>6 DEF Phase
  <2>5. a.key["in"] = r.key["in"] /\ a.authed = r.authed
    BY <2>2 DEF Carried
  <2>6. Whole(opt, a, x, y)
    BY <1>4, <2>2, <2>3, <2>4, <2>5, WholeSame
  <2> QED BY <2>1, <2>3, <2>5, <2>6 DEF s, Comes
<1>7. CASE ~ssh_packet_need_rekeying(r, 1) /\ ~r.rekeying
  <2> DEFINE z == After(opt, y, t)
             u == ssh_packet_send2_wrapped(r, t, n)
  <2>1. s = u /\ u = ssh_packet_send2_wrapped(r, t, n)
    BY <1>2, <1>3, <1>7 DEF ssh_packet_send2, HeldBack
  <2>2. y.st = "open" /\ r.queue = <<>>
    BY <1>1, <1>7 DEF Phase, Authed, Post, Settled, Position, Stages
  <2>3. May(opt, Me(r), y, t) /\ Room(r, y)
    BY <2>2 DEF May, Room
  <2>4. t \in PacketType \ {"NEWKEYS", "USERAUTH_SUCCESS"} /\ t \notin {"KEXINIT", "REPLY"}
    BY DEF PacketType, AppType
  <2>5. /\ Sender(u, f, z) /\ Kept(r, u)
        /\ u.authed = r.authed /\ u.newkeys = r.newkeys /\ u.queue = r.queue
    BY <2>3, <2>4, Sends
  <2>6. z.st = y.st /\ z.k = y.k
    BY <2>2 DEF After, StageAfter, AppType
  <2> HIDE DEF s, z, u
  <2>7. Control(r, u) /\ Input(r, u) /\ u.key["in"] = r.key["in"] /\ u.queue = <<>>
    BY <2>2, <2>5 DEF Kept, Input
  <2>8. \A i \in 1..Len(u.queue) : u.queue[i].type \in AppType
    BY <2>7
  <2>9. Whole(opt, u, x, z)
    BY <2>5, <2>6, <2>7, <2>8, WholeSame
  <2> QED BY <2>1, <2>5, <2>7, <2>9 DEF s, Comes
<1> QED BY <1>5, <1>6, <1>7

\* ssh_packet_check_rekey.
LEMMA Checks ==
    ASSUME OptOK(opt), NEW r, NEW f, NEW x, NEW y, Whole(opt, r, x, y), Sender(r, f, y), r.authed, ~r.handover
    PROVE  LET s == ssh_packet_check_rekey(r)
           IN  Comes(r, f, x, s) /\ s.handover = r.handover /\ s.dispatch = r.dispatch
<1> DEFINE s == ssh_packet_check_rekey(r)
<1>1. ~ssh_packet_check_rekey_preauth(r)
  BY DEF ssh_packet_check_rekey_preauth
<1>2. r \in Ssh(opt) /\ r.queue \in Seq(Item) /\ \A i \in 1..Len(r.queue) : r.queue[i].type \in AppType
  BY WholeParts, SshTypes DEF Authed
<1>3. CASE ssh_packet_need_rekeying(r, 0)
  <2>1. r.done
    BY <1>3 DEF ssh_packet_need_rekeying, ssh_packet_is_rekeying
  <2>2. s = kex_start_rekex([r EXCEPT !.queue = r.queue])
    <3>1. r = [r EXCEPT !.queue = r.queue]
      BY <1>2 DEF Ssh
    <3> QED BY <1>1, <1>3, <3>1, Zenon DEF ssh_packet_check_rekey
  <2> DEFINE u == kex_start_rekex([r EXCEPT !.queue = r.queue])
  <2>3. Comes(r, f, x, u) /\ u.handover = r.handover /\ u.dispatch = r.dispatch
    BY <1>2, <2>1, Rekeys
  <2> HIDE DEF s, u
  <2> QED BY <2>2, <2>3 DEF s, u
<1>4. CASE ~ssh_packet_need_rekeying(r, 0)
  BY <1>1, <1>2, <1>4, InputReflexive DEF ssh_packet_check_rekey, Comes
<1> QED BY <1>3, <1>4

----------------------------------------------------------------------------
(* Reading.                                                                *)

\* A packet of type t is decrypted and counted.
Taken(r, t) ==
    [r EXCEPT !.seq["in"] = IF t = "NEWKEYS" /\ r.strict THEN 0 ELSE (@ + 1) % SeqWrap,
              !.blocks["in"] = @ + 1, !.comp["in"] = Used(@)]

\* Everything but what is counted for packets that are read.
Apart(r, s) ==
    /\ s.server = r.server /\ s.authed = r.authed /\ s.fault = r.fault /\ s.wire = r.wire
    /\ s.seq["out"] = r.seq["out"] /\ s.comp["out"] = r.comp["out"] /\ s.blocks["out"] = r.blocks["out"]
    /\ s.key = r.key /\ s.dispatch = r.dispatch /\ Rest(r, s)

\* What it changes.
LEMMA TakenFacts ==
    ASSUME OptOK(opt), NEW r \in Ssh(opt), NEW t
    PROVE  LET s == Taken(r, t)
           IN  /\ s \in Ssh(opt) /\ Apart(r, s)
               /\ s.seq["in"] = IF t = "NEWKEYS" /\ r.strict THEN 0 ELSE (r.seq["in"] + 1) % SeqWrap
               /\ s.blocks["in"] = r.blocks["in"] + 1 /\ s.comp["in"] = Used(r.comp["in"])
<1> DEFINE q == IF t = "NEWKEYS" /\ r.strict THEN 0 ELSE (r.seq["in"] + 1) % SeqWrap
           b == r.blocks["in"] + 1
           c == Used(r.comp["in"])
           sq == [r.seq EXCEPT !["in"] = q]
           bl == [r.blocks EXCEPT !["in"] = b]
           cm == [r.comp EXCEPT !["in"] = c]
           s == [r EXCEPT !.seq = sq, !.blocks = bl, !.comp = cm]
<1>1. /\ r.seq \in [Mode -> Sequenced(opt)] /\ r.blocks \in [Mode -> Nat] /\ r.comp \in [Mode -> Contexts]
  BY SshTypes
<1>2. "out" \in Mode /\ "in" \in Mode
  BY DEF Mode
<1>3. q \in Sequenced(opt)
  BY <1>1, <1>2, NextNumber DEF SeqWrap
<1>4. b \in Nat /\ c \in Contexts
  <2>1. b \in Nat
    BY <1>1, <1>2
  <2>2. c \in Contexts
    BY <1>1, <1>2 DEF Used, Contexts
  <2> QED BY <2>1, <2>2
<1>5. /\ sq \in [Mode -> Sequenced(opt)] /\ bl \in [Mode -> Nat] /\ cm \in [Mode -> Contexts]
      /\ sq["in"] = q /\ sq["out"] = r.seq["out"] /\ bl["in"] = b /\ bl["out"] = r.blocks["out"]
      /\ cm["in"] = c /\ cm["out"] = r.comp["out"]
  BY <1>1, <1>2, <1>3, <1>4
<1>6. s = Taken(r, t)
  BY DEF Taken
<1> HIDE DEF q, b, c, sq, bl, cm
<1>7. s \in Ssh(opt)
  BY <1>5 DEF Ssh, Contexts
<1>8. /\ s.server = r.server /\ s.authed = r.authed /\ s.fault = r.fault /\ s.wire = r.wire
      /\ s.key = r.key /\ s.dispatch = r.dispatch /\ Rest(r, s)
      /\ s.seq = sq /\ s.blocks = bl /\ s.comp = cm
  BY DEF Ssh, Rest
<1> HIDE DEF s
<1> QED BY <1>5, <1>6, <1>7, <1>8 DEF Apart, q, b, c

\* A sender that has read stays where it is.
LEMMA ApartSender ==
    ASSUME NEW r, NEW f, NEW y, Sender(r, f, y), NEW s \in Ssh(opt), Apart(r, s)
    PROVE  Sender(s, f, y)
<1>1. At(s, "out", y) /\ Me(s) = Me(r) /\ s.wire = r.wire /\ s.authed = r.authed /\ s.fault = "none"
      /\ s.blocks["out"] = r.blocks["out"] /\ s.flags = r.flags
  BY DEF Sender, At, Apart, Me, Rest
<1>2. Kind(s, f, y)
  BY <1>1 DEF Kind, Post, Pre, Sender
<1> QED BY <1>1, <1>2 DEF Sender

\* What is counted for packets that are read is not part of Whole.
LEMMA ApartWhole ==
    ASSUME NEW r, NEW x, NEW y, Whole(opt, r, x, y), NEW s \in Ssh(opt), Apart(r, s), ~r.handover
    PROVE  Whole(opt, s, x, y)
<1>1. /\ r \in Ssh(opt) /\ r.fault = "none" /\ x \in Position(opt) /\ y \in Position(opt)
      /\ r.key["in"] = Key(x) /\ At(r, "out", y)
      /\ Phase(r, x, y) /\ Steps(opt, r.server, x, y) /\ Derived(r, x) /\ Settled(opt, r, x, y)
      /\ r.authed => Authed(opt, r, x, y)
      /\ ~r.authed => Unauthed(opt, r, x, y)
  BY WholeParts
<1>2. /\ s.server = r.server /\ s.authed = r.authed /\ s.fault = r.fault
      /\ s.blocks["out"] = r.blocks["out"] /\ s.key = r.key /\ s.dispatch = r.dispatch
      /\ s.rekeying = r.rekeying /\ s.done = r.done /\ s.flags = r.flags /\ s.strict = r.strict
      /\ s.my = r.my /\ s.peer = r.peer /\ s.handover = r.handover /\ s.ext = r.ext
      /\ s.newkeys = r.newkeys /\ s.queue = r.queue
  BY DEF Apart, Rest
<1>3. At(s, "out", y) /\ s.key["in"] = Key(x)
  BY <1>1 DEF At, Apart
<1>4. Phase(s, x, y) /\ Steps(opt, s.server, x, y) /\ Derived(s, x) /\ Settled(opt, s, x, y)
  BY <1>1, <1>2 DEF Phase, Derived, Settled
<1>5. Accepts(opt, r, x) => Accepts(opt, s, x)
  BY <1>2 DEF Accepts, Other
<1>6. s.authed => Authed(opt, s, x, y)
  BY <1>1, <1>2, <1>5 DEF Authed, Post
<1>7. ~s.authed => Unauthed(opt, s, x, y)
  <2>1. Pre(r, y) => Pre(s, y)
    BY <1>2 DEF Pre
  <2> QED BY <1>1, <1>2, <1>5, <2>1 DEF Unauthed
<1> QED BY <1>1, <1>2, <1>3, <1>4, <1>6, <1>7 DEF Whole, Exchange

\* A packet that fits is decrypted.
LEMMA Decrypts ==
    ASSUME OptOK(opt), NEW r, NEW x, NEW y, Local(opt, r, x, y), NEW pk, Fits(opt, Other(r), x, pk)
    PROVE  /\ Readable(r, pk) /\ ~Wrapped(r, "in")
           /\ LET s == Taken(r, pk.type)
              IN  /\ s \in Ssh(opt) /\ Apart(r, s) /\ s.comp["in"] = Used(x.comp)
                  /\ s.seq["in"] = After(opt, x, pk.type).seq /\ s.blocks["in"] = r.blocks["in"] + 1
<1>1. /\ r \in Ssh(opt) /\ x \in Position(opt) /\ r.key["in"] = Key(x) /\ Settled(opt, r, x, y)
      /\ Phase(r, x, y) /\ Steps(opt, r.server, x, y)
      /\ r.authed => Authed(opt, r, x, y)
      /\ ~r.authed => Unauthed(opt, r, x, y)
      /\ r.seq["in"] = x.seq /\ r.comp["in"] = x.comp
  BY WholeParts DEF Local
<1>2. Readable(r, pk)
  BY <1>1 DEF Readable, Fits
<1>3. ~Wrapped(r, "in")
  <2>1. SUFFICES ASSUME "INITIAL" \in r.flags PROVE r.seq["in"] # opt.seq_wrap - 1
    BY DEF Wrapped, SeqWrap
  <2>2. ~r.authed
    BY <1>1, <2>1 DEF Authed, Post
  <2>3. Placed(opt, x) /\ x.st # "auth"
    BY <1>1, <2>1, <2>2 DEF Unauthed
  <2>4. First(opt) \in {3, 4} /\ opt.seq_wrap \in Nat /\ opt.seq_wrap >= 8 /\ Most(opt) \in Nat
    BY DEF First, OptOK, Most
  <2>5. x.n \in Nat /\ x.seq \in Nat /\ x.st \in Stages
    BY <1>1, <2>4 DEF Position, Sequenced
  <2>6. x.n <= 3 /\ x.seq <= x.n
    BY <2>3, <2>4, <2>5, <1>1 DEF Placed, Stages, Busy, Early, Steps
  <2> QED BY <1>1, <2>4, <2>5, <2>6
<1>4. pk.type = "NEWKEYS" => r.strict = opt.strict
  <2>1. pk.type = "NEWKEYS" => x.st = "method"
    BY DEF Fits, May, Prelude, Method, Dialogue, AppType
  <2> QED BY <1>1, <2>1 DEF Settled, Steps
<1>5. LET s == Taken(r, pk.type)
      IN  /\ s \in Ssh(opt) /\ Apart(r, s)
          /\ s.seq["in"] = IF pk.type = "NEWKEYS" /\ r.strict THEN 0 ELSE (r.seq["in"] + 1) % SeqWrap
          /\ s.blocks["in"] = r.blocks["in"] + 1 /\ s.comp["in"] = Used(r.comp["in"])
  BY <1>1, TakenFacts
<1>6. After(opt, x, pk.type).seq = IF pk.type = "NEWKEYS" /\ r.strict THEN 0 ELSE (x.seq + 1) % SeqWrap
  BY <1>4 DEF After, SeqWrap
<1> QED BY <1>1, <1>2, <1>3, <1>5, <1>6

\* s is r with a packet of type t read at x, and not yet handled.
Ready(r, f, x, t, s) ==
    /\ \E z : Sender(s, f, z) /\ Whole(opt, s, x, z)
    /\ s.server = r.server /\ s.authed = r.authed /\ s.handover = r.handover /\ s.dispatch = r.dispatch
    /\ Grows(r.wire, s.wire) /\ s.seq["in"] = After(opt, x, t).seq /\ s.comp["in"] = Used(x.comp)
    /\ ~r.authed => s.blocks["in"] <= x.n + 1

\* ssh_packet_read_poll2 once the user is accepted; it may begin an exchange.
LEMMA ReadsAuthed ==
    ASSUME OptOK(opt), NEW r, NEW f, NEW x, NEW y, Local(opt, r, x, y), Sender(r, f, y), r.authed, ~r.handover,
           NEW pk, Fits(opt, Other(r), x, pk)
    PROVE  Ready(r, f, x, pk.type, ssh_packet_read_poll2(r, pk))
<1> DEFINE a == Taken(r, pk.type)
           s == ssh_packet_check_rekey(a)
<1>1. /\ Readable(r, pk) /\ ~Wrapped(r, "in")
      /\ a \in Ssh(opt) /\ Apart(r, a) /\ a.comp["in"] = Used(x.comp) /\ a.seq["in"] = After(opt, x, pk.type).seq
  BY Decrypts
<1>2. pk.type # "USERAUTH_SUCCESS"
  <2>1. x.st # "auth"
    BY WholeParts DEF Local, Authed
  <2> QED BY <2>1 DEF Fits, May, Prelude, Method, AppType
<1>3. ssh_packet_read_poll2(r, pk) = s
  BY <1>1, <1>2 DEF ssh_packet_read_poll2, Taken
<1> HIDE DEF a
<1>4. Sender(a, f, y) /\ Whole(opt, a, x, y)
  BY <1>1, ApartSender, ApartWhole DEF Local
<1>5. a.authed = r.authed /\ a.handover = r.handover /\ a.dispatch = r.dispatch /\ a.server = r.server /\ a.wire = r.wire
  BY <1>1 DEF Apart, Rest
<1>6. Comes(a, f, x, s) /\ s.handover = a.handover /\ s.dispatch = a.dispatch
  BY <1>4, <1>5, Checks
<1> HIDE DEF s
<1> QED BY <1>1, <1>3, <1>5, <1>6 DEF Ready, Comes, Input

\* ssh_packet_read_poll2 before that.
LEMMA ReadsUnauthed ==
    ASSUME OptOK(opt), NEW r, NEW x, NEW y, Local(opt, r, x, y), ~r.authed,
           NEW pk, Fits(opt, Other(r), x, pk), pk.type # "USERAUTH_SUCCESS", x.n < Most(opt)
    PROVE  LET s == ssh_packet_read_poll2(r, pk)
           IN  /\ Whole(opt, s, x, y) /\ Apart(r, s)
               /\ \A f : Sender(r, f, y) => Ready(r, f, x, pk.type, s)
               /\ s.seq["in"] = After(opt, x, pk.type).seq /\ s.comp["in"] = Used(x.comp) /\ s.blocks["in"] <= x.n + 1
<1> DEFINE a == Taken(r, pk.type)
<1>1. /\ Readable(r, pk) /\ ~Wrapped(r, "in")
      /\ a \in Ssh(opt) /\ Apart(r, a) /\ a.comp["in"] = Used(x.comp) /\ a.seq["in"] = After(opt, x, pk.type).seq
      /\ a.blocks["in"] = r.blocks["in"] + 1
  BY Decrypts
<1>2. /\ r \in Ssh(opt) /\ Unauthed(opt, r, x, y) /\ Whole(opt, r, x, y) /\ r.blocks["in"] <= x.n
      /\ x \in Position(opt) /\ y \in Position(opt)
  BY WholeParts DEF Local
<1> HIDE DEF a
<1>3. Whole(opt, a, x, y)
  BY <1>1, <1>2, ApartWhole DEF Unauthed
<1>4. /\ a.authed = r.authed /\ a.handover = r.handover /\ a.dispatch = r.dispatch /\ a.server = r.server
      /\ a.wire = r.wire /\ a.blocks["out"] = r.blocks["out"]
  BY <1>1 DEF Apart, Rest
<1>5. Most(opt) \in Nat /\ HardBlocks \in Nat /\ Most(opt) <= HardBlocks
  BY DEF Most, First, OptOK, HardBlocks
<1>6. r.blocks["in"] \in Nat /\ r.blocks["out"] \in Nat /\ x.n \in Nat /\ y.n \in 0..Most(opt)
  BY <1>2, <1>5, SshTypes DEF Position, Mode
<1>7. a.blocks["in"] <= x.n + 1
  BY <1>1, <1>2, <1>6
<1>8. \A m \in Mode : ~(a.blocks[m] > HardBlocks)
  <2>1. r.blocks["out"] <= y.n
    BY <1>2 DEF Unauthed, Pre
  <2>2. a.blocks["in"] \in Nat /\ a.blocks["in"] <= Most(opt) /\ a.blocks["out"] <= Most(opt)
    BY <1>1, <1>4, <1>5, <1>6, <1>7, <2>1
  <2> QED BY <1>4, <1>5, <1>6, <2>2 DEF Mode
<1>9. ~ssh_packet_check_rekey_preauth(a) /\ ~ssh_packet_need_rekeying(a, 0)
  BY <1>4, <1>8 DEF ssh_packet_check_rekey_preauth, ssh_packet_need_rekeying
<1>10. ssh_packet_read_poll2(r, pk) = a
  BY <1>1, <1>9 DEF ssh_packet_read_poll2, ssh_packet_check_rekey, Taken, a
<1>11. Grows(r.wire, a.wire)
  BY <1>2, <1>4, InputReflexive DEF Input
<1>12. ASSUME NEW f, Sender(r, f, y) PROVE Ready(r, f, x, pk.type, a)
  <2>1. Sender(a, f, y)
    BY <1>1, <1>12, ApartSender
  <2> QED BY <1>1, <1>3, <1>4, <1>7, <1>11, <2>1 DEF Ready
<1> QED BY <1>1, <1>3, <1>7, <1>10, <1>12

\* What fits is in the dispatch table.
LEMMA Reaches ==
    ASSUME OptOK(opt), NEW r, NEW pk, NEW ok, NEW s, s = ssh_packet_read_poll2(r, pk), NEW x, NEW z, Whole(opt, s, x, z),
           ~s.handover, Fits(opt, Other(s), x, pk)
    PROVE  Dispatch(r, pk, ok) = Handle(s, pk, ok)
<1>1. /\ s \in Ssh(opt) /\ s.fault = "none" /\ x \in Position(opt) /\ Phase(s, x, z) /\ Steps(opt, s.server, x, z)
      /\ s.authed => Authed(opt, s, x, z)
      /\ ~s.authed => Unauthed(opt, s, x, z)
  BY WholeParts
<1>2. May(opt, Other(s), x, pk.type)
  BY DEF Fits
<1>3. Accepts(opt, s, x)
  BY <1>1 DEF Authed, Unauthed
<1>4. "INIT_RECVD" \in s.flags => ssh_packet_type_is_kex(pk.type)
  <2>1. "INIT_RECVD" \in s.flags => x.st \in Busy
    BY <1>1 DEF Phase
  <2>2. x.st \in Busy => pk.type \in {"GEX_REQUEST", "GEX_GROUP", "INIT", "REPLY", "NEWKEYS"}
    BY <1>2 DEF May, Busy, Prelude, Method
  <2> QED BY <2>1, <2>2 DEF ssh_packet_type_is_kex, TransportType, MethodType
<1>5. pk.type \in s.dispatch
  <2>1. CASE x.st # "auth"
    <3>1. \/ x.st \in {"start", "open"} /\ pk.type = "KEXINIT"
          \/ x.st = "open" /\ pk.type \in AppType
          \/ x.st = "kexinit" /\ opt.gex /\ pk.type = Prelude(Other(s))
          \/ x.st = Eve(opt) /\ pk.type = Method(Other(s))
          \/ x.st = "method" /\ pk.type = "NEWKEYS"
      BY <1>2, <2>1 DEF May
    <3>2. x.st = "open" => s.authed
      BY <1>1 DEF Unauthed, Placed, Early, Steps
    <3>3. s.authed => AppType \subseteq s.dispatch
      BY <1>1 DEF Authed
    <3> QED BY <1>3, <3>1, <3>2, <3>3 DEF Accepts
  <2>2. CASE x.st = "auth"
    <3> DEFINE i == x.n - First(opt)
    <3>1. ~s.authed
      BY <1>1, <2>2 DEF Authed
    <3>2. Dialogue(Other(s), i, pk.type)
      BY <1>2, <2>2 DEF May, Eve
    <3>3. x.n \in Nat /\ First(opt) \in Nat
      BY <1>1 DEF Position, First, Most, OptOK
    <3>4. i \in Int
      BY <3>3
    <3>5. CASE s.server
      <4>1. /\ i = 0 => {"EXT_INFO", "SERVICE_REQUEST"} \subseteq s.dispatch
            /\ i = 1 => "SERVICE_REQUEST" \in s.dispatch
            /\ i > 1 => "USERAUTH_REQUEST" \in s.dispatch
        BY <1>1, <3>1, <3>5 DEF Unauthed
      <4> HIDE DEF i
      <4> QED BY <3>2, <3>5, <4>1 DEF Dialogue, Other
    <3>6. CASE ~s.server
      <4>1. /\ i = 0 => {"EXT_INFO", "SERVICE_ACCEPT"} \subseteq s.dispatch
            /\ i = 1 => "SERVICE_ACCEPT" \in s.dispatch
            /\ i = 2 => "EXT_INFO" \in s.dispatch
            /\ i > 1 => {"USERAUTH_FAILURE", "USERAUTH_SUCCESS"} \subseteq s.dispatch
        BY <1>1, <3>1, <3>6 DEF Unauthed
      <4> HIDE DEF i
      <4>2. i > 2 => i > 1
        BY <3>4
      <4> QED BY <3>2, <3>6, <4>1, <4>2 DEF Dialogue, Other
    <3> QED BY <3>5, <3>6
  <2> QED BY <2>1, <2>2
<1> QED BY <1>1, <1>4, <1>5 DEF Dispatch

----------------------------------------------------------------------------
(* The handlers of the exchange.                                           *)

\* A message of the application changes nothing.
LEMMA ReadsApp ==
    ASSUME OptOK(opt), NEW r, NEW f, NEW x, NEW y, Whole(opt, r, x, y), Sender(r, f, y), r.authed, ~r.handover,
           NEW t \in AppType, May(opt, Other(r), x, t), After(opt, x, t) \in Position(opt)
    PROVE  Whole(opt, r, After(opt, x, t), y)
<1> DEFINE u == After(opt, x, t)
<1>1. /\ r \in Ssh(opt) /\ r.fault = "none" /\ x \in Position(opt) /\ y \in Position(opt)
      /\ r.key["in"] = Key(x) /\ At(r, "out", y) /\ Authed(opt, r, x, y)
      /\ Phase(r, x, y) /\ Steps(opt, r.server, x, y) /\ Derived(r, x) /\ Settled(opt, r, x, y)
  BY WholeParts
<1>2. x.st = "open"
  BY DEF May, AppType, Prelude, Method, Dialogue
<1>3. u.st = x.st /\ u.k = x.k /\ u.n = 0
  BY <1>1, <1>2 DEF After, StageAfter, AppType, Authed
<1>4. Key(u) = Key(x)
  BY <1>3 DEF Key
<1> HIDE DEF u
<1>5. Phase(r, u, y) /\ Steps(opt, r.server, u, y) /\ Derived(r, u) /\ Settled(opt, r, u, y)
  BY <1>1, <1>3 DEF Phase, Steps, Derived, Settled
<1>6. Authed(opt, r, u, y)
  BY <1>1, <1>3 DEF Authed, Early, Accepts
<1>7. Whole(opt, r, u, y)
  BY <1>1, <1>4, <1>5, <1>6 DEF Whole, Exchange, u
<1> QED BY <1>7 DEF u

\* s is r with both KEXINITs, number k, exchanged.
Agreed(r, s, k) ==
    /\ s.done = FALSE /\ s.rekeying = TRUE /\ s.my = k /\ s.peer = k
    /\ s.flags = r.flags \cup {"INIT_RECVD", "INIT_SENT"} /\ s.strict = Strict
    /\ s.handover = r.handover /\ s.ext = r.ext /\ s.authed = r.authed /\ s.newkeys = r.newkeys
    /\ s.queue = r.queue /\ s.dispatch = r.dispatch \ {"KEXINIT"}

Answered(r, pk) ==
    LET a == Refuse([r EXCEPT !.flags = @ \cup {"INIT_RECVD"}, !.peer = pk.n], {"KEXINIT"})
    IN  kex_choose_conf(kex_send_kexinit(a), pk.seq)

\* A KEXINIT is answered, unless it answers one, and the proposals compared.
LEMMA KexinitRead ==
    ASSUME OptOK(opt), NEW r, NEW f, NEW x, NEW y, Whole(opt, r, x, y), Sender(r, f, y),
           NEW pk, Fits(opt, Other(r), x, pk), pk.type = "KEXINIT"
    PROVE  LET s == Answered(r, pk)
           IN  /\ \E z : /\ Sender(s, f, z) /\ z.st = "kexinit" /\ z.k = x.k + 1
                         /\ ~r.authed => z.n = 1
               /\ Input(r, s) /\ Agreed(r, s, x.k + 1) /\ "INIT_RECVD" \notin r.flags
               /\ ~r.authed => x.st = "start"
<1> DEFINE p == [r EXCEPT !.flags = r.flags \cup {"INIT_RECVD"}, !.peer = pk.n]
           a == Refuse(p, {"KEXINIT"})
           b == kex_send_kexinit(a)
           s == kex_choose_conf(b, pk.seq)
<1>1. /\ r \in Ssh(opt) /\ r.fault = "none" /\ x \in Position(opt) /\ y \in Position(opt)
      /\ Phase(r, x, y) /\ Steps(opt, r.server, x, y) /\ Settled(opt, r, x, y)
      /\ r.authed => Authed(opt, r, x, y)
      /\ ~r.authed => Unauthed(opt, r, x, y)
  BY WholeParts
<1>2. x.st \in {"start", "open"} /\ pk.n = x.k + 1 /\ pk.seq = x.seq
  BY DEF Fits, May, Prelude, Method, Dialogue, AppType
<1>3. x.k \in Nat /\ y.k \in Nat /\ x.k + 1 \in Nat /\ y.st \in Stages /\ x.n \in Nat /\ y.n \in Nat
  BY <1>1 DEF Position, Most, First, OptOK
<1>4. /\ ~r.authed => x.st = "start" /\ x.seq = 0 /\ x.n = 0 /\ "INITIAL" \in r.flags /\ y.n = 1
      /\ r.authed => x.st = "open" /\ "INITIAL" \notin r.flags
  <2>1. CASE r.authed
    BY <1>1, <1>2, <2>1 DEF Authed, Post, Early, Steps
  <2>2. CASE ~r.authed
    <3>1. Placed(opt, x) /\ y.n = Written(opt, r.server, x.n) /\ ("INITIAL" \in r.flags <=> x.st # "auth")
      BY <1>1, <2>2 DEF Unauthed
    <3>2. x.st = "start" /\ x.n = 0 /\ x.seq = 0
      BY <1>1, <1>2, <3>1 DEF Placed, Early, Steps
    <3>3. First(opt) \in {3, 4}
      BY DEF First
    <3>4. y.n = 1
      BY <3>1, <3>2, <3>3 DEF Written
    <3> QED BY <2>2, <3>1, <3>2, <3>4
  <2> QED BY <2>1, <2>2
<1>5. "INIT_RECVD" \notin r.flags
  BY <1>1, <1>2 DEF Phase, Busy
<1>6. r.flags \cup {"INIT_RECVD"} \in SUBSET Flag
  BY <1>1 DEF Ssh, Flag
<1>7. p \in Ssh(opt)
  BY <1>1, <1>2, <1>3, <1>6 DEF Ssh
<1>8. /\ Carried(r, p) /\ p.rekeying = r.rekeying /\ p.done = r.done /\ p.flags = r.flags \cup {"INIT_RECVD"}
      /\ p.strict = r.strict /\ p.my = r.my /\ p.peer = pk.n /\ p.handover = r.handover /\ p.ext = r.ext
      /\ p.newkeys = r.newkeys /\ p.queue = r.queue /\ p.dispatch = r.dispatch
  BY <1>1 DEF Ssh, Carried
<1> HIDE DEF p
<1>9. Sender(p, f, y) /\ Input(r, p)
  <2>1. r.authed => "INITIAL" \notin p.flags
    BY <1>4, <1>8
  <2> QED BY <1>7, <1>8, <2>1, Pure
<1>10. {"KEXINIT"} \in SUBSET PacketType
  BY DEF PacketType, TransportType
<1>11. a \in Ssh(opt) /\ Carried(p, a) /\ Rest(p, a) /\ a.dispatch = p.dispatch \ {"KEXINIT"}
  BY <1>7, <1>10, Table
<1> HIDE DEF a
<1>12. Sender(a, f, y) /\ Input(r, a)
  <2>1. Sender(a, f, y) /\ Input(p, a)
    BY <1>9, <1>11, SenderTable
  <2> QED BY <1>1, <1>7, <1>9, <1>11, <2>1, InputTransitive
<1>13. /\ a.rekeying = r.rekeying /\ a.done = r.done /\ a.flags = r.flags \cup {"INIT_RECVD"} /\ a.authed = r.authed
       /\ a.strict = r.strict /\ a.my = r.my /\ a.peer = x.k + 1 /\ a.handover = r.handover /\ a.ext = r.ext
       /\ a.newkeys = r.newkeys /\ a.queue = r.queue /\ a.dispatch = r.dispatch \ {"KEXINIT"}
  BY <1>2, <1>8, <1>11 DEF Carried, Rest
\* What kex_send_kexinit makes of it.
<1>14. /\ \E z : /\ Sender(b, f, z) /\ z.st = "kexinit" /\ z.k = x.k + 1
                 /\ ~r.authed => z.n = 1
       /\ Input(r, b)
       /\ b.done = FALSE /\ b.rekeying = TRUE /\ b.my = x.k + 1 /\ b.flags = a.flags \cup {"INIT_SENT"}
       /\ b.strict = a.strict /\ b.peer = a.peer /\ b.handover = a.handover /\ b.ext = a.ext
       /\ b.authed = a.authed /\ b.newkeys = a.newkeys /\ b.queue = a.queue /\ b.dispatch = a.dispatch
  <2>1. CASE "INIT_SENT" \in a.flags
    <3>1. b = a
      BY <2>1 DEF kex_send_kexinit
    <3>2. ~r.done /\ r.done \in BOOLEAN /\ r.rekeying \in BOOLEAN
      BY <1>1, <1>13, <2>1, SshTypes DEF Phase
    <3>3. y.st = "kexinit" /\ y.k = x.k + 1 /\ r.rekeying /\ r.my = x.k + 1
      BY <1>1, <1>2, <3>2 DEF Phase, Steps, Busy
    <3> HIDE DEF b
    <3> QED BY <1>4, <1>12, <1>13, <2>1, <3>1, <3>2, <3>3
  <2>2. CASE "INIT_SENT" \notin a.flags
    <3>1. r.done
      BY <1>1, <1>13, <2>2 DEF Phase
    <3>2. x.st = "open" /\ x.k = y.k /\ y.st \notin Busy
      BY <1>1, <1>2, <3>1 DEF Phase, Steps
    <3>3. r.authed
      BY <1>4, <3>2
    <3>4. y.st = "open" /\ y.k = a.my
      BY <1>1, <1>3, <1>13, <3>2, <3>3 DEF Authed, Post, Stages, Phase
    <3>5. Room(a, y)
      BY <1>13, <3>3 DEF Room
    <3>6. /\ \E z : /\ Sender(b, f, z) /\ z.k = y.k + 1 /\ z.st = "kexinit"
                    /\ ~a.authed => z.n = y.n + 1
          /\ Input(a, b) /\ Initiated(a, b, y.k + 1)
      BY <1>12, <2>2, <3>4, <3>5, KexinitSent
    <3> HIDE DEF b
    <3>7. b \in Ssh(opt)
      BY <3>6 DEF Sender
    <3>8. Input(r, b)
      BY <1>1, <1>11, <1>12, <3>6, <3>7, InputTransitive
    <3> QED BY <3>2, <3>3, <3>6, <3>8 DEF Initiated
  <2> QED BY <2>1, <2>2
<1> HIDE DEF b
<1>15. PICK z : /\ Sender(b, f, z) /\ z.st = "kexinit" /\ z.k = x.k + 1
                /\ ~r.authed => z.n = 1
  BY <1>14
<1>16. b \in Ssh(opt)
  BY <1>15 DEF Sender
\* What kex_choose_conf makes of it.
<1>17. /\ Sender(s, f, z) /\ Input(b, s) /\ s \in Ssh(opt) /\ s.strict = Strict
       /\ s.rekeying = b.rekeying /\ s.done = b.done /\ s.flags = b.flags
       /\ s.my = b.my /\ s.peer = b.peer /\ s.handover = b.handover /\ s.ext = b.ext /\ s.authed = b.authed
       /\ s.newkeys = b.newkeys /\ s.queue = b.queue /\ s.dispatch = b.dispatch
  <2>1. CASE r.authed
    <3>1. "INITIAL" \notin b.flags
      BY <1>4, <1>13, <1>14, <2>1
    <3>2. s = b
      BY <3>1 DEF kex_choose_conf
    <3>3. r.strict = opt.strict
      BY <1>1, <1>4, <2>1 DEF Settled, Steps
    <3> HIDE DEF s
    <3> QED BY <1>13, <1>14, <1>15, <1>16, <3>2, <3>3, InputReflexive DEF Strict
  <2>2. CASE ~r.authed
    <3>1. "INITIAL" \in b.flags /\ pk.seq = 0 /\ ~b.authed
      BY <1>2, <1>4, <1>13, <1>14, <2>2
    <3>2. s = [b EXCEPT !.strict = Strict]
      BY <3>1 DEF kex_choose_conf
    <3>3. Strict \in BOOLEAN
      BY DEF Strict, OptOK
    <3>4. s \in Ssh(opt)
      BY <1>16, <3>2, <3>3 DEF Ssh
    <3>5. /\ Carried(b, s) /\ s.strict = Strict
          /\ s.rekeying = b.rekeying /\ s.done = b.done /\ s.flags = b.flags
          /\ s.my = b.my /\ s.peer = b.peer /\ s.handover = b.handover /\ s.ext = b.ext /\ s.authed = b.authed
          /\ s.newkeys = b.newkeys /\ s.queue = b.queue /\ s.dispatch = b.dispatch
      BY <1>16, <3>2 DEF Ssh, Carried
    <3> HIDE DEF s
    <3>6. Sender(s, f, z) /\ Input(b, s)
      BY <1>15, <3>1, <3>4, <3>5, Pure
    <3> QED BY <3>4, <3>5, <3>6
  <2> QED BY <2>1, <2>2
<1> HIDE DEF s
<1>18. Input(r, s)
  BY <1>1, <1>14, <1>16, <1>17, InputTransitive
<1>19. Agreed(r, s, x.k + 1)
  BY <1>13, <1>14, <1>17 DEF Agreed
<1> QED BY <1>4, <1>5, <1>15, <1>17, <1>18, <1>19 DEF s, b, a, p, Answered

\* What a handler of the exchange leaves alone.
Aside(r, s) ==
    /\ s.handover = r.handover /\ s.ext = r.ext
    /\ \A g \in {"INITIAL", "attempted"} : g \in s.flags <=> g \in r.flags
    /\ \A g \in AppType : g \in s.dispatch <=> g \in r.dispatch
    /\ s.queue = r.queue \/ s.queue = <<>>

\* Where the exchange's next packet leads, before authentication.
LEMMA PlacedAfter ==
    ASSUME OptOK(opt), NEW x \in Position(opt), Placed(opt, x), x.st = "start" <=> x.k = 0, NEW d, NEW t, May(opt, d, x, t),
           t \in {"KEXINIT", "GEX_REQUEST", "GEX_GROUP", "INIT", "REPLY"}
    PROVE  /\ Placed(opt, After(opt, x, t)) /\ After(opt, x, t).n = x.n + 1 /\ After(opt, x, t).n < First(opt)
           /\ After(opt, x, t).st # "auth" /\ x.n < First(opt) /\ x.st # "auth"
<1> DEFINE u == After(opt, x, t)
<1>1. First(opt) = (IF opt.gex THEN 4 ELSE 3) /\ x.n \in Nat /\ x.k \in Nat /\ x.st \in Stages /\ x.seq \in Sequenced(opt)
  BY DEF First, Position, Most, OptOK
<1>2. x.st # "open" /\ Early(x) /\ x.comp = "off" /\ x.seq <= x.n
  BY DEF Placed, Early
<1>3. \/ t = "KEXINIT" /\ x.st = "start"
      \/ t \in {"GEX_REQUEST", "GEX_GROUP"} /\ x.st = "kexinit" /\ opt.gex
      \/ t \in {"INIT", "REPLY"} /\ x.st = Eve(opt)
  BY <1>2 DEF May, Prelude, Method, Dialogue, AppType
<1>4. /\ u.st = StageAfter(x, t) /\ u.comp = CompAfter(opt, x, t) /\ u.n = x.n + 1
      /\ u.k = (IF t = "KEXINIT" THEN x.k + 1 ELSE x.k) /\ u.seq = (x.seq + 1) % opt.seq_wrap
  BY <1>2 DEF After
<1>5. (x.seq + 1) % opt.seq_wrap <= x.seq + 1 /\ (x.seq + 1) % opt.seq_wrap \in Sequenced(opt)
  BY <1>1, NextNumber
<1>6. opt.seq_wrap \in Nat
  BY DEF OptOK
<1>7. u.comp = "off" /\ u.seq <= u.n
  <2>1. u.comp = "off"
    BY <1>2, <1>3, <1>4 DEF CompAfter, Used
  <2>2. x.seq \in Nat /\ u.seq \in Nat
    BY <1>1, <1>4, <1>5, <1>6 DEF Sequenced
  <2> QED BY <1>1, <1>2, <1>4, <1>5, <2>1, <2>2
<1> HIDE DEF u
<1>8. CASE t = "KEXINIT"
  <2>1. u.st = "kexinit" /\ u.k = 1 /\ u.n = 1 /\ x.n = 0
    BY <1>1, <1>3, <1>4, <1>8 DEF Placed, StageAfter
  <2>2. Placed(opt, u)
    BY <1>7, <2>1 DEF Placed, Early
  <2> QED BY <1>1, <1>3, <1>8, <2>1, <2>2 DEF u
<1>9. CASE t \in {"GEX_REQUEST", "GEX_GROUP"}
  <2>1. u.st = "gex" /\ u.k = 1 /\ u.n = 2 /\ x.n = 1 /\ opt.gex
    BY <1>1, <1>2, <1>3, <1>4, <1>9 DEF Placed, StageAfter, Early
  <2>2. Placed(opt, u)
    BY <1>7, <2>1 DEF Placed, Early
  <2> QED BY <1>1, <1>3, <1>9, <2>1, <2>2 DEF u
<1>10. CASE t \in {"INIT", "REPLY"}
  <2>1. u.st = "method" /\ u.k = 1 /\ u.n = First(opt) - 1
    BY <1>1, <1>2, <1>3, <1>4, <1>10 DEF Placed, StageAfter, Early, Eve
  <2>2. Placed(opt, u)
    BY <1>7, <2>1 DEF Placed, Early
  <2>3. First(opt) \in Nat
    BY <1>1
  <2> QED BY <1>1, <1>3, <1>4, <1>10, <2>1, <2>2, <2>3 DEF u, Eve
<1> QED BY <1>8, <1>9, <1>10

\* Every step of the exchange keeps the rest as it is.
LEMMA Midway ==
    ASSUME OptOK(opt), NEW r, NEW x, NEW y, Whole(opt, r, x, y), ~r.handover,
           NEW t \in {"KEXINIT", "GEX_REQUEST", "GEX_GROUP", "INIT", "REPLY"}, NEW d, May(opt, d, x, t),
           NEW u \in Position(opt), u = After(opt, x, t), NEW s, NEW f, NEW z, Sender(s, f, z), Input(r, s), s.authed = r.authed,
           Aside(r, s), Accepts(opt, s, u), Phase(s, u, z), Steps(opt, s.server, u, z), Derived(s, u), Settled(opt, s, u, z),
           ~r.authed => z.n = Written(opt, s.server, u.n)
    PROVE  Whole(opt, s, u, z)
<1>1. /\ r \in Ssh(opt) /\ x \in Position(opt) /\ y \in Position(opt) /\ r.key["in"] = Key(x)
      /\ Steps(opt, r.server, x, y)
      /\ r.authed => Authed(opt, r, x, y)
      /\ ~r.authed => Unauthed(opt, r, x, y)
  BY WholeParts
<1>2. /\ s \in Ssh(opt) /\ s.fault = "none" /\ z \in Position(opt) /\ At(s, "out", z)
      /\ s.authed => Post(s, z)
      /\ ~s.authed => Pre(s, z)
  BY DEF Sender, Kind
<1>3. Key(u) = Key(x)
  BY <1>1, KeyAfter
<1>4. s.key["in"] = Key(u) /\ s.server = r.server
  BY <1>1, <1>3 DEF Input
<1>5. CASE r.authed
  <2>1. x.st # "auth" /\ ~Early(x) /\ x.k \in Nat
    BY <1>1, <1>5 DEF Authed, Position
  <2>2. u.st \in Busy /\ u.n = 0 /\ u.k \in {x.k, x.k + 1}
    BY <2>1 DEF After, StageAfter, Busy
  <2>3. ~Early(u)
    <3>1. x.k # 0 /\ (x.k = 1 => x.st = "open")
      BY <2>1 DEF Early
    <3>2. x.st = "open" => t = "KEXINIT"
      BY DEF May, Prelude, Method, Eve, AppType
    <3>3. t = "KEXINIT" => u.k = x.k + 1
      BY DEF After
    <3>4. u.k # 0 /\ u.k # 1
      BY <2>1, <2>2, <3>1, <3>2, <3>3
    <3> QED BY <3>4 DEF Early
  <2>4. \A i \in 1..Len(s.queue) : s.queue[i].type \in AppType
    <3>1. \A i \in 1..Len(r.queue) : r.queue[i].type \in AppType
      BY <1>1, <1>5 DEF Authed
    <3> QED BY <3>1 DEF Aside
  <2>5. AppType \subseteq s.dispatch /\ ~s.handover
    BY <1>1, <1>5 DEF Authed, Aside
  <2>6. Authed(opt, s, u, z)
    BY <1>2, <1>5, <2>2, <2>3, <2>4, <2>5 DEF Authed, Busy
  <2> QED BY <1>2, <1>4, <1>5, <2>6 DEF Whole, Exchange
<1>6. CASE ~r.authed
  <2>1. Unauthed(opt, r, x, y) /\ Placed(opt, x) /\ (x.st = "start" <=> x.k = 0)
    BY <1>1, <1>6 DEF Unauthed, Steps
  <2>2. Placed(opt, u) /\ u.n = x.n + 1 /\ u.n < First(opt) /\ u.st # "auth" /\ x.n < First(opt) /\ x.st # "auth"
    BY <1>1, <2>1, PlacedAfter
  <2>3. First(opt) \in {3, 4} /\ u.n \in Nat /\ x.n \in Nat
    BY <1>1 DEF First, Position, Most, OptOK
  <2>4. /\ r.queue = <<>> /\ "DATA" \notin r.dispatch /\ "INITIAL" \in r.flags /\ r.ext = 0
        /\ r.server => "attempted" \notin r.flags
    BY <2>1, <2>2, <2>3 DEF Unauthed
  <2>5. /\ s.queue = <<>> /\ "DATA" \notin s.dispatch /\ "INITIAL" \in s.flags /\ s.ext = 0 /\ ~s.handover
        /\ s.server => "attempted" \notin s.flags
    BY <1>4, <2>4 DEF Aside, AppType
  <2> DEFINE i == u.n - First(opt)
  <2>6. i < 0 /\ ~(i = 0) /\ ~(i = 1) /\ ~(i = 2) /\ ~(i > 0) /\ ~(i > 1) /\ ~(i > 2) /\ i \notin {1, 2}
    BY <2>2, <2>3
  <2> HIDE DEF i
  <2>7. Unauthed(opt, s, u, z)
    BY <1>2, <1>4, <1>6, <2>2, <2>5, <2>6 DEF Unauthed, i
  <2> QED BY <1>2, <1>4, <1>6, <2>7 DEF Whole, Exchange
<1> QED BY <1>5, <1>6

\* A message of the method is sent and its answer expected.
LEMMA SendExpect ==
    ASSUME OptOK(opt), NEW r, NEW f, NEW y, Sender(r, f, y), Room(r, y), NEW t \in MethodType, May(opt, Me(r), y, t),
           t = "REPLY" => ExchangeHash(r) = <<y.k, y.k>>, NEW T \in SUBSET PacketType
    PROVE  LET s == Expect(ssh_packet_send2(r, t, 0), T)
           IN  /\ Sender(s, f, After(opt, y, t)) /\ Input(r, s) /\ Rest(r, s) /\ s.authed = r.authed
               /\ s.dispatch = r.dispatch \cup T
               /\ After(opt, y, t).n = IF r.authed THEN 0 ELSE y.n + 1
<1> DEFINE a == ssh_packet_send2_wrapped(r, t, 0)
           s == Expect(a, T)
           z == After(opt, y, t)
<1>1. t \in PacketType \ {"NEWKEYS", "USERAUTH_SUCCESS"} /\ t # "NEWKEYS" /\ t # "KEXINIT" /\ ssh_packet_type_is_kex(t) /\ 0 \in Nat
  BY DEF MethodType, PacketType, TransportType, ssh_packet_type_is_kex
<1>2. ssh_packet_send2(r, t, 0) = a
  BY <1>1, KexSend
<1>3. /\ Sender(a, f, z) /\ Kept(r, a) /\ a.authed = r.authed /\ a.newkeys = r.newkeys /\ a.queue = r.queue
      /\ z.n = IF r.authed THEN 0 ELSE y.n + 1
  BY <1>1, Sends
<1> HIDE DEF a, z
<1>4. a \in Ssh(opt) /\ r \in Ssh(opt)
  BY <1>3 DEF Sender
<1>5. s \in Ssh(opt) /\ Carried(a, s) /\ Rest(a, s) /\ s.dispatch = a.dispatch \cup T
  BY <1>4, Table
<1> HIDE DEF s
<1>6. Sender(s, f, z) /\ Input(a, s)
  BY <1>3, <1>5, SenderTable
<1>7. Input(r, s)
  BY <1>3, <1>4, <1>5, <1>6, InputTransitive DEF Kept
<1>8. Rest(r, s) /\ s.authed = r.authed /\ s.dispatch = r.dispatch \cup T
  BY <1>3, <1>5 DEF Rest, Carried, Kept, Control
<1> QED BY <1>2, <1>3, <1>6, <1>7, <1>8 DEF s, z

\* What is expected next once both KEXINITs are there.
Awaited(server) ==
    IF GroupExchange THEN Prelude(IF server THEN "client" ELSE "server")
    ELSE Method(IF server THEN "client" ELSE "server")

\* The method's first step: a server waits, a client sends.
LEMMA MethodStarts ==
    ASSUME OptOK(opt), NEW r, NEW f, NEW y, Sender(r, f, y), y.st = "kexinit", ~r.authed => y.n = 1
    PROVE  LET s == StartMethod(r)
           IN  /\ \E z : /\ Sender(s, f, z) /\ z.k = y.k
                         /\ z.st = (IF r.server THEN "kexinit" ELSE IF opt.gex THEN "gex" ELSE "method")
                         /\ ~r.authed => z.n = (IF r.server THEN 1 ELSE 2)
               /\ Input(r, s) /\ Rest(r, s) /\ s.authed = r.authed
               /\ s.dispatch = r.dispatch \cup {Awaited(r.server)}
<1> DEFINE s == StartMethod(r)
<1>1. r \in Ssh(opt) /\ r.server \in BOOLEAN /\ GroupExchange \in BOOLEAN
  BY SshTypes DEF Sender, GroupExchange, OptOK
<1>2. {"GEX_REQUEST"} \in SUBSET PacketType /\ {"GEX_GROUP"} \in SUBSET PacketType
      /\ {"INIT"} \in SUBSET PacketType /\ {"REPLY"} \in SUBSET PacketType
  BY DEF PacketType, TransportType, MethodType
<1>3. Room(r, y)
  <2>1. Most(opt) \in Nat /\ Most(opt) >= 8
    BY DEF Most, First, OptOK
  <2> QED BY <2>1 DEF Room
<1>4. CASE r.server
  <2> DEFINE T == {Awaited(r.server)}
  <2>1. s = Expect(r, T)
    BY <1>1, <1>4 DEF StartMethod, kexgex_server, kex_gen_server, Awaited, Prelude, Method
  <2>2. T \in SUBSET PacketType
    BY <1>2, <1>4 DEF Awaited, Prelude, Method
  <2> HIDE DEF T
  <2>3. s \in Ssh(opt) /\ Carried(r, s) /\ Rest(r, s) /\ s.dispatch = r.dispatch \cup T
    BY <1>1, <2>1, <2>2, Table
  <2> HIDE DEF s
  <2>4. Sender(s, f, y) /\ Input(r, s)
    BY <2>3, SenderTable
  <2>5. s.authed = r.authed
    BY <2>3 DEF Carried
  <2> QED BY <1>4, <2>3, <2>4, <2>5 DEF s, T
<1>5. CASE ~r.server /\ opt.gex
  <2> DEFINE z == After(opt, y, "GEX_REQUEST")
             q == Expect(ssh_packet_send2(r, "GEX_REQUEST", 0), {"GEX_GROUP"})
  <2>1. s = q
    BY <1>5 DEF StartMethod, kexgex_client, GroupExchange
  <2>2. "GEX_REQUEST" \in MethodType /\ May(opt, Me(r), y, "GEX_REQUEST")
    BY <1>5 DEF MethodType, May, Me, Prelude
  <2>3. /\ Sender(q, f, z) /\ Input(r, q) /\ Rest(r, q) /\ q.authed = r.authed
        /\ q.dispatch = r.dispatch \cup {"GEX_GROUP"}
        /\ z.n = IF r.authed THEN 0 ELSE y.n + 1
    BY <1>2, <1>3, <2>2, SendExpect
  <2>4. z.st = "gex" /\ z.k = y.k
    BY DEF After, StageAfter
  <2>5. Awaited(r.server) = "GEX_GROUP"
    BY <1>5 DEF Awaited, GroupExchange, Prelude
  <2> HIDE DEF s, z, q
  <2> QED BY <1>5, <2>1, <2>3, <2>4, <2>5 DEF s
<1>6. CASE ~r.server /\ ~opt.gex
  <2> DEFINE z == After(opt, y, "INIT")
             q == Expect(ssh_packet_send2(r, "INIT", 0), {"REPLY"})
  <2>1. s = q
    BY <1>6 DEF StartMethod, kex_gen_client, GroupExchange
  <2>2. "INIT" \in MethodType /\ May(opt, Me(r), y, "INIT")
    BY <1>6 DEF MethodType, May, Me, Method, Eve
  <2>3. /\ Sender(q, f, z) /\ Input(r, q) /\ Rest(r, q) /\ q.authed = r.authed
        /\ q.dispatch = r.dispatch \cup {"REPLY"}
        /\ z.n = IF r.authed THEN 0 ELSE y.n + 1
    BY <1>2, <1>3, <2>2, SendExpect
  <2>4. z.st = "method" /\ z.k = y.k
    BY DEF After, StageAfter
  <2>5. Awaited(r.server) = "REPLY"
    BY <1>6 DEF Awaited, GroupExchange, Method
  <2> HIDE DEF s, z, q
  <2> QED BY <1>6, <2>1, <2>3, <2>4, <2>5 DEF s
<1> QED BY <1>1, <1>4, <1>5, <1>6

\* kex_input_kexinit.
LEMMA ReadsKexinit ==
    ASSUME OptOK(opt), NEW r, NEW f, NEW x, NEW y, Whole(opt, r, x, y), Sender(r, f, y), ~r.handover,
           NEW pk, Fits(opt, Other(r), x, pk), pk.type = "KEXINIT", After(opt, x, "KEXINIT") \in Position(opt)
    PROVE  Comes(r, f, After(opt, x, "KEXINIT"), kex_input_kexinit(r, pk))
<1> DEFINE u == After(opt, x, "KEXINIT")
           c == Answered(r, pk)
           s == StartMethod(c)
<1>1. /\ \E z : /\ Sender(c, f, z) /\ z.st = "kexinit" /\ z.k = x.k + 1
                /\ ~r.authed => z.n = 1
      /\ Input(r, c) /\ Agreed(r, c, x.k + 1) /\ "INIT_RECVD" \notin r.flags
      /\ ~r.authed => x.st = "start"
  BY KexinitRead
<1>2. kex_input_kexinit(r, pk) = s
  BY <1>1 DEF kex_input_kexinit, Answered
<1> HIDE DEF c
<1>3. PICK v : /\ Sender(c, f, v) /\ v.st = "kexinit" /\ v.k = x.k + 1
               /\ ~r.authed => v.n = 1
  BY <1>1
<1>4. c.authed = r.authed /\ c.server = r.server
  BY <1>1 DEF Agreed, Input
<1>5. /\ \E z : /\ Sender(s, f, z) /\ z.k = v.k
                /\ z.st = (IF c.server THEN "kexinit" ELSE IF opt.gex THEN "gex" ELSE "method")
                /\ ~c.authed => z.n = (IF c.server THEN 1 ELSE 2)
      /\ Input(c, s) /\ Rest(c, s) /\ s.authed = c.authed
      /\ s.dispatch = c.dispatch \cup {Awaited(c.server)}
  BY <1>3, <1>4, MethodStarts
<1> HIDE DEF s
<1>6. PICK z : /\ Sender(s, f, z) /\ z.k = x.k + 1
               /\ z.st = (IF r.server THEN "kexinit" ELSE IF opt.gex THEN "gex" ELSE "method")
               /\ ~r.authed => z.n = (IF r.server THEN 1 ELSE 2)
  BY <1>3, <1>4, <1>5
<1>7. /\ r \in Ssh(opt) /\ x \in Position(opt) /\ Derived(r, x) /\ Settled(opt, r, x, y)
      /\ ~r.authed => Unauthed(opt, r, x, y)
  BY WholeParts
<1>8. c \in Ssh(opt) /\ s \in Ssh(opt)
  BY <1>3, <1>6 DEF Sender
<1>9. Input(r, s) /\ s.authed = r.authed /\ s.server = r.server
  BY <1>1, <1>4, <1>5, <1>7, <1>8, InputTransitive DEF Input
<1>10. /\ s.done = FALSE /\ s.rekeying = TRUE /\ s.my = x.k + 1 /\ s.peer = x.k + 1
       /\ s.flags = r.flags \cup {"INIT_RECVD", "INIT_SENT"} /\ s.strict = Strict
       /\ s.handover = r.handover /\ s.ext = r.ext /\ s.newkeys = r.newkeys
       /\ s.queue = r.queue /\ s.dispatch = (r.dispatch \ {"KEXINIT"}) \cup {Awaited(r.server)}
  BY <1>1, <1>4, <1>5 DEF Agreed, Rest
<1>11. u.st = "kexinit" /\ u.k = x.k + 1 /\ x.k \in Nat
  BY <1>7 DEF After, StageAfter, Position
<1>12. May(opt, Other(r), x, "KEXINIT") /\ x.st \in {"start", "open"}
  BY DEF Fits, May, Prelude, Method, Dialogue, AppType
<1>13. u \in Position(opt)
  OBVIOUS
<1>14. ~r.authed => u.n = 1
  <2>1. ~r.authed => x.n = 0 /\ Early(x)
    BY <1>1, <1>7 DEF Unauthed, Placed
  <2> QED BY <2>1 DEF After
<1> HIDE DEF u
<1>15. Phase(s, u, z)
  BY <1>6, <1>10, <1>11 DEF Phase, Busy
<1>16. Steps(opt, s.server, u, z)
  BY <1>6, <1>9, <1>11 DEF Steps, Busy
<1>17. Derived(s, u)
  BY <1>7, <1>10, <1>11, <1>12 DEF Derived
<1>18. Settled(opt, s, u, z)
  BY <1>6, <1>10 DEF Settled, Busy, Strict
<1>19. Accepts(opt, s, u)
  BY <1>9, <1>10, <1>11 DEF Accepts, Awaited, Other, Eve, GroupExchange
<1>20. Aside(r, s)
  BY <1>10 DEF Aside, Awaited, Prelude, Method, AppType
<1>21. ~r.authed => z.n = Written(opt, s.server, u.n)
  <2>1. First(opt) \in {3, 4}
    BY DEF First
  <2> QED BY <1>6, <1>9, <1>14, <2>1 DEF Written
<1>22. Whole(opt, s, u, z)
  BY <1>6, <1>9, <1>12, <1>13, <1>15, <1>16, <1>17, <1>18, <1>19, <1>20, <1>21, Midway DEF u
<1> QED BY <1>2, <1>6, <1>9, <1>22 DEF Comes, u

\* How far an end has come in an exchange when the peer's next packet is read.
LEMMA Amid ==
    ASSUME OptOK(opt), NEW r, NEW x, NEW y, Whole(opt, r, x, y), x.st \in {"kexinit", "gex"}
    PROVE  /\ r \in Ssh(opt) /\ x \in Position(opt) /\ x.k \in Nat /\ x.k # 0 /\ y.k = x.k /\ r.my = x.k /\ r.peer = x.k
           /\ ~r.done /\ r.done \in BOOLEAN /\ r.rekeying /\ r.strict = Strict
           /\ "INIT_RECVD" \in r.flags /\ "INIT_SENT" \in r.flags
           /\ r.newkeys = [m \in Mode |-> NoKey]
           /\ ~r.authed => /\ r.queue = <<>> /\ "INITIAL" \in r.flags /\ x.n = (IF x.st = "kexinit" THEN 1 ELSE 2)
                           /\ y.n = Written(opt, r.server, x.n)
           /\ \A i \in 1..Len(r.queue) : r.queue[i].type \in AppType
           /\ r.server => y.st = x.st
           /\ ~r.server => y.st = IF x.st = "kexinit" /\ opt.gex THEN "gex" ELSE "method"
           /\ x.st = "gex" => opt.gex
<1>1. /\ r \in Ssh(opt) /\ x \in Position(opt) /\ Phase(r, x, y) /\ Steps(opt, r.server, x, y) /\ Derived(r, x) /\ Settled(opt, r, x, y)
      /\ r.authed => Authed(opt, r, x, y)
      /\ ~r.authed => Unauthed(opt, r, x, y)
  BY WholeParts
<1>2. x.k \in Nat /\ r.done \in BOOLEAN
  BY <1>1, SshTypes DEF Position
<1>3. /\ x.k # 0 /\ y.k = x.k /\ y.st \in Busy
      /\ r.server => y.st = x.st
      /\ ~r.server => y.st = IF x.st = "kexinit" /\ opt.gex THEN "gex" ELSE "method"
      /\ x.st = "gex" => opt.gex
  BY <1>1 DEF Steps, Busy
<1>4. /\ r.my = x.k /\ r.peer = x.k /\ ~r.done /\ r.rekeying /\ "INIT_RECVD" \in r.flags /\ "INIT_SENT" \in r.flags
  BY <1>1, <1>3 DEF Phase, Busy
<1>5. r.strict = Strict
  BY <1>1, <1>3 DEF Settled, Strict
<1>6. r.newkeys = [m \in Mode |-> NoKey]
  BY <1>1 DEF Derived
<1>7. ~r.authed => /\ r.queue = <<>> /\ "INITIAL" \in r.flags /\ x.n = (IF x.st = "kexinit" THEN 1 ELSE 2)
                   /\ y.n = Written(opt, r.server, x.n)
  BY <1>1 DEF Unauthed, Placed
<1>8. \A i \in 1..Len(r.queue) : r.queue[i].type \in AppType
  BY <1>1 DEF Authed, Unauthed
<1> QED BY <1>1, <1>2, <1>3, <1>4, <1>5, <1>6, <1>7, <1>8

\* An end that refuses a type.
LEMMA Refuses ==
    ASSUME NEW r, NEW f, NEW y, Sender(r, f, y), NEW T \in SUBSET PacketType
    PROVE  /\ Sender(Refuse(r, T), f, y) /\ Input(r, Refuse(r, T)) /\ Rest(r, Refuse(r, T))
           /\ Refuse(r, T).authed = r.authed /\ Refuse(r, T).dispatch = r.dispatch \ T
<1> DEFINE a == Refuse(r, T)
<1>1. r \in Ssh(opt)
  BY DEF Sender
<1>2. a \in Ssh(opt) /\ Carried(r, a) /\ Rest(r, a) /\ a.dispatch = r.dispatch \ T
  BY <1>1, Table
<1> HIDE DEF a
<1>3. Sender(a, f, y) /\ Input(r, a) /\ a.authed = r.authed
  BY <1>2, SenderTable DEF Carried
<1> QED BY <1>2, <1>3 DEF a

\* The handlers of GEX_REQUEST and GEX_GROUP.
PreludeRead(r) == IF r.server THEN input_kex_dh_gex_request(r) ELSE input_kex_dh_gex_group(r)

\* The messages before the method's last ones.
LEMMA ReadsPrelude ==
    ASSUME OptOK(opt), NEW r, NEW f, NEW x, NEW y, Whole(opt, r, x, y), Sender(r, f, y), ~r.handover,
           NEW t, t = Prelude(Other(r)), May(opt, Other(r), x, t), After(opt, x, t) \in Position(opt)
    PROVE  Comes(r, f, After(opt, x, t), PreludeRead(r))
<1> DEFINE u == After(opt, x, t)
           e == Method(Other(r))
           m == IF r.server THEN "GEX_GROUP" ELSE "INIT"
           a == Refuse(r, {t})
           s == Expect(ssh_packet_send2(a, m, 0), {e})
           z == After(opt, y, m)
<1>1. x.st = "kexinit" /\ opt.gex
  BY DEF May, Prelude, Method, Dialogue, AppType, Other
<1>2. /\ r \in Ssh(opt) /\ x \in Position(opt) /\ x.k \in Nat /\ x.k # 0 /\ y.k = x.k /\ r.my = x.k /\ r.peer = x.k
      /\ ~r.done /\ r.done \in BOOLEAN /\ r.rekeying /\ r.strict = Strict
      /\ "INIT_RECVD" \in r.flags /\ "INIT_SENT" \in r.flags
      /\ r.newkeys = [i \in Mode |-> NoKey]
      /\ ~r.authed => /\ r.queue = <<>> /\ "INITIAL" \in r.flags /\ x.n = 1 /\ y.n = Written(opt, r.server, x.n)
      /\ y.st = (IF r.server THEN "kexinit" ELSE "gex")
  BY <1>1, Amid
<1>3. PreludeRead(r) = s
  BY DEF PreludeRead, input_kex_dh_gex_request, input_kex_dh_gex_group, Prelude, Method, Other
<1>4. t \in PacketType /\ {t} \in SUBSET PacketType /\ m \in MethodType /\ {e} \in SUBSET PacketType
      /\ t \in {"KEXINIT", "GEX_REQUEST", "GEX_GROUP", "INIT", "REPLY"}
  BY DEF PacketType, TransportType, MethodType, Prelude, Method, Other
<1>5. Sender(a, f, y) /\ Input(r, a) /\ Rest(r, a) /\ a.authed = r.authed /\ a.dispatch = r.dispatch \ {t}
  BY <1>4, Refuses
<1>6. a \in Ssh(opt)
  BY <1>5 DEF Sender
<1>7. First(opt) = 4 /\ Most(opt) \in Nat /\ Most(opt) >= 8
  BY <1>1 DEF First, Most, OptOK
<1>8. ~r.authed => y.n = IF r.server THEN 1 ELSE 2
  BY <1>2, <1>7 DEF Written
<1> HIDE DEF a
<1>9. Room(a, y)
  BY <1>5, <1>7, <1>8 DEF Room
<1>10. May(opt, Me(a), y, m)
  <2>1. Me(a) = Me(r)
    BY <1>5 DEF Me, Input
  <2> QED BY <1>1, <1>2, <2>1 DEF May, Me, Prelude, Method, Eve
<1>11. /\ Sender(s, f, z) /\ Input(a, s) /\ Rest(a, s) /\ s.authed = a.authed
       /\ s.dispatch = a.dispatch \cup {e}
       /\ z.n = IF a.authed THEN 0 ELSE y.n + 1
  <2>1. m # "REPLY"
    OBVIOUS
  <2> HIDE DEF m, e
  <2> QED BY <1>4, <1>5, <1>9, <1>10, <2>1, SendExpect
<1>12. z.st = (IF r.server THEN "gex" ELSE "method") /\ z.k = x.k
  BY <1>2 DEF After, StageAfter
<1>13. u.st = "gex" /\ u.k = x.k
  BY <1>4 DEF After, StageAfter, Prelude, Other
<1>14. ~r.authed => u.n = 2
  <2>1. ~r.authed => Early(x)
    BY WholeParts DEF Unauthed, Placed
  <2> QED BY <1>2, <1>4, <2>1 DEF After
<1>15. u \in Position(opt)
  OBVIOUS
<1> HIDE DEF s, z, u
<1>16. s \in Ssh(opt)
  BY <1>11 DEF Sender
<1>17. Input(r, s) /\ s.authed = r.authed /\ s.server = r.server
  BY <1>2, <1>5, <1>6, <1>11, <1>16, InputTransitive DEF Input
<1>18. Rest(r, s) /\ s.dispatch = (r.dispatch \ {t}) \cup {e}
  BY <1>5, <1>11 DEF Rest
<1>19. Phase(s, u, z)
  BY <1>2, <1>12, <1>13, <1>18 DEF Phase, Busy, Rest
<1>20. Steps(opt, s.server, u, z)
  BY <1>1, <1>2, <1>12, <1>13, <1>17 DEF Steps, Busy
<1>21. Derived(s, u)
  BY <1>2, <1>13, <1>18 DEF Derived, Rest
<1>22. Settled(opt, s, u, z)
  BY <1>2, <1>12, <1>18 DEF Settled, Busy, Strict, Rest
<1>23. Accepts(opt, s, u)
  BY <1>1, <1>13, <1>17, <1>18 DEF Accepts, Other, Eve
<1>24. Aside(r, s)
  BY <1>18, <1>4 DEF Aside, AppType, Rest, Method
<1>25. ~r.authed => z.n = Written(opt, s.server, u.n)
  BY <1>5, <1>7, <1>8, <1>11, <1>14, <1>17 DEF Written
<1>26. Whole(opt, s, u, z)
  BY <1>4, <1>11, <1>15, <1>17, <1>19, <1>20, <1>21, <1>22, <1>23, <1>24, <1>25, Midway DEF u
<1> QED BY <1>3, <1>11, <1>17, <1>26 DEF Comes, u

\* kex_derive_keys: the keys are named by the two KEXINITs.
LEMMA DerivesKeys ==
    ASSUME NEW r, NEW f, NEW y, Sender(r, f, y), r.my = r.peer
    PROVE  LET s == kex_derive_keys(r)
           IN  /\ Sender(s, f, y) /\ Input(r, s) /\ Standing(r, s) /\ s.newkeys = [m \in Mode |-> <<r.my, r.my>>]
               /\ s.queue = r.queue /\ s.dispatch = r.dispatch
<1> DEFINE k == [m \in Mode |-> <<r.my, r.my>>]
           s == [r EXCEPT !.newkeys = k]
<1>1. kex_derive_keys(r) = s
  BY DEF kex_derive_keys, ExchangeHash
<1>2. r \in Ssh(opt) /\ k \in [Mode -> Nat \X Nat]
  BY SshTypes DEF Sender
<1> HIDE DEF k
<1>3. s \in Ssh(opt)
  BY <1>2 DEF Ssh
<1>4. Carried(r, s) /\ Standing(r, s) /\ s.newkeys = k /\ s.queue = r.queue /\ s.dispatch = r.dispatch
  BY <1>2 DEF Ssh, Carried, Standing
<1> HIDE DEF s
<1>5. r.authed => "INITIAL" \notin s.flags
  BY <1>4 DEF Standing, Sender, Kind, Post
<1>6. Sender(s, f, y) /\ Input(r, s)
  BY <1>3, <1>4, <1>5, Pure
<1> QED BY <1>1, <1>4, <1>6 DEF k

\* The handlers of INIT and REPLY up to the NEWKEYS they send.
Keyed(r) ==
    kex_derive_keys(IF r.server THEN ssh_packet_send2(Refuse(r, {"INIT"}), "REPLY", 0) ELSE Refuse(r, {"REPLY"}))

\* Both ends derive the same keys.
LEMMA MethodEnds ==
    ASSUME OptOK(opt), NEW r, NEW f, NEW x, NEW y, Whole(opt, r, x, y), Sender(r, f, y), x.st = Eve(opt)
    PROVE  LET s == Keyed(r)
           IN  /\ \E z : /\ Sender(s, f, z) /\ z.st = "method" /\ z.k = x.k
                         /\ ~r.authed => z.n = First(opt) - 1
               /\ Input(r, s) /\ Standing(r, s) /\ s.newkeys = [m \in Mode |-> <<x.k, x.k>>]
               /\ s.queue = r.queue /\ s.dispatch = r.dispatch \ {Method(Other(r))}
<1> DEFINE e == Method(Other(r))
           a == Refuse(r, {e})
           b == IF r.server THEN ssh_packet_send2(a, "REPLY", 0) ELSE a
           s == kex_derive_keys(b)
<1>1. x.st \in {"kexinit", "gex"}
  BY DEF Eve
<1>2. /\ r \in Ssh(opt) /\ x \in Position(opt) /\ x.k \in Nat /\ x.k # 0 /\ y.k = x.k /\ r.my = x.k /\ r.peer = x.k
      /\ ~r.authed => /\ x.n = (IF x.st = "kexinit" THEN 1 ELSE 2)
                      /\ y.n = Written(opt, r.server, x.n)
      /\ r.server => y.st = x.st
      /\ ~r.server => y.st = IF x.st = "kexinit" /\ opt.gex THEN "gex" ELSE "method"
  BY <1>1, Amid
<1>3. ~r.server => y.st = "method"
  BY <1>2 DEF Eve
<1>4. ~r.authed => y.n = IF r.server THEN First(opt) - 2 ELSE First(opt) - 1
  BY <1>2 DEF Written, First, Eve
<1>5. First(opt) \in {3, 4} /\ Most(opt) \in Nat /\ Most(opt) >= 8
  BY DEF First, Most, OptOK
<1>6. Keyed(r) = s
  BY DEF Keyed, Method, Other
<1>7. {e} \in SUBSET PacketType
  BY DEF PacketType, TransportType, MethodType, Method
<1> HIDE DEF e
<1>8. Sender(a, f, y) /\ Input(r, a) /\ Rest(r, a) /\ a.authed = r.authed /\ a.dispatch = r.dispatch \ {e}
  BY <1>7, Refuses
<1> HIDE DEF a
<1>9. a \in Ssh(opt) /\ a.server = r.server
  BY <1>8 DEF Sender, Input
<1>10. /\ \E z : /\ Sender(b, f, z) /\ z.st = "method" /\ z.k = x.k
                 /\ ~r.authed => z.n = First(opt) - 1
       /\ Input(r, b) /\ Rest(r, b) /\ b.authed = r.authed /\ b.dispatch = r.dispatch \ {e}
  <2>1. CASE ~r.server
    BY <1>2, <1>3, <1>4, <1>8, <2>1
  <2>2. CASE r.server
    <3> DEFINE w == ssh_packet_send2_wrapped(a, "REPLY", 0)
               z == After(opt, y, "REPLY")
    <3>1. /\ "REPLY" \in PacketType \ {"NEWKEYS", "USERAUTH_SUCCESS"} /\ "REPLY" # "NEWKEYS" /\ "REPLY" # "KEXINIT"
          /\ ssh_packet_type_is_kex("REPLY") /\ 0 \in Nat
      BY DEF MethodType, PacketType, TransportType, ssh_packet_type_is_kex
    <3>2. b = w
      BY <2>2, <3>1, KexSend
    <3>3. Room(a, y)
      BY <1>4, <1>5, <1>8, <2>2 DEF Room
    <3>4. May(opt, Me(a), y, "REPLY")
      BY <1>2, <1>9, <2>2 DEF May, Me, Method
    <3>5. ExchangeHash(a) = <<y.k, y.k>>
      BY <1>2, <1>8 DEF ExchangeHash, Rest
    <3>6. /\ Sender(w, f, z) /\ Kept(a, w) /\ w.authed = a.authed /\ w.newkeys = a.newkeys /\ w.queue = a.queue
          /\ z.n = IF a.authed THEN 0 ELSE y.n + 1
      BY <1>8, <3>1, <3>3, <3>4, <3>5, Sends
    <3>7. z.st = "method" /\ z.k = x.k
      BY <1>2 DEF After, StageAfter
    <3> HIDE DEF b, w, z
    <3>8. w \in Ssh(opt)
      BY <3>6 DEF Sender
    <3>9. Input(r, w)
      BY <1>2, <1>8, <1>9, <3>6, <3>8, InputTransitive DEF Kept
    <3>10. Rest(r, w) /\ w.authed = r.authed /\ w.dispatch = r.dispatch \ {e}
      BY <1>8, <3>6 DEF Rest, Kept, Control
    <3>11. ~r.authed => z.n = First(opt) - 1
      BY <1>4, <1>5, <1>8, <2>2, <3>6
    <3> QED BY <3>2, <3>6, <3>7, <3>9, <3>10, <3>11
  <2> QED BY <2>1, <2>2
<1> HIDE DEF b
<1>11. PICK z : /\ Sender(b, f, z) /\ z.st = "method" /\ z.k = x.k
                /\ ~r.authed => z.n = First(opt) - 1
  BY <1>10
<1>12. b.my = x.k /\ b.peer = x.k /\ b \in Ssh(opt) /\ Standing(r, b) /\ b.queue = r.queue
  BY <1>2, <1>10, <1>11 DEF Rest, Sender, Standing
<1>13. /\ Sender(s, f, z) /\ Input(b, s) /\ Standing(b, s) /\ s.newkeys = [m \in Mode |-> <<b.my, b.my>>]
       /\ s.queue = b.queue /\ s.dispatch = b.dispatch
  BY <1>11, <1>12, DerivesKeys
<1> HIDE DEF s
<1>14. s \in Ssh(opt)
  BY <1>13 DEF Sender
<1>15. Input(r, s)
  BY <1>2, <1>10, <1>12, <1>13, <1>14, InputTransitive
<1>16. Standing(r, s)
  BY <1>12, <1>13 DEF Standing
<1>17. /\ s.newkeys = [m \in Mode |-> <<x.k, x.k>>] /\ s.queue = r.queue /\ s.dispatch = r.dispatch \ {e}
  BY <1>10, <1>12, <1>13
<1> QED BY <1>6, <1>11, <1>13, <1>15, <1>16, <1>17 DEF e

\* The handlers of INIT and REPLY.
MethodRead(r, pk) == IF r.server THEN input_kex_gen_init(r) ELSE input_kex_gen_reply(r, pk)

\* The method's last message.
LEMMA ReadsMethod ==
    ASSUME OptOK(opt), NEW r, NEW f, NEW x, NEW y, Whole(opt, r, x, y), Sender(r, f, y), ~r.handover,
           ~r.authed => r.blocks["in"] <= x.n + 1,
           NEW pk, NEW t, t = pk.type, t = Method(Other(r)), Fits(opt, Other(r), x, pk), After(opt, x, t) \in Position(opt)
    PROVE  Comes(r, f, After(opt, x, t), MethodRead(r, pk))
<1> DEFINE u == After(opt, x, t)
           b == Keyed(r)
           s == kex_send_newkeys(b)
<1>1. x.st = Eve(opt) /\ May(opt, Other(r), x, t)
  BY DEF Fits, May, Prelude, Method, Dialogue, AppType, Other
<1>2. x.st \in {"kexinit", "gex"}
  BY <1>1 DEF Eve
<1>3. /\ r \in Ssh(opt) /\ x \in Position(opt) /\ x.k \in Nat /\ x.k # 0 /\ y.k = x.k /\ r.my = x.k /\ r.peer = x.k
      /\ ~r.done /\ r.done \in BOOLEAN /\ r.strict = Strict
      /\ "INIT_RECVD" \in r.flags /\ "INIT_SENT" \in r.flags
      /\ ~r.authed => /\ r.queue = <<>> /\ "INITIAL" \in r.flags /\ x.n = (IF x.st = "kexinit" THEN 1 ELSE 2)
      /\ \A i \in 1..Len(r.queue) : r.queue[i].type \in AppType
  BY <1>2, Amid
<1>4. MethodRead(r, pk) = s
  <2>1. ~r.server => pk.hash = ExchangeHash(r)
    BY <1>3 DEF ExchangeHash, Fits, Method, Other
  <2> QED BY <2>1 DEF MethodRead, input_kex_gen_init, input_kex_gen_reply, Keyed
<1>5. /\ \E v : /\ Sender(b, f, v) /\ v.st = "method" /\ v.k = x.k
                /\ ~r.authed => v.n = First(opt) - 1
      /\ Input(r, b) /\ Standing(r, b) /\ b.newkeys = [m \in Mode |-> <<x.k, x.k>>]
      /\ b.queue = r.queue /\ b.dispatch = r.dispatch \ {Method(Other(r))}
  BY <1>1, MethodEnds
<1> HIDE DEF b
<1>6. PICK v : /\ Sender(b, f, v) /\ v.st = "method" /\ v.k = x.k
               /\ ~r.authed => v.n = First(opt) - 1
  BY <1>5
<1>7. b.strict = Strict /\ ~b.done /\ b \in Ssh(opt) /\ b.authed = r.authed /\ b.server = r.server
  BY <1>3, <1>5, <1>6 DEF Standing, Sender, Input
<1>8. First(opt) = (IF opt.gex THEN 4 ELSE 3)
  BY DEF First
<1>9. ~r.authed => b.blocks["in"] <= First(opt)
  <2>1. b.blocks["in"] = r.blocks["in"] /\ r.blocks["in"] \in Nat
    BY <1>3, <1>5, SshTypes DEF Input, Mode
  <2>2. ~r.authed => x.n + 1 = First(opt) - 1
    BY <1>1, <1>3, <1>8 DEF Eve
  <2> QED BY <1>8, <2>1, <2>2
<1>10. /\ \E z : /\ Sender(s, f, z) /\ z.k = v.k /\ z.st = (IF b.authed THEN "open" ELSE "auth")
                 /\ ~b.authed => z.n = First(opt) + 1
       /\ Input(b, s) /\ Standing(b, s) /\ s.queue = <<>> /\ s.rekeying = FALSE
       /\ s.dispatch = (b.dispatch \ TransportType) \cup {"NEWKEYS"}
       /\ s.newkeys = [m \in Mode |-> IF m = "in" THEN <<v.k, v.k>> ELSE NoKey]
  <2>1. "INITIAL" \in r.flags => "INITIAL" \in b.flags
    BY <1>5 DEF Standing
  <2>2. KeysFor(b, v.k) /\ \A i \in 1..Len(b.queue) : b.queue[i].type \in AppType
    BY <1>3, <1>5, <1>6 DEF KeysFor
  <2>3. ~b.authed => /\ b.queue = <<>> /\ v.n = First(opt) - 1 /\ "INITIAL" \in b.flags
                     /\ b.blocks["in"] <= First(opt)
    BY <1>3, <1>5, <1>6, <1>7, <1>9, <2>1
  <2>4. Finished(b, f, v, s)
    BY <1>6, <1>7, <2>2, <2>3, NewkeysAll
  <2> HIDE DEF s
  <2> QED BY <2>4 DEF Finished
<1> HIDE DEF s
<1>11. PICK z : /\ Sender(s, f, z) /\ z.k = x.k /\ z.st = (IF r.authed THEN "open" ELSE "auth")
                /\ ~r.authed => z.n = First(opt) + 1
  BY <1>6, <1>7, <1>10
<1>12. s \in Ssh(opt)
  BY <1>11 DEF Sender
<1>13. Input(r, s) /\ s.authed = r.authed /\ s.server = r.server
  BY <1>3, <1>5, <1>7, <1>10, <1>12, InputTransitive DEF Input, Standing
<1>14. /\ Standing(r, s) /\ s.dispatch = ((r.dispatch \ {t}) \ TransportType) \cup {"NEWKEYS"}
       /\ s.newkeys = [m \in Mode |-> IF m = "in" THEN <<x.k, x.k>> ELSE NoKey]
  BY <1>5, <1>6, <1>10 DEF Standing
<1>15. t \in {"KEXINIT", "GEX_REQUEST", "GEX_GROUP", "INIT", "REPLY"}
  BY DEF Method
<1>16. u.st = "method" /\ u.k = x.k
  BY DEF After, StageAfter, Method
<1>17. ~r.authed => u.n = First(opt) - 1
  <2>1. ~r.authed => Early(x)
    BY WholeParts DEF Unauthed, Placed
  <2> QED BY <1>1, <1>3, <1>8, <1>15, <2>1 DEF After, Eve
<1>18. u \in Position(opt)
  OBVIOUS
<1> HIDE DEF u
<1>19. Phase(s, u, z)
  BY <1>3, <1>10, <1>11, <1>14, <1>16 DEF Phase, Busy, Standing
<1>20. Steps(opt, s.server, u, z)
  BY <1>3, <1>11, <1>16 DEF Steps, Busy
<1>21. Derived(s, u)
  BY <1>14, <1>16 DEF Derived
<1>22. Settled(opt, s, u, z)
  BY <1>3, <1>10, <1>14 DEF Settled, Strict, Standing
<1>23. Accepts(opt, s, u)
  BY <1>14, <1>16 DEF Accepts, Eve
<1>24. Aside(r, s)
  BY <1>10, <1>14, <1>15 DEF Aside, AppType, Standing, TransportType, MethodType
<1>25. ~r.authed => z.n = Written(opt, s.server, u.n)
  BY <1>8, <1>11, <1>17 DEF Written
<1>26. Whole(opt, s, u, z)
  BY <1>1, <1>11, <1>13, <1>15, <1>18, <1>19, <1>20, <1>21, <1>22, <1>23, <1>24, <1>25, Midway DEF u
<1> QED BY <1>4, <1>11, <1>13, <1>26 DEF Comes, u

----------------------------------------------------------------------------
(* Between the first exchange and the user's being accepted.               *)

\* What does not change then.
Calm(r) ==
    /\ ~r.authed /\ r.queue = <<>> /\ ~r.handover /\ "DATA" \notin r.dispatch
    /\ r.peer = 1 /\ r.my = 1 /\ r.rekeying = FALSE /\ r.done = TRUE /\ r.strict = Strict
    /\ "INITIAL" \notin r.flags /\ "INIT_SENT" \notin r.flags /\ "INIT_RECVD" \notin r.flags
    /\ r.newkeys = [m \in Mode |-> NoKey] /\ r.key["in"] = <<1, 1>>

\* What is expected after i packets.
Talks(r, i) ==
    /\ i < 1 => r.ext = 0
    /\ r.server =>
         /\ i = 0 => {"EXT_INFO", "SERVICE_REQUEST"} \subseteq r.dispatch
         /\ i = 1 => "SERVICE_REQUEST" \in r.dispatch
         /\ i > 1 => "USERAUTH_REQUEST" \in r.dispatch
         /\ i > 0 => "HAS_EXT_INFO_IN_AUTH" \in r.flags
         /\ "attempted" \in r.flags <=> i > 2
    /\ ~r.server =>
         /\ i = 0 => {"EXT_INFO", "SERVICE_ACCEPT"} \subseteq r.dispatch
         /\ i = 1 => "SERVICE_ACCEPT" \in r.dispatch
         /\ i = 2 => "EXT_INFO" \in r.dispatch
         /\ i \in {1, 2} => r.ext = 1
         /\ i > 1 => {"USERAUTH_FAILURE", "USERAUTH_SUCCESS"} \subseteq r.dispatch

\* A position there.
Talking(x) ==
    /\ x \in Position(opt) /\ x.st = "auth" /\ x.k = 1 /\ x.comp = "off" /\ x.seq <= x.n
    /\ x.n \in Nat /\ x.n >= First(opt)

\* Both are what Unauthed says.
LEMMA Conversing ==
    ASSUME OptOK(opt), NEW r, NEW x, NEW y, Whole(opt, r, x, y), ~r.authed, x.st = "auth"
    PROVE  /\ r \in Ssh(opt) /\ Calm(r) /\ Talks(r, x.n - First(opt)) /\ Talking(x) /\ y.st = "auth" /\ y.k = 1 /\ y.n \in Nat
           /\ y.n = Written(opt, r.server, x.n) /\ Key(x) = <<1, 1>> /\ r.blocks["out"] <= y.n
<1>1. /\ r \in Ssh(opt) /\ x \in Position(opt) /\ y \in Position(opt) /\ r.key["in"] = Key(x)
      /\ Phase(r, x, y) /\ Steps(opt, r.server, x, y) /\ Derived(r, x) /\ Settled(opt, r, x, y)
      /\ Unauthed(opt, r, x, y)
  BY WholeParts
<1>2. x.n \in Nat /\ y.n \in Nat /\ y.st \in Stages
  BY <1>1 DEF Position, Most, First, OptOK
<1>3. Placed(opt, x) /\ Pre(r, y) /\ y.n = Written(opt, r.server, x.n) /\ ("INITIAL" \in r.flags <=> x.st # "auth")
      /\ r.queue = <<>> /\ ~r.handover /\ "DATA" \notin r.dispatch
  BY <1>1 DEF Unauthed
<1>4. x.k = 1 /\ x.comp = "off" /\ x.seq <= x.n /\ x.n >= First(opt)
  BY <1>1, <1>3 DEF Placed, Early, Steps
<1>5. y.st = "auth" /\ y.k = 1
  <2>1. y.st \notin Busy
    BY <1>1, <1>3, <1>4 DEF Steps, Busy, Pre
  <2> QED BY <1>1, <1>2, <1>3, <2>1 DEF Pre, Stages, Steps
<1>6. r.rekeying = FALSE /\ r.done = TRUE
  BY <1>1, <1>5, SshTypes DEF Phase, Busy
<1>7. Calm(r)
  BY <1>1, <1>3, <1>4, <1>5, <1>6 DEF Calm, Phase, Derived, Settled, Busy, Strict, Key
<1>8. Talks(r, x.n - First(opt))
  BY <1>1 DEF Unauthed, Talks
<1> QED BY <1>1, <1>2, <1>3, <1>4, <1>5, <1>7, <1>8 DEF Talking, Key, Busy, Pre

\* And Unauthed is what they say.
LEMMA Converses ==
    ASSUME OptOK(opt), NEW s, NEW f, NEW u, NEW z, Sender(s, f, z), Talking(u), Calm(s), Talks(s, u.n - First(opt)),
           z.st = "auth", z.n = Written(opt, s.server, u.n),
           s.seq["in"] = u.seq, s.comp["in"] = "off", s.blocks["in"] <= u.n
    PROVE  Local(opt, s, u, z)
<1>1. /\ s \in Ssh(opt) /\ s.fault = "none" /\ z \in Position(opt) /\ At(s, "out", z) /\ Pre(s, z)
  BY DEF Sender, Kind, Calm
<1>2. z.k = 1
  BY <1>1 DEF Pre
<1>3. s.key["in"] = Key(u)
  BY DEF Calm, Key, Busy, Talking
<1>4. Phase(s, u, z)
  BY <1>2 DEF Phase, Calm, Busy, Talking
<1>5. Steps(opt, s.server, u, z)
  BY <1>2 DEF Steps, Busy, Talking
<1>6. Derived(s, u) /\ Settled(opt, s, u, z)
  BY DEF Derived, Settled, Calm, Strict, Talking
<1>7. Placed(opt, u) /\ Accepts(opt, s, u)
  BY DEF Placed, Accepts, Early, Eve, Talking
<1>8. Unauthed(opt, s, u, z)
  <2> DEFINE i == u.n - First(opt)
  <2>1. Talks(s, i)
    OBVIOUS
  <2>2. /\ s.queue = <<>> /\ ~s.handover /\ "DATA" \notin s.dispatch /\ "INITIAL" \notin s.flags /\ u.st = "auth"
    BY DEF Calm, Talking
  <2> HIDE DEF i
  <2> QED BY <1>1, <1>7, <2>1, <2>2 DEF Unauthed, Talks, i
<1>9. Whole(opt, s, u, z)
  BY <1>1, <1>3, <1>4, <1>5, <1>6, <1>8 DEF Whole, Exchange, Calm, Talking
<1> QED BY <1>9 DEF Local, Talking

\* ssh_packet_send2 of a packet of the authentication.
LEMMA Says ==
    ASSUME OptOK(opt), NEW r, NEW f, NEW y, Sender(r, f, y), Calm(r), y.st = "auth",
           NEW t \in PacketType, t # "USERAUTH_SUCCESS", Dialogue(Me(r), y.n - First(opt), t),
           y.n < Most(opt), r.blocks["in"] <= Most(opt)
    PROVE  LET s == ssh_packet_send2(r, t, 0)
           IN  /\ \E z : Sender(s, f, z) /\ z.st = "auth" /\ z.n = y.n + 1
               /\ Kept(r, s) /\ Calm(s)
<1> DEFINE s == ssh_packet_send2_wrapped(r, t, 0)
           z == After(opt, y, t)
<1>1. r \in Ssh(opt) /\ y \in Position(opt) /\ ~r.authed /\ ~r.rekeying /\ "INITIAL" \notin r.flags /\ Pre(r, y)
  BY DEF Sender, Calm, Kind
<1>2. y.n \in Nat /\ Most(opt) \in Nat /\ r.blocks["in"] \in Nat /\ r.blocks["out"] \in Nat
  <2>1. Most(opt) \in Nat
    BY DEF Most, First, OptOK
  <2>2. y.n \in Nat
    BY <1>1, <2>1 DEF Position
  <2>3. r.blocks["in"] \in Nat /\ r.blocks["out"] \in Nat
    BY <1>1, SshTypes DEF Mode
  <2> QED BY <2>1, <2>2, <2>3
<1>3. t \in {"EXT_INFO", "SERVICE_REQUEST", "SERVICE_ACCEPT", "USERAUTH_REQUEST", "USERAUTH_FAILURE"}
  BY DEF Dialogue
<1>4. t \in PacketType \ {"NEWKEYS", "USERAUTH_SUCCESS"} /\ t # "NEWKEYS" /\ t # "KEXINIT" /\ t # "REPLY" /\ 0 \in Nat
  BY <1>3
<1>5. \A m \in Mode : r.blocks[m] <= Most(opt)
  <2>1. r.blocks["out"] <= y.n
    BY <1>1 DEF Pre
  <2> QED BY <1>2, <2>1 DEF Mode
<1>6. ssh_packet_send2(r, t, 0) = s
  BY <1>1, <1>4, <1>5, PlainSend
<1>7. Room(r, y) /\ May(opt, Me(r), y, t)
  BY <1>1 DEF Room, May
<1>8. /\ Sender(s, f, z) /\ Kept(r, s) /\ s.authed = r.authed /\ s.newkeys = r.newkeys /\ s.queue = r.queue
      /\ z.n = IF r.authed THEN 0 ELSE y.n + 1
  BY <1>4, <1>7, Sends
<1>9. z.st = "auth"
  BY <1>3 DEF After, StageAfter
<1> HIDE DEF s, z
<1>10. Calm(s)
  BY <1>8 DEF Calm, Kept, Control, Input
<1> QED BY <1>1, <1>6, <1>8, <1>9, <1>10 DEF s

\* Where a packet of the authentication leads.
LEMMA TalkingAfter ==
    ASSUME OptOK(opt), NEW x, Talking(x), NEW t, t \in {"EXT_INFO", "SERVICE_REQUEST", "SERVICE_ACCEPT", "USERAUTH_REQUEST", "USERAUTH_FAILURE"},
           After(opt, x, t) \in Position(opt)
    PROVE  Talking(After(opt, x, t)) /\ After(opt, x, t).n = x.n + 1 /\ x.n < Most(opt)
<1> DEFINE u == After(opt, x, t)
<1>1. Early(x) /\ x.seq \in Sequenced(opt) /\ Most(opt) \in Nat /\ First(opt) \in Nat /\ x.n \in Nat /\ opt.seq_wrap \in Nat
  BY DEF Talking, Position, Early, Most, First, OptOK
<1>2. u.st = "auth" /\ u.k = 1 /\ u.n = x.n + 1 /\ u.comp = "off" /\ u.seq = (x.seq + 1) % opt.seq_wrap
  BY <1>1 DEF Talking, After, StageAfter, CompAfter, Used
<1>3. (x.seq + 1) % opt.seq_wrap <= x.seq + 1 /\ (x.seq + 1) % opt.seq_wrap \in Sequenced(opt)
  BY <1>1, NextNumber
<1>4. x.seq \in Nat /\ (x.seq + 1) % opt.seq_wrap \in Nat
  BY <1>1, <1>3 DEF Sequenced
<1>5. u.n \in 0..Most(opt)
  BY DEF Position
<1>6. u \in Position(opt)
  OBVIOUS
<1> HIDE DEF u
<1>7. u.seq <= u.n
  <2>1. x.seq <= x.n
    BY DEF Talking
  <2> QED BY <1>1, <1>2, <1>3, <1>4, <2>1
<1>8. Talking(u)
  BY <1>1, <1>2, <1>6, <1>7 DEF Talking
<1> QED BY <1>1, <1>2, <1>5, <1>8 DEF u

\* What a handler leaves behind, when it was called after a packet led to u.
Arrives(r, f, u, s) ==
    /\ \E z : Sender(s, f, z) /\ Local(opt, s, u, z)
    /\ s.server = r.server /\ s.authed = r.authed

\* A handler that left Whole is done.
LEMMA ComesArrives ==
    ASSUME NEW r, NEW f, NEW u, NEW s, Comes(r, f, u, s), r.seq["in"] = u.seq, r.comp["in"] = u.comp, ~r.authed => r.blocks["in"] <= u.n
    PROVE  Arrives(r, f, u, s)
<1>1. PICK z : Sender(s, f, z) /\ Whole(opt, s, u, z)
  BY DEF Comes
<1>2. Input(r, s) /\ s.authed = r.authed
  BY DEF Comes
<1>3. Local(opt, s, u, z)
  BY <1>1, <1>2 DEF Local, Input
<1> QED BY <1>1, <1>2, <1>3 DEF Arrives, Input

\* s is r with the new key in use for what is read from now on.
Rekeyed(r, f, x, y, s) ==
    /\ Sender(s, f, y) /\ s.server = r.server /\ s.authed = r.authed /\ s.wire = r.wire /\ s.seq = r.seq
    /\ s.key["in"] = <<x.k, x.k>> /\ s.blocks["in"] = 0
    /\ s.comp["in"] = (IF r.authed /\ Delayed THEN "new" ELSE "off")
    /\ s.newkeys = [m \in Mode |-> NoKey] /\ s.done = TRUE
    /\ s.flags = r.flags \ {"INITIAL", "INIT_SENT", "INIT_RECVD"}
    /\ s.dispatch = (r.dispatch \ {"NEWKEYS"}) \cup {"KEXINIT"}
    /\ s.handover = r.handover /\ s.ext = r.ext /\ s.my = r.my /\ s.peer = r.peer
    /\ s.rekeying = r.rekeying /\ s.strict = r.strict /\ s.queue = r.queue

\* kex_input_newkeys.
LEMMA NewkeysRead ==
    ASSUME OptOK(opt), NEW r, NEW f, NEW x, NEW y, Whole(opt, r, x, y), Sender(r, f, y), x.st = "method"
    PROVE  Rekeyed(r, f, x, y, kex_input_newkeys(r))
<1> DEFINE a == Refuse(r, {"NEWKEYS"})
           b == Expect(a, {"KEXINIT"})
           c == ssh_set_newkeys(b, "in")
           g == c.flags \ {"INITIAL", "INIT_SENT", "INIT_RECVD"}
           s == [c EXCEPT !.done = TRUE, !.flags = g]
<1>1. kex_input_newkeys(r) = s
  BY DEF kex_input_newkeys
<1>2. /\ r \in Ssh(opt) /\ x \in Position(opt) /\ Derived(r, x) /\ Steps(opt, r.server, x, y)
  BY WholeParts
<1>3. {"NEWKEYS"} \in SUBSET PacketType /\ {"KEXINIT"} \in SUBSET PacketType /\ "in" \in Mode /\ "out" \in Mode
  BY DEF PacketType, TransportType, Mode
<1>4. a \in Ssh(opt) /\ Carried(r, a) /\ Rest(r, a) /\ a.dispatch = r.dispatch \ {"NEWKEYS"}
  BY <1>2, <1>3, Table
<1> HIDE DEF a
<1>5. b \in Ssh(opt) /\ Carried(a, b) /\ Rest(a, b) /\ b.dispatch = a.dispatch \cup {"KEXINIT"}
  BY <1>3, <1>4, Table
<1> HIDE DEF b
<1>6. Carried(r, b) /\ Rest(r, b) /\ b.dispatch = (r.dispatch \ {"NEWKEYS"}) \cup {"KEXINIT"}
  BY <1>4, <1>5 DEF Carried, Rest
<1>7. Sender(b, f, y)
  BY <1>5, <1>6, SenderTable
<1>8. b.newkeys = [m \in Mode |-> IF m = "in" THEN <<x.k, x.k>> ELSE NoKey] /\ x.k # 0
  BY <1>2, <1>6 DEF Derived, Rest, Steps
<1>9. b.newkeys["in"] = <<x.k, x.k>> /\ b.newkeys["in"] # NoKey
  BY <1>3, <1>8 DEF NoKey
<1>10. /\ c \in Ssh(opt) /\ Control(b, c)
       /\ c.authed = b.authed /\ c.wire = b.wire /\ c.queue = b.queue /\ c.seq = b.seq
       /\ c.key = [b.key EXCEPT !["in"] = b.newkeys["in"]]
       /\ c.newkeys = [b.newkeys EXCEPT !["in"] = NoKey]
       /\ c.blocks = [b.blocks EXCEPT !["in"] = 0]
       /\ c.comp = [b.comp EXCEPT !["in"] = IF b.authed /\ Delayed THEN "new" ELSE "off"]
  BY <1>3, <1>5, <1>9, SetNewkeys
<1> HIDE DEF c
<1>11. b.key \in [Mode -> Nat \X Nat] /\ b.blocks \in [Mode -> Nat] /\ b.comp \in [Mode -> Contexts]
  BY <1>5, SshTypes
<1>12. /\ c.key["in"] = <<x.k, x.k>> /\ c.key["out"] = b.key["out"] /\ c.blocks["in"] = 0 /\ c.blocks["out"] = b.blocks["out"]
       /\ c.comp["in"] = (IF b.authed /\ Delayed THEN "new" ELSE "off") /\ c.comp["out"] = b.comp["out"]
  BY <1>3, <1>9, <1>10, <1>11
<1>13. c.newkeys = [m \in Mode |-> NoKey]
  BY <1>8, <1>10 DEF Mode
<1>14. g \in SUBSET Flag
  BY <1>10 DEF Ssh
<1>15. s \in Ssh(opt)
  BY <1>10, <1>14 DEF Ssh
<1>16. /\ s.server = c.server /\ s.authed = c.authed /\ s.wire = c.wire /\ s.seq = c.seq /\ s.key = c.key /\ s.fault = c.fault
       /\ s.blocks = c.blocks /\ s.comp = c.comp /\ s.newkeys = c.newkeys /\ s.done = TRUE /\ s.flags = g
       /\ s.dispatch = c.dispatch /\ s.handover = c.handover /\ s.ext = c.ext /\ s.my = c.my /\ s.peer = c.peer
       /\ s.rekeying = c.rekeying /\ s.strict = c.strict /\ s.queue = c.queue
  BY <1>10 DEF Ssh
<1> HIDE DEF s
<1>17. /\ s.server = r.server /\ s.authed = r.authed /\ s.wire = r.wire /\ s.seq = r.seq /\ s.fault = r.fault
       /\ s.key["in"] = <<x.k, x.k>> /\ s.key["out"] = r.key["out"] /\ s.blocks["in"] = 0
       /\ s.blocks["out"] = r.blocks["out"] /\ s.comp["out"] = r.comp["out"]
       /\ s.comp["in"] = (IF r.authed /\ Delayed THEN "new" ELSE "off")
       /\ s.newkeys = [m \in Mode |-> NoKey] /\ s.done = TRUE
       /\ s.flags = r.flags \ {"INITIAL", "INIT_SENT", "INIT_RECVD"}
       /\ s.dispatch = (r.dispatch \ {"NEWKEYS"}) \cup {"KEXINIT"}
       /\ s.handover = r.handover /\ s.ext = r.ext /\ s.my = r.my /\ s.peer = r.peer
       /\ s.rekeying = r.rekeying /\ s.strict = r.strict /\ s.queue = r.queue
  BY <1>6, <1>10, <1>12, <1>13, <1>16 DEF Carried, Rest, Control
<1>18. Sender(s, f, y)
  <2>1. At(s, "out", y) /\ Me(s) = Me(r) /\ s.fault = "none" /\ y \in Position(opt)
    BY <1>17 DEF Sender, At, Me
  <2>2. Kind(s, f, y)
    BY <1>17 DEF Sender, Kind, Post, Pre
  <2> QED BY <1>15, <1>17, <2>1, <2>2 DEF Sender
<1> QED BY <1>1, <1>17, <1>18 DEF Rekeyed

\* The handler of NEWKEYS once the user is accepted.
LEMMA NewkeysAgain ==
    ASSUME OptOK(opt), NEW r, NEW f, NEW x, NEW y, Whole(opt, r, x, y), Sender(r, f, y), ~r.handover, r.authed, x.st = "method",
           NEW u, u = After(opt, x, "NEWKEYS"), u \in Position(opt), r.seq["in"] = u.seq
    PROVE  Arrives(r, f, u, kex_input_newkeys(r))
<1> DEFINE s == kex_input_newkeys(r)
<1>1. /\ Sender(s, f, y) /\ s.server = r.server /\ s.authed = r.authed /\ s.wire = r.wire /\ s.seq = r.seq
      /\ s.key["in"] = <<x.k, x.k>> /\ s.comp["in"] = (IF r.authed /\ Delayed THEN "new" ELSE "off")
      /\ s.newkeys = [m \in Mode |-> NoKey] /\ s.done = TRUE
      /\ s.flags = r.flags \ {"INITIAL", "INIT_SENT", "INIT_RECVD"}
      /\ s.dispatch = (r.dispatch \ {"NEWKEYS"}) \cup {"KEXINIT"}
      /\ s.handover = r.handover /\ s.my = r.my /\ s.peer = r.peer
      /\ s.rekeying = r.rekeying /\ s.strict = r.strict /\ s.queue = r.queue
  <2>1. Rekeyed(r, f, x, y, s)
    BY NewkeysRead
  <2> HIDE DEF s
  <2> QED BY <2>1 DEF Rekeyed
<1> HIDE DEF s
<1>2. /\ r \in Ssh(opt) /\ x \in Position(opt) /\ y \in Position(opt) /\ Authed(opt, r, x, y)
      /\ Phase(r, x, y) /\ Steps(opt, r.server, x, y) /\ Settled(opt, r, x, y)
  BY WholeParts
<1>3. x.k # 0 /\ x.k # 1 /\ x.k \in Nat /\ ~Early(x)
  BY <1>2 DEF Authed, Early, Position
<1>4. u.st = "open" /\ u.k = x.k /\ u.n = 0 /\ u.comp = (IF Delayed THEN "new" ELSE "off")
  BY <1>3 DEF After, StageAfter, CompAfter, Delayed
<1>5. y.st = "open" /\ y.k = x.k
  BY <1>2 DEF Steps, Busy, Authed, Post, Position, Stages
<1>6. Key(u) = <<x.k, x.k>> /\ ~Early(u)
  BY <1>3, <1>4 DEF Key, Busy, Early
<1>7. s \in Ssh(opt) /\ s.fault = "none" /\ At(s, "out", y) /\ Post(s, y)
  BY <1>1 DEF Sender, Kind
<1>8. Phase(s, u, y)
  BY <1>1, <1>2, <1>4, <1>5 DEF Phase, Busy
<1>9. Steps(opt, s.server, u, y)
  BY <1>3, <1>4, <1>5 DEF Steps, Busy
<1>10. Derived(s, u) /\ Settled(opt, s, u, y)
  <2>1. Derived(s, u)
    BY <1>1, <1>4 DEF Derived
  <2>2. x.k # 0 /\ y.st \notin Busy
    BY <1>3, <1>5 DEF Busy
  <2> QED BY <1>1, <1>2, <2>1, <2>2 DEF Settled
<1>11. Accepts(opt, s, u)
  BY <1>1, <1>4 DEF Accepts, Eve
<1>12. Authed(opt, s, u, y)
  <2>1. \A i \in 1..Len(s.queue) : s.queue[i].type \in AppType
    BY <1>1, <1>2 DEF Authed
  <2>2. AppType \subseteq s.dispatch
    BY <1>1, <1>2 DEF Authed, AppType
  <2> QED BY <1>1, <1>4, <1>6, <1>7, <1>11, <2>1, <2>2 DEF Authed
<1>13. Whole(opt, s, u, y)
  BY <1>1, <1>2, <1>6, <1>7, <1>8, <1>9, <1>10, <1>12 DEF Whole, Exchange
<1>14. Local(opt, s, u, y)
  BY <1>1, <1>4, <1>13 DEF Local
<1>15. Arrives(r, f, u, s)
  BY <1>1, <1>14 DEF Arrives
<1> QED BY <1>15 DEF s

\* The first time the authentication begins.
LEMMA NewkeysFirst ==
    ASSUME OptOK(opt), NEW r, NEW f, NEW x, NEW y, Whole(opt, r, x, y), Sender(r, f, y), ~r.authed, x.st = "method",
           NEW u, u = After(opt, x, "NEWKEYS"), u \in Position(opt), r.seq["in"] = u.seq
    PROVE  Arrives(r, f, u, StartAuth(kex_input_newkeys(r)))
<1> DEFINE a == kex_input_newkeys(r)
           s == StartAuth(a)
<1>1. /\ Sender(a, f, y) /\ a.server = r.server /\ a.authed = r.authed /\ a.wire = r.wire /\ a.seq = r.seq
      /\ a.key["in"] = <<x.k, x.k>> /\ a.blocks["in"] = 0
      /\ a.comp["in"] = (IF r.authed /\ Delayed THEN "new" ELSE "off")
      /\ a.newkeys = [m \in Mode |-> NoKey] /\ a.done = TRUE
      /\ a.flags = r.flags \ {"INITIAL", "INIT_SENT", "INIT_RECVD"}
      /\ a.dispatch = (r.dispatch \ {"NEWKEYS"}) \cup {"KEXINIT"}
      /\ a.handover = r.handover /\ a.ext = r.ext /\ a.my = r.my /\ a.peer = r.peer
      /\ a.rekeying = r.rekeying /\ a.strict = r.strict /\ a.queue = r.queue
  <2>1. Rekeyed(r, f, x, y, a)
    BY NewkeysRead
  <2> HIDE DEF a
  <2> QED BY <2>1 DEF Rekeyed
<1> HIDE DEF a
<1>2. /\ r \in Ssh(opt) /\ x \in Position(opt) /\ y \in Position(opt) /\ Unauthed(opt, r, x, y)
      /\ Phase(r, x, y) /\ Steps(opt, r.server, x, y) /\ Settled(opt, r, x, y)
  BY WholeParts
<1>3. First(opt) \in {3, 4} /\ Most(opt) \in Nat /\ First(opt) + 1 < Most(opt)
  BY DEF First, Most, OptOK
<1>4. x.k = 1 /\ x.n = First(opt) - 1 /\ x.seq <= x.n /\ Early(x) /\ x.comp = "off"
  BY <1>2 DEF Unauthed, Placed, Early, Steps
<1>5. y.st = "auth" /\ y.k = 1 /\ y.n = First(opt) + 1
  <2>1. y.st \notin Busy /\ y.k = 1 /\ y.st \in Stages
    BY <1>2, <1>4 DEF Steps, Busy, Position
  <2>2. y.st = "auth"
    BY <1>2, <2>1 DEF Unauthed, Pre, Stages
  <2>3. y.n = Written(opt, r.server, x.n)
    BY <1>2 DEF Unauthed
  <2> QED BY <1>3, <1>4, <2>1, <2>2, <2>3 DEF Written
<1>6. Talking(u) /\ u.n = First(opt)
  <2>1. u.st = "auth" /\ u.k = 1 /\ u.n = First(opt) /\ u.comp = "off"
    BY <1>3, <1>4 DEF After, StageAfter, CompAfter
  <2>2. u.seq = 0 \/ u.seq = (x.seq + 1) % opt.seq_wrap
    BY DEF After
  <2>3. x.seq \in Sequenced(opt) /\ opt.seq_wrap \in Nat
    BY <1>2 DEF Position, OptOK
  <2>4. (x.seq + 1) % opt.seq_wrap <= x.seq + 1 /\ (x.seq + 1) % opt.seq_wrap \in Sequenced(opt)
    BY <2>3, NextNumber
  <2>5. x.seq \in Nat /\ (x.seq + 1) % opt.seq_wrap \in Nat
    BY <2>3, <2>4 DEF Sequenced
  <2>6. u.seq <= u.n
    BY <1>3, <1>4, <2>1, <2>2, <2>4, <2>5
  <2> QED BY <1>3, <2>1, <2>6 DEF Talking
<1>7. Calm(a)
  <2>1. a.rekeying = FALSE
    BY <1>1, <1>2, <1>5, SshTypes DEF Phase, Busy
  <2>2. "DATA" \notin r.dispatch /\ r.queue = <<>> /\ ~r.handover
    BY <1>2 DEF Unauthed
  <2>3. r.peer = 1 /\ r.my = 1 /\ r.strict = Strict
    BY <1>2, <1>4, <1>5 DEF Phase, Settled, Strict
  <2> QED BY <1>1, <1>4, <2>1, <2>2, <2>3 DEF Calm
<1>8. r.ext = 0 /\ (r.server => "attempted" \notin r.flags)
  <2> DEFINE i == x.n - First(opt)
  <2>1. i < 1 /\ ~(i > 2)
    BY <1>3, <1>4
  <2> HIDE DEF i
  <2> QED BY <1>2, <2>1 DEF Unauthed, i
<1>9. a \in Ssh(opt)
  BY <1>1 DEF Sender
<1>10. CASE r.server
  <2> DEFINE D == {"EXT_INFO", "SERVICE_REQUEST"}
             b == [a EXCEPT !.dispatch = D]
  <2>1. s = b
    BY <1>1, <1>10 DEF StartAuth
  <2>2. D \in SUBSET PacketType /\ "DATA" \notin D
    BY DEF PacketType, TransportType
  <2> HIDE DEF D
  <2>3. b \in Ssh(opt)
    BY <1>9, <2>2 DEF Ssh
  <2>4. Carried(a, b) /\ Rest(a, b) /\ b.dispatch = D
    BY <1>9 DEF Ssh, Carried, Rest
  <2> HIDE DEF s, b
  <2>5. Sender(b, f, y)
    BY <1>1, <2>3, <2>4, SenderTable
  <2>6. Calm(b)
    BY <1>7, <2>2, <2>4 DEF Calm, Carried, Rest
  <2>7. Talks(b, u.n - First(opt))
    <3>1. u.n - First(opt) = 0
      BY <1>3, <1>6
    <3>2. Talks(b, 0)
      BY <1>1, <1>8, <1>10, <2>4 DEF Talks, Carried, Rest, D
    <3> QED BY <3>1, <3>2
  <2>8. y.n = Written(opt, b.server, u.n)
    BY <1>1, <1>3, <1>5, <1>6, <1>10, <2>4 DEF Written, Carried
  <2>9. b.seq["in"] = u.seq /\ b.comp["in"] = "off" /\ b.blocks["in"] <= u.n
    BY <1>1, <1>3, <1>6, <2>4 DEF Carried
  <2>10. Local(opt, b, u, y)
    BY <1>5, <1>6, <2>5, <2>6, <2>7, <2>8, <2>9, Converses
  <2>11. b.server = r.server /\ b.authed = r.authed
    BY <1>1, <2>4 DEF Carried
  <2> QED BY <2>1, <2>5, <2>10, <2>11 DEF s, a, Arrives
<1>11. CASE ~r.server
  <2> DEFINE D == {"EXT_INFO", "SERVICE_ACCEPT"}
             c == ssh_packet_send2(a, "SERVICE_REQUEST", 0)
             b == [c EXCEPT !.dispatch = D]
  <2>1. s = b
    BY <1>1, <1>11 DEF StartAuth
  <2>2. D \in SUBSET PacketType /\ "DATA" \notin D
    BY DEF PacketType, TransportType
  <2> HIDE DEF D
  <2>3. /\ \E z : Sender(c, f, z) /\ z.st = "auth" /\ z.n = y.n + 1
        /\ Kept(a, c) /\ Calm(c)
    <3>1. "SERVICE_REQUEST" \in PacketType /\ "SERVICE_REQUEST" # "USERAUTH_SUCCESS"
      BY DEF PacketType, TransportType
    <3>2. y.n - First(opt) = 1
      BY <1>3, <1>5
    <3>3. Dialogue(Me(a), y.n - First(opt), "SERVICE_REQUEST")
      BY <1>1, <1>11, <3>2 DEF Dialogue, Me
    <3>4. y.n < Most(opt) /\ a.blocks["in"] <= Most(opt)
      BY <1>1, <1>3, <1>5
    <3> QED BY <1>1, <1>5, <1>7, <3>1, <3>3, <3>4, Says
  <2> HIDE DEF c
  <2>4. PICK z : Sender(c, f, z) /\ z.st = "auth" /\ z.n = y.n + 1
    BY <2>3
  <2>5. c \in Ssh(opt)
    BY <2>4 DEF Sender
  <2>6. b \in Ssh(opt)
    BY <2>2, <2>5 DEF Ssh
  <2>7. Carried(c, b) /\ Rest(c, b) /\ b.dispatch = D
    BY <2>5 DEF Ssh, Carried, Rest
  <2> HIDE DEF s, b
  <2>8. Sender(b, f, z) /\ Input(c, b)
    BY <2>4, <2>6, <2>7, SenderTable
  <2>9. Calm(b)
    BY <2>2, <2>3, <2>7 DEF Calm, Carried, Rest
  <2>10. b.server = r.server /\ ~b.authed /\ b.ext = 0
    BY <1>1, <1>8, <2>3, <2>7, <2>9 DEF Carried, Rest, Kept, Control, Calm
  <2>11. Talks(b, u.n - First(opt))
    <3>1. u.n - First(opt) = 0
      BY <1>3, <1>6
    <3>2. Talks(b, 0)
      BY <1>11, <2>7, <2>10 DEF Talks, D
    <3> QED BY <3>1, <3>2
  <2>12. z.n = Written(opt, b.server, u.n)
    BY <1>3, <1>5, <1>6, <1>11, <2>4, <2>10 DEF Written
  <2>13. Input(a, b)
    BY <1>9, <2>3, <2>5, <2>6, <2>8, InputTransitive DEF Kept
  <2>14. b.seq["in"] = u.seq /\ b.comp["in"] = "off" /\ b.blocks["in"] <= u.n
    BY <1>1, <1>3, <1>6, <2>13 DEF Input
  <2>15. Local(opt, b, u, z)
    BY <1>6, <2>4, <2>8, <2>9, <2>11, <2>12, <2>14, Converses
  <2>16. b.authed = r.authed
    <3>1. r.authed \in BOOLEAN /\ b.authed \in BOOLEAN
      BY <1>2, <2>6, SshTypes
    <3> QED BY <2>10, <3>1
  <2> QED BY <2>1, <2>8, <2>10, <2>15, <2>16 DEF s, a, Arrives
<1> QED BY <1>10, <1>11

\* r has read the packet t of the authentication, which leads from x to u.
Heard(r, f, x, y, t, u) ==
    /\ Whole(opt, r, x, y) /\ Sender(r, f, y) /\ ~r.authed /\ x.st = "auth"
    /\ Dialogue(Other(r), x.n - First(opt), t) /\ t # "USERAUTH_SUCCESS"
    /\ u = After(opt, x, t) /\ u \in Position(opt)
    /\ r.seq["in"] = u.seq /\ r.comp["in"] = "off" /\ r.blocks["in"] <= u.n

\* What is known then.
LEMMA HeardFacts ==
    ASSUME OptOK(opt), NEW r, NEW f, NEW x, NEW y, NEW t, NEW u, Heard(r, f, x, y, t, u)
    PROVE  /\ r \in Ssh(opt) /\ Calm(r) /\ Talks(r, x.n - First(opt)) /\ Talking(u) /\ u.n = x.n + 1 /\ x.n >= First(opt)
           /\ y.st = "auth" /\ y.n = Written(opt, r.server, x.n) /\ x.n \in Nat /\ y.n \in Nat
           /\ First(opt) \in {3, 4} /\ Most(opt) \in Nat /\ First(opt) + 5 <= Most(opt) /\ u.n <= Most(opt)
           /\ r.blocks["in"] \in Nat /\ r.blocks["in"] <= Most(opt)
<1>1. /\ r \in Ssh(opt) /\ Calm(r) /\ Talks(r, x.n - First(opt)) /\ Talking(x) /\ y.st = "auth" /\ y.n \in Nat
      /\ y.n = Written(opt, r.server, x.n)
  BY Conversing DEF Heard
<1>2. t \in {"EXT_INFO", "SERVICE_REQUEST", "SERVICE_ACCEPT", "USERAUTH_REQUEST", "USERAUTH_FAILURE"}
  BY DEF Heard, Dialogue
<1>3. Talking(u) /\ u.n = x.n + 1 /\ x.n < Most(opt)
  BY <1>1, <1>2, TalkingAfter DEF Heard
<1>4. First(opt) \in {3, 4} /\ Most(opt) \in Nat /\ First(opt) + 5 <= Most(opt)
  BY DEF First, Most, OptOK
<1>5. x.n \in Nat /\ x.n >= First(opt)
  BY <1>1 DEF Talking
<1>6. r.blocks["in"] \in Nat
  BY <1>1, SshTypes DEF Mode
<1>7. u.n <= Most(opt)
  BY <1>3, <1>4, <1>5
<1>8. r.blocks["in"] <= Most(opt)
  <2>1. r.blocks["in"] <= u.n
    BY DEF Heard
  <2> QED BY <1>3, <1>4, <1>5, <1>6, <1>7, <2>1
<1> QED BY <1>1, <1>3, <1>4, <1>5, <1>6, <1>7, <1>8

\* A handler that stays calm.
LEMMA HeardDone ==
    ASSUME OptOK(opt), NEW r, NEW f, NEW x, NEW y, NEW t, NEW u, Heard(r, f, x, y, t, u),
           NEW s, NEW z, Sender(s, f, z), z.st = "auth", z.n = Written(opt, r.server, u.n), Calm(s), Talks(s, u.n - First(opt)), Input(r, s)
    PROVE  Arrives(r, f, u, s)
<1>1. Talking(u) /\ Calm(r) /\ r \in Ssh(opt)
  BY HeardFacts
<1>2. s.seq["in"] = u.seq /\ s.comp["in"] = "off" /\ s.blocks["in"] <= u.n /\ s.server = r.server
  BY DEF Heard, Input
<1>3. Local(opt, s, u, z)
  BY <1>1, <1>2, Converses
<1>4. s.authed = r.authed
  <2>1. s \in Ssh(opt)
    BY DEF Sender
  <2>2. s.authed \in BOOLEAN /\ r.authed \in BOOLEAN
    BY <1>1, <2>1, SshTypes
  <2> QED BY <1>1, <2>2 DEF Calm
<1> QED BY <1>2, <1>3, <1>4 DEF Arrives

\* kex_input_ext_info.
LEMMA ReadsExtInfo ==
    ASSUME OptOK(opt), NEW r, NEW f, NEW x, NEW y, NEW u, Heard(r, f, x, y, "EXT_INFO", u)
    PROVE  Arrives(r, f, u, kex_input_ext_info(r)) /\ kex_input_ext_info(r).wire = r.wire
<1> DEFINE i == x.n - First(opt)
           g == IF r.server THEN r.flags \cup {"HAS_EXT_INFO_IN_AUTH"} ELSE r.flags
           a == [r EXCEPT !.ext = r.ext + 1, !.flags = g]
           s == Refuse(a, {"EXT_INFO"})
<1>1. /\ r \in Ssh(opt) /\ Calm(r) /\ Talks(r, i) /\ u.n = x.n + 1 /\ x.n >= First(opt)
      /\ y.st = "auth" /\ y.n = Written(opt, r.server, x.n) /\ x.n \in Nat
      /\ First(opt) \in {3, 4}
  BY HeardFacts
<1>2. i \in Int
  BY <1>1
<1>3. i = 0 \/ (~r.server /\ i = 2)
  <2>1. Dialogue(Other(r), i, "EXT_INFO")
    BY DEF Heard
  <2> HIDE DEF i
  <2> QED BY <1>2, <2>1 DEF Dialogue, Other
<1>4. x.n = First(opt) + i /\ u.n - First(opt) = i + 1
  BY <1>1
<1> HIDE DEF i
<1>5. r.ext = IF i = 0 THEN 0 ELSE 1
  BY <1>1, <1>3 DEF Talks
<1>6. kex_input_ext_info(r) = s
  <2>1. ~(r.ext = MaxExtInfo(r))
    BY <1>3, <1>5 DEF MaxExtInfo
  <2> QED BY <2>1 DEF kex_input_ext_info
<1>7. g \in SUBSET Flag /\ r.ext + 1 \in Nat
  BY <1>1, <1>5 DEF Ssh, Flag
<1> HIDE DEF g
<1>8. a \in Ssh(opt)
  BY <1>1, <1>7 DEF Ssh
<1>9. /\ Carried(r, a) /\ a.rekeying = r.rekeying /\ a.done = r.done /\ a.flags = g /\ a.strict = r.strict
      /\ a.my = r.my /\ a.peer = r.peer /\ a.handover = r.handover /\ a.ext = r.ext + 1
      /\ a.newkeys = r.newkeys /\ a.queue = r.queue /\ a.dispatch = r.dispatch
  BY <1>1 DEF Ssh, Carried
<1> HIDE DEF a
<1>10. {"EXT_INFO"} \in SUBSET PacketType
  BY DEF PacketType, TransportType
<1>11. s \in Ssh(opt) /\ Carried(a, s) /\ Rest(a, s) /\ s.dispatch = a.dispatch \ {"EXT_INFO"}
  BY <1>8, <1>10, Table
<1> HIDE DEF s
<1>12. /\ Carried(r, s) /\ s.rekeying = r.rekeying /\ s.done = r.done /\ s.flags = g /\ s.strict = r.strict
       /\ s.my = r.my /\ s.peer = r.peer /\ s.handover = r.handover /\ s.ext = r.ext + 1
       /\ s.newkeys = r.newkeys /\ s.queue = r.queue /\ s.dispatch = r.dispatch \ {"EXT_INFO"}
  BY <1>9, <1>11 DEF Carried, Rest
<1>13. Calm(s)
  BY <1>1, <1>12 DEF Calm, Carried, g
<1>14. Sender(s, f, y) /\ Input(r, s)
  <2>1. r.authed => "INITIAL" \notin s.flags
    BY <1>13 DEF Calm
  <2> QED BY <1>11, <1>12, <2>1, Pure DEF Heard
<1>15. y.n = Written(opt, r.server, u.n)
  BY <1>1, <1>3, <1>4 DEF Written
<1>16. Talks(s, i + 1)
  <2>1. s.server = r.server /\ s.ext = i \div 2 + 1
    BY <1>3, <1>5, <1>12 DEF Carried
  <2>2. CASE r.server
    <3>1. i = 0 /\ "HAS_EXT_INFO_IN_AUTH" \in s.flags /\ ("attempted" \in s.flags <=> "attempted" \in r.flags)
      BY <1>3, <1>12, <2>2 DEF g
    <3> QED BY <1>1, <1>12, <2>1, <2>2, <3>1 DEF Talks
  <2>3. CASE ~r.server /\ i = 0
    BY <1>1, <1>12, <2>1, <2>3 DEF Talks
  <2>4. CASE ~r.server /\ i = 2
    BY <1>1, <1>12, <2>1, <2>4 DEF Talks
  <2> QED BY <1>3, <2>2, <2>3, <2>4
<1>17. Arrives(r, f, u, s)
  BY <1>1, <1>4, <1>13, <1>14, <1>15, <1>16, HeardDone
<1> QED BY <1>6, <1>12, <1>17 DEF Carried

\* input_service_request.
LEMMA ReadsServiceRequest ==
    ASSUME OptOK(opt), NEW r, NEW f, NEW x, NEW y, NEW u, Heard(r, f, x, y, "SERVICE_REQUEST", u)
    PROVE  Arrives(r, f, u, input_service_request(r))
<1> DEFINE i == x.n - First(opt)
           a == Expect(r, {"USERAUTH_REQUEST"})
           b == ssh_packet_send2(a, "SERVICE_ACCEPT", 0)
           s == Refuse(b, {"EXT_INFO"})
<1>1. /\ r \in Ssh(opt) /\ Calm(r) /\ Talks(r, i) /\ u.n = x.n + 1 /\ x.n >= First(opt)
      /\ y.st = "auth" /\ y.n = Written(opt, r.server, x.n) /\ x.n \in Nat
      /\ First(opt) \in {3, 4} /\ Most(opt) \in Nat /\ First(opt) + 5 <= Most(opt)
      /\ r.blocks["in"] \in Nat /\ r.blocks["in"] <= Most(opt)
  BY HeardFacts
<1>2. i = 1 /\ r.server
  <2>1. Dialogue(Other(r), i, "SERVICE_REQUEST")
    BY DEF Heard
  <2> HIDE DEF i
  <2> QED BY <2>1 DEF Dialogue, Other
<1>3. x.n = First(opt) + 1 /\ u.n - First(opt) = 2
  BY <1>1, <1>2
<1> HIDE DEF i
<1>4. /\ {"USERAUTH_REQUEST"} \in SUBSET PacketType /\ {"EXT_INFO"} \in SUBSET PacketType /\ "SERVICE_ACCEPT" \in PacketType
      /\ "SERVICE_ACCEPT" # "USERAUTH_SUCCESS"
  BY DEF PacketType, TransportType, AuthType
<1>5. a \in Ssh(opt) /\ Carried(r, a) /\ Rest(r, a) /\ a.dispatch = r.dispatch \cup {"USERAUTH_REQUEST"}
  BY <1>1, <1>4, Table
<1> HIDE DEF a
<1>6. Sender(a, f, y) /\ Input(r, a)
  BY <1>5, SenderTable DEF Heard
<1>7. Calm(a)
  BY <1>1, <1>5 DEF Calm, Carried, Rest
<1>8. y.n = First(opt) + 1 /\ y.n - First(opt) = 1
  BY <1>1, <1>2, <1>3 DEF Written
<1>9. Dialogue(Me(a), y.n - First(opt), "SERVICE_ACCEPT")
  BY <1>2, <1>5, <1>8 DEF Dialogue, Me, Carried
<1>10. y.n < Most(opt) /\ a.blocks["in"] <= Most(opt)
  BY <1>1, <1>5, <1>8 DEF Carried
<1>11. /\ \E z : Sender(b, f, z) /\ z.st = "auth" /\ z.n = y.n + 1
       /\ Kept(a, b) /\ Calm(b)
  BY <1>1, <1>4, <1>6, <1>7, <1>9, <1>10, Says
<1> HIDE DEF b
<1>12. PICK z : Sender(b, f, z) /\ z.st = "auth" /\ z.n = y.n + 1
  BY <1>11
<1>13. b \in Ssh(opt)
  BY <1>12 DEF Sender
<1>14. s \in Ssh(opt) /\ Carried(b, s) /\ Rest(b, s) /\ s.dispatch = b.dispatch \ {"EXT_INFO"}
  BY <1>4, <1>13, Table
<1> HIDE DEF s
<1>15. Sender(s, f, z) /\ Input(b, s)
  BY <1>12, <1>14, SenderTable
<1>16. Calm(s)
  BY <1>11, <1>14 DEF Calm, Carried, Rest
<1>17. Input(r, s)
  <2>1. Input(r, b)
    BY <1>1, <1>5, <1>6, <1>11, <1>13, InputTransitive DEF Kept
  <2> QED BY <1>1, <1>13, <1>14, <1>15, <2>1, InputTransitive
<1>18. z.n = Written(opt, r.server, u.n)
  BY <1>1, <1>2, <1>3, <1>8, <1>12 DEF Written
<1>19. Talks(s, u.n - First(opt))
  <2>1. s.flags = r.flags /\ s.server = r.server /\ s.dispatch = (r.dispatch \cup {"USERAUTH_REQUEST"}) \ {"EXT_INFO"}
    BY <1>5, <1>11, <1>14 DEF Carried, Rest, Kept, Control
  <2>2. Talks(s, 2)
    BY <1>1, <1>2, <2>1 DEF Talks
  <2> QED BY <1>3, <2>2
<1>20. Arrives(r, f, u, s)
  BY <1>12, <1>15, <1>16, <1>17, <1>18, <1>19, HeardDone
<1> QED BY <1>20 DEF s, b, a, input_service_request

\* input_userauth_service_accept.
LEMMA ReadsServiceAccept ==
    ASSUME OptOK(opt), NEW r, NEW f, NEW x, NEW y, NEW u, Heard(r, f, x, y, "SERVICE_ACCEPT", u)
    PROVE  Arrives(r, f, u, input_userauth_service_accept(r))
<1> DEFINE i == x.n - First(opt)
           T == {"EXT_INFO", "USERAUTH_SUCCESS", "USERAUTH_FAILURE"}
           b == ssh_packet_send2(r, "USERAUTH_REQUEST", 0)
           s == Expect(b, T)
<1>1. /\ r \in Ssh(opt) /\ Calm(r) /\ Talks(r, i) /\ u.n = x.n + 1 /\ x.n >= First(opt)
      /\ y.st = "auth" /\ y.n = Written(opt, r.server, x.n) /\ x.n \in Nat
      /\ First(opt) \in {3, 4} /\ Most(opt) \in Nat /\ First(opt) + 5 <= Most(opt)
      /\ r.blocks["in"] \in Nat /\ r.blocks["in"] <= Most(opt)
  BY HeardFacts
<1>2. i = 1 /\ ~r.server
  <2>1. Dialogue(Other(r), i, "SERVICE_ACCEPT")
    BY DEF Heard
  <2> HIDE DEF i
  <2> QED BY <2>1 DEF Dialogue, Other
<1>3. x.n = First(opt) + 1 /\ u.n - First(opt) = 2
  BY <1>1, <1>2
<1> HIDE DEF i
<1>4. T \in SUBSET PacketType /\ "USERAUTH_REQUEST" \in PacketType /\ "USERAUTH_REQUEST" # "USERAUTH_SUCCESS" /\ "DATA" \notin T
  BY DEF PacketType, TransportType, AuthType
<1> HIDE DEF T
<1>5. y.n = First(opt) + 2 /\ y.n - First(opt) = 2
  BY <1>1, <1>2, <1>3 DEF Written
<1>6. Dialogue(Me(r), y.n - First(opt), "USERAUTH_REQUEST")
  BY <1>2, <1>5 DEF Dialogue, Me
<1>7. y.n < Most(opt)
  BY <1>1, <1>5
<1>8. /\ \E z : Sender(b, f, z) /\ z.st = "auth" /\ z.n = y.n + 1
      /\ Kept(r, b) /\ Calm(b)
  BY <1>1, <1>4, <1>6, <1>7, Says DEF Heard
<1> HIDE DEF b
<1>9. PICK z : Sender(b, f, z) /\ z.st = "auth" /\ z.n = y.n + 1
  BY <1>8
<1>10. b \in Ssh(opt)
  BY <1>9 DEF Sender
<1>11. s \in Ssh(opt) /\ Carried(b, s) /\ Rest(b, s) /\ s.dispatch = b.dispatch \cup T
  BY <1>4, <1>10, Table
<1> HIDE DEF s
<1>12. Sender(s, f, z) /\ Input(b, s)
  BY <1>9, <1>11, SenderTable
<1>13. Calm(s)
  BY <1>4, <1>8, <1>11 DEF Calm, Carried, Rest
<1>14. Input(r, s)
  BY <1>1, <1>8, <1>10, <1>11, <1>12, InputTransitive DEF Kept
<1>15. z.n = Written(opt, r.server, u.n)
  BY <1>1, <1>2, <1>3, <1>5, <1>9 DEF Written
<1>16. Talks(s, u.n - First(opt))
  <2>1. s.ext = r.ext /\ s.server = r.server /\ T \subseteq s.dispatch
    BY <1>8, <1>11 DEF Carried, Rest, Kept, Control
  <2>2. Talks(s, 2)
    BY <1>1, <1>2, <2>1 DEF Talks, T
  <2> QED BY <1>3, <2>2
<1>17. Arrives(r, f, u, s)
  BY <1>9, <1>12, <1>13, <1>14, <1>15, <1>16, HeardDone
<1> QED BY <1>17 DEF s, b, T, input_userauth_service_accept

\* A refused user asks again.
LEMMA ReadsFailure ==
    ASSUME OptOK(opt), NEW r, NEW f, NEW x, NEW y, NEW u, Heard(r, f, x, y, "USERAUTH_FAILURE", u)
    PROVE  Arrives(r, f, u, ssh_packet_send2(r, "USERAUTH_REQUEST", 0))
<1> DEFINE i == x.n - First(opt)
           s == ssh_packet_send2(r, "USERAUTH_REQUEST", 0)
<1>1. /\ r \in Ssh(opt) /\ Calm(r) /\ Talks(r, i) /\ u.n = x.n + 1 /\ x.n >= First(opt) /\ u.n <= Most(opt)
      /\ y.st = "auth" /\ y.n = Written(opt, r.server, x.n) /\ x.n \in Nat
      /\ First(opt) \in {3, 4} /\ Most(opt) \in Nat /\ First(opt) + 5 <= Most(opt)
      /\ r.blocks["in"] \in Nat /\ r.blocks["in"] <= Most(opt)
  BY HeardFacts
<1>2. i > 2 /\ ~r.server
  <2>1. Dialogue(Other(r), i, "USERAUTH_FAILURE")
    BY DEF Heard
  <2> HIDE DEF i
  <2> QED BY <2>1 DEF Dialogue, Other
<1>3. i \in Nat /\ x.n = First(opt) + i /\ u.n - First(opt) = i + 1
  BY <1>1, <1>2
<1> HIDE DEF i
<1>4. "USERAUTH_REQUEST" \in PacketType /\ "USERAUTH_REQUEST" # "USERAUTH_SUCCESS"
  BY DEF PacketType, AuthType
<1>5. y.n = First(opt) + i /\ y.n - First(opt) = i
  BY <1>1, <1>2, <1>3 DEF Written
<1>6. Dialogue(Me(r), y.n - First(opt), "USERAUTH_REQUEST")
  <2>1. i > 1
    BY <1>2, <1>3
  <2> QED BY <1>2, <1>5, <2>1 DEF Dialogue, Me
<1>7. y.n < Most(opt)
  BY <1>1, <1>3, <1>5
<1>8. /\ \E z : Sender(s, f, z) /\ z.st = "auth" /\ z.n = y.n + 1
      /\ Kept(r, s) /\ Calm(s)
  BY <1>1, <1>4, <1>6, <1>7, Says DEF Heard
<1> HIDE DEF s
<1>9. PICK z : Sender(s, f, z) /\ z.st = "auth" /\ z.n = y.n + 1
  BY <1>8
<1>10. z.n = Written(opt, r.server, u.n)
  BY <1>1, <1>2, <1>3, <1>5, <1>9 DEF Written
<1>11. Talks(s, i + 1)
  <2>1. s.server = r.server /\ s.dispatch = r.dispatch
    BY <1>8 DEF Kept, Control
  <2>2. {"USERAUTH_FAILURE", "USERAUTH_SUCCESS"} \subseteq r.dispatch
    <3>1. i > 1
      BY <1>2, <1>3
    <3> QED BY <1>1, <1>2, <3>1 DEF Talks
  <2> DEFINE j == i + 1
  <2>3. ~(j < 1) /\ ~(j = 0) /\ ~(j = 1) /\ ~(j = 2)
    BY <1>2, <1>3
  <2> HIDE DEF j
  <2>4. Talks(s, j)
    BY <1>2, <2>1, <2>2, <2>3 DEF Talks
  <2> QED BY <2>4 DEF j
<1>12. Input(r, s)
  BY <1>8 DEF Kept
<1>13. Arrives(r, f, u, s)
  BY <1>3, <1>8, <1>9, <1>10, <1>11, <1>12, HeardDone
<1> QED BY <1>13 DEF s

\* input_userauth_request up to its result: the first request is answered by
\* EXT_INFO.
Asked(r) ==
    LET first == "attempted" \notin r.flags
        q == [r EXCEPT !.flags = @ \cup {"attempted"}]
    IN  IF first /\ "HAS_EXT_INFO_IN_AUTH" \in r.flags THEN ssh_packet_send2(q, "EXT_INFO", 0) ELSE q

\* What r becomes of it, when the request was the packet before u.
Hearing(r, f, y, u, s) ==
    /\ \E z : Sender(s, f, z) /\ z.st = "auth" /\ z.n = u.n
    /\ Input(r, s) /\ Calm(s) /\ s.flags = r.flags \cup {"attempted"} /\ s.dispatch = r.dispatch

\* The number of tries leaves room for the answer.
LEMMA AskedFor ==
    ASSUME OptOK(opt), NEW r, NEW f, NEW x, NEW y, NEW u, Heard(r, f, x, y, "USERAUTH_REQUEST", u)
    PROVE  /\ Hearing(r, f, y, u, Asked(r)) /\ r.server /\ x.n - First(opt) > 1
           /\ y.n = u.n \/ (y.n + 1 = u.n /\ y.n - First(opt) = 2)
<1> DEFINE i == x.n - First(opt)
           g == r.flags \cup {"attempted"}
           q == [r EXCEPT !.flags = g]
           s == Asked(r)
<1>1. /\ r \in Ssh(opt) /\ Calm(r) /\ Talks(r, i) /\ u.n = x.n + 1 /\ x.n >= First(opt) /\ u.n <= Most(opt)
      /\ y.st = "auth" /\ y.n = Written(opt, r.server, x.n) /\ x.n \in Nat
      /\ First(opt) \in {3, 4} /\ Most(opt) \in Nat /\ First(opt) + 5 <= Most(opt)
      /\ r.blocks["in"] \in Nat /\ r.blocks["in"] <= Most(opt)
  BY HeardFacts
<1>2. i > 1 /\ r.server
  <2>1. Dialogue(Other(r), i, "USERAUTH_REQUEST")
    BY DEF Heard
  <2> HIDE DEF i
  <2> QED BY <2>1 DEF Dialogue, Other
<1>3. i \in Nat /\ x.n = First(opt) + i
  BY <1>1, <1>2
<1>4. i > 1
  BY <1>2
<1> HIDE DEF i
<1>5. y.n = IF i = 2 THEN x.n ELSE x.n + 1
  BY <1>1, <1>2, <1>3 DEF Written
<1>6. "HAS_EXT_INFO_IN_AUTH" \in r.flags /\ ("attempted" \notin r.flags <=> i = 2)
  <2>1. i > 0 /\ (i > 2 <=> i # 2)
    BY <1>3, <1>4
  <2> QED BY <1>1, <1>2, <2>1 DEF Talks
<1>7. g \in SUBSET Flag
  BY <1>1 DEF Ssh, Flag
<1>8. s = IF i = 2 THEN ssh_packet_send2(q, "EXT_INFO", 0) ELSE q
  BY <1>6 DEF Asked
<1>9. "INITIAL" \in g <=> "INITIAL" \in r.flags
  OBVIOUS
<1>10. Calm(r) => "INIT_SENT" \notin g /\ "INIT_RECVD" \notin g
  BY DEF Calm
<1> HIDE DEF g
<1>11. q \in Ssh(opt)
  BY <1>1, <1>7 DEF Ssh
<1>12. /\ Carried(r, q) /\ q.rekeying = r.rekeying /\ q.done = r.done /\ q.flags = g /\ q.strict = r.strict
       /\ q.my = r.my /\ q.peer = r.peer /\ q.handover = r.handover
       /\ q.newkeys = r.newkeys /\ q.queue = r.queue /\ q.dispatch = r.dispatch
  BY <1>1 DEF Ssh, Carried
<1> HIDE DEF q, s
<1>13. Calm(q)
  BY <1>1, <1>9, <1>10, <1>12 DEF Calm, Carried
<1>14. Sender(q, f, y) /\ Input(r, q)
  <2>1. r.authed => "INITIAL" \notin q.flags
    BY <1>13 DEF Calm
  <2> QED BY <1>11, <1>12, <2>1, Pure DEF Heard
<1>15. CASE i = 2
  <2> DEFINE b == ssh_packet_send2(q, "EXT_INFO", 0)
  <2>1. "EXT_INFO" \in PacketType /\ "EXT_INFO" # "USERAUTH_SUCCESS"
    BY DEF PacketType, TransportType
  <2>2. y.n - First(opt) = 2 /\ y.n < Most(opt) /\ y.n + 1 = u.n
    BY <1>1, <1>3, <1>5, <1>15
  <2>3. Dialogue(Me(q), y.n - First(opt), "EXT_INFO")
    BY <1>2, <1>12, <2>2 DEF Dialogue, Me, Carried
  <2>4. q.blocks["in"] <= Most(opt)
    BY <1>1, <1>12 DEF Carried
  <2>5. /\ \E z : Sender(b, f, z) /\ z.st = "auth" /\ z.n = y.n + 1
        /\ Kept(q, b) /\ Calm(b)
    BY <1>1, <1>13, <1>14, <2>1, <2>2, <2>3, <2>4, Says
  <2> HIDE DEF b
  <2>6. b \in Ssh(opt)
    BY <2>5 DEF Sender
  <2>7. Input(r, b)
    BY <1>1, <1>11, <1>14, <2>5, <2>6, InputTransitive DEF Kept
  <2>8. b.flags = g /\ b.dispatch = r.dispatch
    BY <1>12, <2>5 DEF Kept, Control
  <2>9. Hearing(r, f, y, u, b)
    BY <2>2, <2>5, <2>7, <2>8 DEF Hearing, g
  <2> QED BY <1>2, <1>8, <1>15, <2>2, <2>9 DEF b, s, i
<1>16. CASE i # 2
  <2>1. y.n = u.n
    BY <1>1, <1>5, <1>16
  <2>2. Hearing(r, f, y, u, q)
    BY <1>1, <1>12, <1>13, <1>14, <2>1 DEF Hearing, g
  <2> QED BY <1>2, <1>8, <1>16, <2>1, <2>2 DEF s, i
<1> QED BY <1>15, <1>16

\* The user is refused.
LEMMA ReadsRefused ==
    ASSUME OptOK(opt), NEW r, NEW f, NEW x, NEW y, NEW u, Heard(r, f, x, y, "USERAUTH_REQUEST", u), u.n < Most(opt)
    PROVE  Arrives(r, f, u, input_userauth_request(r, FALSE))
<1> DEFINE b == Asked(r)
           s == ssh_packet_send2(b, "USERAUTH_FAILURE", 0)
<1>1. input_userauth_request(r, FALSE) = s
  BY DEF input_userauth_request, Asked
<1>2. Hearing(r, f, y, u, b) /\ r.server /\ x.n - First(opt) > 1
  BY AskedFor
<1> HIDE DEF b
<1>3. /\ r \in Ssh(opt) /\ Talks(r, x.n - First(opt)) /\ u.n = x.n + 1 /\ x.n \in Nat
      /\ First(opt) \in {3, 4} /\ Most(opt) \in Nat
      /\ r.blocks["in"] \in Nat /\ r.blocks["in"] <= Most(opt)
  BY HeardFacts
<1>4. PICK v : Sender(b, f, v) /\ v.st = "auth" /\ v.n = u.n
  BY <1>2 DEF Hearing
<1>5. Input(r, b) /\ Calm(b) /\ b.flags = r.flags \cup {"attempted"} /\ b.dispatch = r.dispatch /\ b \in Ssh(opt) /\ b.server
  BY <1>2, <1>4 DEF Hearing, Sender, Input
<1>6. u.n - First(opt) > 2
  BY <1>2, <1>3
<1>7. Dialogue(Me(b), v.n - First(opt), "USERAUTH_FAILURE")
  BY <1>4, <1>5, <1>6 DEF Dialogue, Me
<1>8. "USERAUTH_FAILURE" \in PacketType /\ "USERAUTH_FAILURE" # "USERAUTH_SUCCESS"
  BY DEF PacketType, AuthType
<1>9. v.n < Most(opt) /\ b.blocks["in"] <= Most(opt)
  BY <1>3, <1>4, <1>5 DEF Input
<1>10. /\ \E z : Sender(s, f, z) /\ z.st = "auth" /\ z.n = v.n + 1
       /\ Kept(b, s) /\ Calm(s)
  BY <1>4, <1>5, <1>7, <1>8, <1>9, Says
<1> HIDE DEF s
<1>11. PICK z : Sender(s, f, z) /\ z.st = "auth" /\ z.n = u.n + 1
  BY <1>4, <1>10
<1>12. s \in Ssh(opt)
  BY <1>11 DEF Sender
<1>13. Input(r, s)
  BY <1>3, <1>5, <1>10, <1>12, InputTransitive DEF Kept
<1>14. z.n = Written(opt, r.server, u.n)
  BY <1>2, <1>3, <1>6, <1>11 DEF Written
<1>15. Talks(s, u.n - First(opt))
  <2>1. s.server /\ s.dispatch = r.dispatch /\ s.flags = r.flags \cup {"attempted"}
    BY <1>5, <1>10 DEF Kept, Control
  <2> DEFINE i == x.n - First(opt)
             j == u.n - First(opt)
  <2>2. i > 1 /\ i > 0 /\ j > 2 /\ j > 1 /\ j > 0 /\ ~(j < 1) /\ ~(j = 0) /\ ~(j = 1)
    BY <1>2, <1>3
  <2>3. Talks(r, i)
    BY <1>3
  <2> HIDE DEF i, j
  <2>4. Talks(s, j)
    BY <1>2, <2>1, <2>2, <2>3 DEF Talks
  <2> QED BY <2>4 DEF j
<1>16. Arrives(r, f, u, s)
  BY <1>10, <1>11, <1>13, <1>14, <1>15, HeardDone
<1> QED BY <1>1, <1>16

\* s is a server that has accepted the user after the packet that led to u.
Accepted(f, u, s) ==
    /\ \E z : Sender(s, f, z) /\ Local(opt, s, Opened(opt, u), z)
    /\ s.server /\ s.authed /\ Accepting(s.wire)

\* The user is accepted, when all that was written before has been read.
LEMMA ReadsAccepted ==
    ASSUME OptOK(opt), NEW r, NEW f, NEW x, NEW y, NEW u, Heard(r, f, x, y, "USERAUTH_REQUEST", u), u.n < Most(opt), r.wire = <<>>
    PROVE  Accepted(f, u, input_userauth_request(r, TRUE))
<1> DEFINE b == Asked(r)
           c == ssh_packet_send2_wrapped(b, "USERAUTH_SUCCESS", 0)
           s == [c EXCEPT !.handover = TRUE]
           o == Opened(opt, u)
<1>1. input_userauth_request(r, TRUE) = [ssh_packet_send2(b, "USERAUTH_SUCCESS", 0) EXCEPT !.handover = TRUE]
  BY DEF input_userauth_request, Asked
<1>2. /\ Hearing(r, f, y, u, b) /\ r.server /\ x.n - First(opt) > 1
      /\ y.n = u.n \/ (y.n + 1 = u.n /\ y.n - First(opt) = 2)
  BY AskedFor
<1> HIDE DEF b
<1>3. /\ r \in Ssh(opt) /\ Talking(u) /\ u.n = x.n + 1 /\ x.n \in Nat /\ y.n \in Nat /\ y.st = "auth"
      /\ First(opt) \in {3, 4} /\ Most(opt) \in Nat
      /\ r.blocks["in"] \in Nat /\ r.blocks["in"] <= Most(opt)
  BY HeardFacts
<1>4. PICK v : Sender(b, f, v) /\ v.st = "auth" /\ v.n = u.n
  BY <1>2 DEF Hearing
<1>5. Input(r, b) /\ Calm(b) /\ b.flags = r.flags \cup {"attempted"} /\ b.dispatch = r.dispatch /\ b \in Ssh(opt) /\ b.server
  BY <1>2, <1>4 DEF Hearing, Sender, Input
<1>6. b.blocks["in"] \in Nat /\ b.blocks["out"] \in Nat
  BY <1>5, SshTypes DEF Mode
<1>7. ssh_packet_send2(b, "USERAUTH_SUCCESS", 0) = c
  <2>1. b.blocks["out"] <= v.n
    BY <1>4, <1>5 DEF Sender, Kind, Pre, Calm
  <2>2. b.blocks["in"] <= Most(opt)
    BY <1>3, <1>5 DEF Input
  <2>3. \A m \in Mode : b.blocks[m] <= Most(opt)
    BY <1>3, <1>4, <1>6, <2>1, <2>2 DEF Mode
  <2>4. ~b.authed /\ ~b.rekeying /\ "USERAUTH_SUCCESS" # "NEWKEYS"
    BY <1>5 DEF Calm
  <2> QED BY <1>4, <2>3, <2>4, PlainSend
<1>8. Room(b, v)
  BY <1>4, <1>5 DEF Room, Calm
<1>9. v.n - First(opt) > 2
  BY <1>2, <1>3, <1>4
<1>10. ~b.authed /\ b.key["in"] # NoKey /\ b.comp["in"] = "off" /\ "INITIAL" \notin b.flags
  BY <1>5 DEF Calm, NoKey, Heard, Input
<1> DEFINE z == After(opt, v, "USERAUTH_SUCCESS")
<1>11. /\ Sender(c, f, z) /\ Control(b, c) /\ c.authed = TRUE /\ c.newkeys = b.newkeys /\ c.queue = b.queue
       /\ c.key = b.key /\ c.seq["in"] = b.seq["in"] /\ c.wire = Append(b.wire, Packed(b, "USERAUTH_SUCCESS", 0))
       /\ \A m \in Mode : c.comp[m] = Begun(opt)
       /\ z.st = "open" /\ z.k = 1 /\ z.n = 0
  BY <1>4, <1>5, <1>8, <1>9, <1>10, SendsSuccess
<1> HIDE DEF c, z
<1>12. c \in Ssh(opt)
  BY <1>11 DEF Sender
<1>13. s \in Ssh(opt)
  BY <1>12 DEF Ssh
<1>14. /\ Carried(c, s) /\ s.rekeying = c.rekeying /\ s.done = c.done /\ s.flags = c.flags /\ s.strict = c.strict
       /\ s.my = c.my /\ s.peer = c.peer /\ s.handover = TRUE
       /\ s.newkeys = c.newkeys /\ s.queue = c.queue /\ s.dispatch = c.dispatch
  BY <1>12 DEF Ssh, Carried
<1> HIDE DEF s
<1>15. Sender(s, f, z)
  <2>1. c.authed => "INITIAL" \notin s.flags
    BY <1>10, <1>11, <1>14 DEF Control
  <2> QED BY <1>11, <1>13, <1>14, <2>1, Pure
<1>16. /\ s.rekeying = FALSE /\ s.done = TRUE /\ s.strict = Strict /\ s.my = 1 /\ s.peer = 1
       /\ "INITIAL" \notin s.flags /\ "INIT_SENT" \notin s.flags /\ "INIT_RECVD" \notin s.flags
       /\ s.newkeys = [m \in Mode |-> NoKey] /\ s.queue = <<>> /\ "DATA" \notin s.dispatch /\ s.server /\ s.authed
       /\ s.key["in"] = <<1, 1>> /\ s.seq["in"] = u.seq
  BY <1>5, <1>11, <1>14 DEF Calm, Control, Carried, Input, Heard
<1>17. o \in Position(opt) /\ o.st = "open" /\ o.k = 1 /\ o.n = 0 /\ o.comp = Begun(opt) /\ o.seq = u.seq
  <2>1. u \in Position(opt) /\ u.k = 1
    BY <1>3 DEF Talking
  <2>2. Begun(opt) \in Contexts /\ "open" \in Stages /\ 0 \in 0..Most(opt)
    BY <1>3 DEF Begun, Contexts, Stages
  <2> QED BY <2>1, <2>2 DEF Opened, Position
<1> HIDE DEF o
<1>18. Phase(s, o, z)
  BY <1>11, <1>16, <1>17 DEF Phase, Busy
<1>19. Steps(opt, s.server, o, z)
  BY <1>11, <1>17 DEF Steps, Busy
<1>20. Derived(s, o) /\ Settled(opt, s, o, z)
  BY <1>16, <1>17 DEF Derived, Settled, Strict
<1>21. Key(o) = <<1, 1>> /\ ~Early(o)
  BY <1>17 DEF Key, Early, Busy
<1>22. \A m \in Mode : s.comp[m] = Begun(opt)
  BY <1>11, <1>14 DEF Carried
<1>23. Authed(opt, s, o, z)
  <2>1. Post(s, z)
    BY <1>15, <1>16 DEF Sender, Kind
  <2>2. \A i \in 1..Len(s.queue) : s.queue[i].type \in AppType
    BY <1>16
  <2> QED BY <1>14, <1>16, <1>17, <1>21, <1>22, <2>1, <2>2 DEF Authed
<1>24. Local(opt, s, o, z)
  <2>1. z \in Position(opt) /\ At(s, "out", z) /\ s.fault = "none"
    BY <1>15 DEF Sender
  <2>2. Whole(opt, s, o, z)
    BY <1>13, <1>16, <1>17, <1>18, <1>19, <1>20, <1>21, <1>23, <2>1 DEF Whole, Exchange
  <2>3. s.comp["in"] = o.comp
    BY <1>17, <1>22 DEF Mode
  <2> QED BY <1>16, <1>17, <2>2, <2>3 DEF Local
\* At most the EXT_INFO is written before.
<1>25. Accepting(s.wire)
  <2> DEFINE w == b.wire
             pk == Packed(b, "USERAUTH_SUCCESS", 0)
  <2>1. w \in Seq(Message(opt)) /\ s.wire = Append(w, pk) /\ pk.type = "USERAUTH_SUCCESS"
    BY <1>5, <1>11, <1>14, SshTypes DEF Carried, Packed
  <2>2. f = y
    <3>1. Path(opt, Me(r), <<>>, f, y)
      BY DEF Heard, Sender
    <3> QED BY <3>1, PathEmpty
  <2>3. Path(opt, "server", w, y, v) /\ Counted(w, y, v)
    BY <1>4, <1>5, <1>10, <2>2 DEF Sender, Kind, Me
  <2> HIDE DEF w, pk
  <2>4. /\ Len(w) \in Nat /\ Len(s.wire) = Len(w) + 1 /\ s.wire[Len(w) + 1] = pk
        /\ \A i \in 1..Len(w) : s.wire[i] = w[i]
    BY <2>1, AppendProperties, LenProperties
  <2>5. v.n = y.n + Len(w)
    BY <2>3 DEF Counted
  <2>6. CASE y.n = u.n
    <3>1. Len(w) = 0
      BY <1>3, <1>4, <2>4, <2>5, <2>6
    <3>2. 1 <= Len(s.wire) /\ s.wire[1].type = "USERAUTH_SUCCESS"
      BY <2>1, <2>4, <3>1
    <3> QED BY <3>2 DEF Accepting
  <2>7. CASE y.n + 1 = u.n /\ y.n - First(opt) = 2
    <3>1. Len(w) = 1
      <4> DEFINE l == Len(w)
      <4>1. l \in Nat /\ y.n \in Nat /\ y.n + 1 = y.n + l
        BY <1>3, <1>4, <2>4, <2>5, <2>7
      <4> HIDE DEF l
      <4>2. l = 1
        BY ONLY <4>1
      <4> QED BY <4>2 DEF l
    <3>2. w # <<>>
      BY <3>1
    <3>3. Fits(opt, "server", y, Head(w))
      BY <2>1, <2>3, <3>2, PathTail
    <3>4. Head(w).type = "EXT_INFO"
      BY <1>3, <2>7, <3>3 DEF Fits, May, Dialogue, Eve
    <3>5. Head(w) = w[1]
      BY <2>1, <3>2, HeadTailProperties
    <3>6. 2 <= Len(s.wire) /\ s.wire[2].type = "USERAUTH_SUCCESS" /\ s.wire[1].type = "EXT_INFO"
      BY <2>1, <2>4, <3>1, <3>4, <3>5
    <3> QED BY <3>6 DEF Accepting
  <2> QED BY <1>2, <2>6, <2>7
<1>26. Accepted(f, u, s)
  BY <1>15, <1>16, <1>24, <1>25 DEF Accepted, o
<1> QED BY <1>1, <1>7, <1>26 DEF s

----------------------------------------------------------------------------
(* The loops are entered.                                                  *)

\* client_init_dispatch and server_init_dispatch.
LEMMA Dispatches ==
    ASSUME NEW r \in Ssh(opt)
    PROVE  LET s == InitDispatch(r)
           IN  s \in Ssh(opt) /\ Carried(r, s) /\ Rest(r, s) /\ s.dispatch = AppType \cup {"KEXINIT"}
<1> DEFINE D == AppType \cup {"KEXINIT"}
           s == [r EXCEPT !.dispatch = D]
<1>1. D \in SUBSET PacketType
  BY DEF PacketType, TransportType
<1>2. InitDispatch(r) = s
  BY DEF InitDispatch
<1> HIDE DEF D
<1>3. s \in Ssh(opt)
  BY <1>1 DEF Ssh
<1>4. Carried(r, s) /\ Rest(r, s) /\ s.dispatch = D
  BY DEF Ssh, Carried, Rest
<1> HIDE DEF s
<1> QED BY <1>2, <1>3, <1>4 DEF D

\* An end outside an exchange, or one that has just begun one.
Idle(s, x, z) ==
    \/ z.st = "open" /\ z.k = x.k /\ s.my = x.k /\ s.done = TRUE /\ s.rekeying = FALSE /\ "INIT_SENT" \notin s.flags
    \/ z.st = "kexinit" /\ z.k = x.k + 1 /\ s.my = x.k + 1 /\ s.done = FALSE /\ s.rekeying = TRUE /\ "INIT_SENT" \in s.flags

\* It is as it should be once the dispatch table is set.
LEMMA Enters ==
    ASSUME OptOK(opt), NEW s, NEW f, NEW x \in Position(opt), NEW z, Sender(s, f, z), s.authed, ~s.handover, s.queue = <<>>,
           s.newkeys = [m \in Mode |-> NoKey], s.strict = Strict, s.key["in"] = Key(x), x.st = "open", ~Early(x), x.n = 0,
           s.peer = x.k, AppType \cup {"KEXINIT"} \subseteq s.dispatch, "INIT_RECVD" \notin s.flags, Idle(s, x, z)
    PROVE  Whole(opt, s, x, z)
<1>1. s \in Ssh(opt) /\ s.fault = "none" /\ z \in Position(opt) /\ At(s, "out", z) /\ Post(s, z)
  BY DEF Sender, Kind
<1>2. x.k \in Nat /\ x.k # 0
  BY DEF Position, Early
<1>3. Phase(s, x, z)
  BY DEF Phase, Idle, Busy
<1>4. Steps(opt, s.server, x, z)
  BY <1>2 DEF Steps, Idle, Busy
<1>5. Derived(s, x) /\ Settled(opt, s, x, z)
  BY DEF Derived, Settled, Strict
<1>6. Accepts(opt, s, x)
  BY DEF Accepts, Eve
<1>7. Authed(opt, s, x, z)
  <2>1. \A i \in 1..Len(s.queue) : s.queue[i].type \in AppType
    OBVIOUS
  <2> QED BY <1>1, <1>6, <2>1 DEF Authed
<1> QED BY <1>1, <1>3, <1>4, <1>5, <1>7 DEF Whole, Exchange

\* s is r after ssh_packet_check_rekey.
Watched(r, f, x, s) ==
    /\ \E z : Sender(s, f, z) /\ Idle(s, x, z)
    /\ Input(r, s) /\ s.strict = r.strict /\ s.peer = r.peer /\ s.handover = r.handover
    /\ s.authed = r.authed /\ s.newkeys = r.newkeys /\ s.queue = r.queue /\ s.dispatch = r.dispatch
    /\ "INIT_RECVD" \in s.flags <=> "INIT_RECVD" \in r.flags

\* ssh_packet_check_rekey where only what it needs is known.
LEMMA ChecksIdle ==
    ASSUME OptOK(opt), NEW r, NEW f, NEW x, NEW y, Sender(r, f, y), r.authed, y.st = "open", y.k = x.k,
           r.my = x.k, r.done = TRUE, r.rekeying = FALSE, "INIT_SENT" \notin r.flags
    PROVE  Watched(r, f, x, ssh_packet_check_rekey(r))
<1> DEFINE s == ssh_packet_check_rekey(r)
<1>1. ~ssh_packet_check_rekey_preauth(r)
  BY DEF ssh_packet_check_rekey_preauth
<1>2. r \in Ssh(opt)
  BY DEF Sender
<1>3. CASE ssh_packet_need_rekeying(r, 0)
  <2>1. s = kex_start_rekex(r)
    BY <1>1, <1>3 DEF ssh_packet_check_rekey
  <2> DEFINE u == kex_start_rekex(r)
  <2>2. /\ \E z : Sender(u, f, z) /\ z.k = y.k + 1 /\ z.st = "kexinit"
        /\ Input(r, u) /\ Initiated(r, u, y.k + 1)
    BY RekexSent
  <2> HIDE DEF s, u
  <2>3. PICK z : Sender(u, f, z) /\ z.k = y.k + 1 /\ z.st = "kexinit"
    BY <2>2
  <2>4. Idle(u, x, z)
    BY <2>2, <2>3 DEF Idle, Initiated
  <2>5. s = u
    BY <2>1 DEF u
  <2>6. Watched(r, f, x, u)
    BY <2>2, <2>3, <2>4 DEF Watched, Initiated
  <2> QED BY <2>5, <2>6 DEF s
<1>4. CASE ~ssh_packet_need_rekeying(r, 0)
  <2>1. s = r
    BY <1>1, <1>4 DEF ssh_packet_check_rekey
  <2> HIDE DEF s
  <2>2. Idle(r, x, y) /\ Input(r, r)
    BY <1>2, InputReflexive DEF Idle
  <2>3. Watched(r, f, x, r)
    BY <2>2 DEF Watched
  <2> QED BY <2>1, <2>3 DEF s
<1> QED BY <1>3, <1>4

\* s is a client that has been told so, with nothing written since y.
Entered(y, u, s) ==
    /\ \E z : Sender(s, Opened(opt, y), z) /\ Local(opt, s, u, z)
    /\ ~s.server /\ s.authed

\* The client reads USERAUTH_SUCCESS, and may begin an exchange at once.
LEMMA ReadsSuccess ==
    ASSUME OptOK(opt), NEW r, NEW x, NEW y, Local(opt, r, x, y), ~r.authed, ~r.server, r.wire = <<>>,
           NEW pk, Fits(opt, Other(r), x, pk), pk.type = "USERAUTH_SUCCESS", NEW u, u = After(opt, x, pk.type), u \in Position(opt),
           NEW ok
    PROVE  Entered(y, u, Dispatch(r, pk, ok))
<1> DEFINE f == Opened(opt, y)
           a == Taken(r, pk.type)
           b == ssh_packet_enable_delayed_compress(a)
           c == ssh_packet_check_rekey(b)
           s == InitDispatch(c)
<1>1. Whole(opt, r, x, y) /\ x.st = "auth" /\ Dialogue("server", x.n - First(opt), "USERAUTH_SUCCESS")
  BY DEF Local, Fits, May, Prelude, Method, AppType, Other
<1>2. /\ r \in Ssh(opt) /\ Calm(r) /\ Talks(r, x.n - First(opt)) /\ Talking(x) /\ y.st = "auth" /\ y.k = 1
      /\ Key(x) = <<1, 1>>
  BY <1>1, Conversing
<1>3. At(r, "out", y) /\ y.comp = "off" /\ y \in Position(opt)
  BY <1>1, WholeParts DEF Unauthed, Pre
<1>4. {"USERAUTH_FAILURE", "USERAUTH_SUCCESS"} \subseteq r.dispatch
  <2> DEFINE i == x.n - First(opt)
  <2>1. i > 2
    BY <1>1 DEF Dialogue
  <2>2. i \in Int
    BY <1>2 DEF Talking, First
  <2>3. Talks(r, i)
    BY <1>2
  <2> HIDE DEF i
  <2>4. i > 1
    BY <2>1, <2>2
  <2> QED BY <2>3, <2>4 DEF Talks
<1>5. /\ Readable(r, pk) /\ ~Wrapped(r, "in")
      /\ a \in Ssh(opt) /\ Apart(r, a) /\ a.comp["in"] = Used(x.comp) /\ a.seq["in"] = After(opt, x, pk.type).seq
  BY Decrypts
<1>6. ssh_packet_read_poll2(r, pk) = c
  BY <1>5 DEF ssh_packet_read_poll2, Taken
<1> HIDE DEF a
<1>7. /\ b \in Ssh(opt) /\ Control(a, b)
      /\ b.authed = TRUE /\ b.wire = a.wire /\ b.queue = a.queue /\ b.seq = a.seq
      /\ b.key = a.key /\ b.newkeys = a.newkeys
      /\ \A m \in Mode : b.comp[m] = IF a.key[m] # NoKey /\ a.comp[m] = "off" /\ Delayed THEN "new" ELSE a.comp[m]
  BY <1>5, EnableCompress
<1> HIDE DEF b
<1>8. /\ b.server = r.server /\ b.fault = r.fault /\ b.wire = <<>> /\ b.seq["out"] = r.seq["out"] /\ b.key = r.key
      /\ b.flags = r.flags /\ b.dispatch = r.dispatch /\ b.strict = r.strict /\ b.my = r.my /\ b.peer = r.peer
      /\ b.handover = r.handover /\ b.newkeys = r.newkeys /\ b.queue = r.queue /\ b.done = r.done /\ b.rekeying = r.rekeying
      /\ b.seq["in"] = u.seq
  BY <1>5, <1>7 DEF Apart, Rest, Control
<1>9. "in" \in Mode /\ "out" \in Mode
  BY DEF Mode
<1>10. b.comp["in"] = Begun(opt) /\ b.comp["out"] = Begun(opt)
  <2>1. a.comp["in"] = "off" /\ a.comp["out"] = "off"
    BY <1>2, <1>3, <1>5 DEF Apart, At, Used, Talking
  <2>2. a.key["in"] = <<1, 1>> /\ a.key["out"] = <<1, 1>>
    BY <1>2, <1>3, <1>5 DEF Apart, Calm, At, Key, Busy
  <2> QED BY <1>7, <1>9, <2>1, <2>2 DEF Begun, Delayed, NoKey
<1>11. f \in Position(opt) /\ f.st = "open" /\ f.k = 1 /\ f.n = 0 /\ f.comp = Begun(opt) /\ f.seq = y.seq
  <2>1. Begun(opt) \in Contexts /\ "open" \in Stages /\ 0 \in 0..Most(opt)
    BY DEF Begun, Contexts, Stages, Most, First, OptOK
  <2> QED BY <1>2, <1>3, <2>1 DEF Opened, Position
<1> HIDE DEF f
<1>12. Sender(b, f, f)
  <2>1. b.fault = "none"
    BY <1>1, <1>8, WholeParts
  <2>2. At(b, "out", f)
    BY <1>2, <1>3, <1>8, <1>10, <1>11 DEF At, Key, Busy
  <2>3. Path(opt, Me(b), b.wire, f, f)
    BY <1>8, <1>11, PathEmpty
  <2>4. Kind(b, f, f)
    BY <1>2, <1>7, <1>8, <1>11 DEF Kind, Post, Early, Calm
  <2> QED BY <1>7, <1>11, <2>1, <2>2, <2>3, <2>4 DEF Sender
<1>13. u.st = "open" /\ u.k = 1 /\ u.n = 0 /\ u.comp = Begun(opt)
  BY <1>2 DEF After, StageAfter, CompAfter, Begun, Talking
<1>14. Key(u) = <<1, 1>> /\ ~Early(u)
  BY <1>13 DEF Key, Busy, Early
<1>15. /\ \E z : Sender(c, f, z) /\ Idle(c, u, z)
       /\ Input(b, c) /\ c.strict = b.strict /\ c.peer = b.peer /\ c.handover = b.handover
       /\ c.authed = b.authed /\ c.newkeys = b.newkeys /\ c.queue = b.queue /\ c.dispatch = b.dispatch
       /\ "INIT_RECVD" \in c.flags <=> "INIT_RECVD" \in b.flags
  <2>1. b.my = u.k /\ b.done = TRUE /\ b.rekeying = FALSE /\ "INIT_SENT" \notin b.flags /\ b.authed /\ f.k = u.k
    BY <1>2, <1>7, <1>8, <1>11, <1>13 DEF Calm
  <2>2. Watched(b, f, u, c)
    BY <1>11, <1>12, <2>1, ChecksIdle
  <2> HIDE DEF c
  <2> QED BY <2>2 DEF Watched
<1> HIDE DEF c
<1>16. PICK z : Sender(c, f, z) /\ Idle(c, u, z)
  BY <1>15
<1>17. c \in Ssh(opt) /\ c.fault = "none"
  BY <1>16 DEF Sender
<1>18. s \in Ssh(opt) /\ Carried(c, s) /\ Rest(c, s) /\ s.dispatch = AppType \cup {"KEXINIT"}
  BY <1>17, Dispatches
<1>19. Dispatch(r, pk, ok) = s
  <2>1. "INIT_RECVD" \notin c.flags /\ pk.type \in c.dispatch
    BY <1>2, <1>4, <1>8, <1>15 DEF Calm
  <2>2. Handle(c, pk, ok) = s
    BY DEF Handle, AppType
  <2> QED BY <1>6, <1>17, <2>1, <2>2 DEF Dispatch
<1> HIDE DEF s
<1>20. Sender(s, f, z) /\ Input(c, s)
  BY <1>16, <1>18, SenderTable
<1>21. Idle(s, u, z)
  BY <1>16, <1>18 DEF Idle, Rest
<1>22. Input(b, s)
  BY <1>7, <1>15, <1>17, <1>18, <1>20, InputTransitive
<1>23. /\ s.authed /\ ~s.handover /\ s.queue = <<>> /\ s.newkeys = [m \in Mode |-> NoKey] /\ s.strict = Strict
       /\ s.peer = u.k /\ "INIT_RECVD" \notin s.flags /\ s.key["in"] = Key(u)
  BY <1>2, <1>7, <1>8, <1>13, <1>14, <1>15, <1>18, <1>22 DEF Carried, Rest, Calm, Input
<1>24. Whole(opt, s, u, z)
  BY <1>13, <1>14, <1>18, <1>20, <1>21, <1>23, Enters
<1>25. s.seq["in"] = u.seq /\ s.comp["in"] = u.comp /\ ~s.server
  BY <1>8, <1>10, <1>13, <1>22 DEF Input
<1>26. Local(opt, s, u, z)
  BY <1>23, <1>24, <1>25 DEF Local
<1> QED BY <1>19, <1>20, <1>23, <1>25, <1>26 DEF Entered, f

\* s is r with its new keys for mode in use.
Installed(r, mode, s) ==
    /\ s \in Ssh(opt) /\ Control(r, s)
    /\ s.authed = r.authed /\ s.wire = r.wire /\ s.queue = r.queue /\ s.seq = r.seq
    /\ s.key = [r.key EXCEPT ![mode] = r.newkeys[mode]]
    /\ s.newkeys = [r.newkeys EXCEPT ![mode] = NoKey]
    /\ s.comp = [r.comp EXCEPT ![mode] = IF r.authed /\ Delayed THEN "new" ELSE "off"]

\* ssh_set_newkeys does that.
LEMMA Installs ==
    ASSUME NEW r \in Ssh(opt), NEW mode \in Mode, r.newkeys[mode] # NoKey
    PROVE  Installed(r, mode, ssh_set_newkeys(r, mode))
BY SetNewkeys DEF Installed

\* ssh_packet_set_state: sshd-session goes on where sshd-auth was.
LEMMA SetState ==
    ASSUME OptOK(opt), NEW r, NEW f, NEW x, NEW y, Local(opt, r, x, y), Sender(r, f, y), r.authed, r.handover
    PROVE  LET s == ssh_packet_set_state(r)
           IN  Sender(s, f, y) /\ Local(opt, s, x, y) /\ s.server = r.server /\ s.authed = r.authed /\ s.wire = r.wire
<1> DEFINE keys == [m \in Mode |-> r.key[m]]
           a == [r EXCEPT !.done = TRUE, !.rekeying = FALSE, !.queue = <<>>, !.due = FALSE, !.authed = FALSE, !.newkeys = keys]
           b == ssh_set_newkeys(a, "in")
           c == ssh_set_newkeys(b, "out")
           d == ssh_packet_enable_delayed_compress(c)
           e == [d EXCEPT !.vol = r.vol, !.handover = FALSE]
           s == InitDispatch(e)
<1>1. /\ r \in Ssh(opt) /\ x \in Position(opt) /\ y \in Position(opt) /\ r.key["in"] = Key(x) /\ At(r, "out", y) /\ Authed(opt, r, x, y)
      /\ Phase(r, x, y) /\ Steps(opt, r.server, x, y) /\ Derived(r, x) /\ Settled(opt, r, x, y)
      /\ r.seq["in"] = x.seq /\ r.comp["in"] = x.comp /\ r.fault = "none"
  BY WholeParts DEF Local
<1>2. ssh_packet_set_state(r) = s
  BY DEF ssh_packet_set_state
<1>3. r.done /\ \A m \in Mode : r.comp[m] = Begun(opt)
  BY <1>1 DEF Authed
<1>4. x.st = "open" /\ y.st = "open" /\ x.k = y.k /\ x.k # 0 /\ x.k \in Nat /\ r.my = x.k /\ r.peer = x.k
      /\ "INIT_SENT" \notin r.flags /\ "INIT_RECVD" \notin r.flags /\ r.queue = <<>> /\ r.strict = Strict
  BY <1>1, <1>3 DEF Phase, Steps, Settled, Authed, Post, Position, Stages, Busy, Strict
<1>5. r.key \in [Mode -> Nat \X Nat] /\ r.comp \in [Mode -> Contexts] /\ r.vol \in [all : Nat, app : Nat]
      /\ "in" \in Mode /\ "out" \in Mode /\ r.authed = TRUE
  BY <1>1, SshTypes DEF Mode
<1>6. keys = r.key
  BY <1>5
<1>7. r.key["in"] = <<x.k, x.k>> /\ r.key["out"] = <<x.k, x.k>> /\ <<x.k, x.k>> # NoKey
  BY <1>1, <1>4 DEF Key, Busy, At, NoKey
<1> HIDE DEF keys
<1>8. a \in Ssh(opt)
  <2>1. <<>> \in Seq(Item) /\ keys \in [Mode -> Nat \X Nat]
    BY <1>5, <1>6
  <2> QED BY <1>1, <2>1 DEF Ssh
<1>9. /\ a.server = r.server /\ a.fault = r.fault /\ a.wire = r.wire /\ a.seq = r.seq /\ a.key = r.key
      /\ a.rekeying = FALSE /\ a.done = TRUE /\ a.flags = r.flags /\ a.strict = r.strict
      /\ a.my = r.my /\ a.peer = r.peer /\ a.authed = FALSE /\ a.newkeys = keys /\ a.queue = <<>>
  BY <1>1 DEF Ssh
<1> HIDE DEF a
<1>10. /\ b \in Ssh(opt) /\ Control(a, b)
       /\ b.authed = a.authed /\ b.wire = a.wire /\ b.queue = a.queue /\ b.seq = a.seq
       /\ b.key = [a.key EXCEPT !["in"] = a.newkeys["in"]]
       /\ b.newkeys = [a.newkeys EXCEPT !["in"] = NoKey]
       /\ b.comp = [a.comp EXCEPT !["in"] = IF a.authed /\ Delayed THEN "new" ELSE "off"]
  <2>1. a.newkeys["in"] # NoKey
    BY <1>6, <1>7, <1>9
  <2>2. Installed(a, "in", b)
    BY <1>5, <1>8, <2>1, Installs
  <2> HIDE DEF b
  <2> QED BY <2>2 DEF Installed
<1> HIDE DEF b
<1>11. b.key = r.key
  BY <1>5, <1>6, <1>9, <1>10
<1>12. /\ c \in Ssh(opt) /\ Control(b, c)
       /\ c.authed = b.authed /\ c.wire = b.wire /\ c.queue = b.queue /\ c.seq = b.seq
       /\ c.key = [b.key EXCEPT !["out"] = b.newkeys["out"]]
       /\ c.newkeys = [b.newkeys EXCEPT !["out"] = NoKey]
       /\ c.comp = [b.comp EXCEPT !["out"] = IF b.authed /\ Delayed THEN "new" ELSE "off"]
  <2>1. b.newkeys["out"] # NoKey
    BY <1>5, <1>6, <1>7, <1>9, <1>10
  <2>2. Installed(b, "out", c)
    BY <1>5, <1>10, <2>1, Installs
  <2> HIDE DEF c
  <2> QED BY <2>2 DEF Installed
<1> HIDE DEF c
<1>13. c.key = r.key /\ c.newkeys = [m \in Mode |-> NoKey]
  <2>1. b.newkeys["out"] = r.key["out"]
    BY <1>5, <1>6, <1>9, <1>10
  <2>2. c.key = r.key
    BY <1>5, <1>11, <1>12, <2>1
  <2>3. a.newkeys \in [Mode -> Nat \X Nat]
    BY <1>8, SshTypes
  <2>4. c.newkeys = [m \in Mode |-> NoKey]
    BY <1>10, <1>12, <2>3 DEF Mode
  <2> QED BY <2>2, <2>4
<1>14. c.comp["in"] = "off" /\ c.comp["out"] = "off"
  <2>1. a.comp \in [Mode -> Contexts] /\ b.comp \in [Mode -> Contexts]
    BY <1>8, <1>10, SshTypes
  <2> QED BY <1>5, <1>9, <1>10, <1>12, <2>1
<1>15. /\ d \in Ssh(opt) /\ Control(c, d)
       /\ d.authed = TRUE /\ d.wire = c.wire /\ d.queue = c.queue /\ d.seq = c.seq
       /\ d.key = c.key /\ d.newkeys = c.newkeys
       /\ \A m \in Mode : d.comp[m] = IF c.key[m] # NoKey /\ c.comp[m] = "off" /\ Delayed THEN "new" ELSE c.comp[m]
  BY <1>12, EnableCompress
<1> HIDE DEF d
<1>16. d.comp["in"] = Begun(opt) /\ d.comp["out"] = Begun(opt)
  BY <1>5, <1>7, <1>13, <1>14, <1>15 DEF Begun, Delayed
<1>17. e \in Ssh(opt)
  BY <1>5, <1>15 DEF Ssh
<1>18. /\ Carried(d, e) /\ e.rekeying = d.rekeying /\ e.done = d.done /\ e.flags = d.flags /\ e.strict = d.strict
       /\ e.my = d.my /\ e.peer = d.peer /\ e.handover = FALSE /\ e.newkeys = d.newkeys /\ e.queue = d.queue
  BY <1>15 DEF Ssh, Carried
<1> HIDE DEF e
<1>19. s \in Ssh(opt) /\ Carried(e, s) /\ Rest(e, s) /\ s.dispatch = AppType \cup {"KEXINIT"}
  BY <1>17, Dispatches
<1> HIDE DEF s
<1>20. /\ s.server = r.server /\ s.fault = r.fault /\ s.wire = r.wire /\ s.seq = r.seq /\ s.key = r.key /\ s.flags = r.flags
       /\ s.rekeying = FALSE /\ s.done = TRUE /\ s.strict = r.strict /\ s.my = r.my /\ s.peer = r.peer /\ s.authed = TRUE
       /\ s.newkeys = [m \in Mode |-> NoKey] /\ s.queue = <<>> /\ s.handover = FALSE
       /\ s.comp["in"] = Begun(opt) /\ s.comp["out"] = Begun(opt)
  BY <1>9, <1>10, <1>12, <1>13, <1>15, <1>16, <1>18, <1>19 DEF Carried, Rest, Control
<1>21. Sender(s, f, y)
  <2>1. At(s, "out", y)
    BY <1>1, <1>3, <1>5, <1>20 DEF At
  <2>2. Kind(s, f, y)
    BY <1>20 DEF Kind, Post, Sender
  <2>3. Path(opt, Me(s), s.wire, f, y)
    BY <1>20 DEF Me, Sender
  <2> QED BY <1>1, <1>19, <1>20, <2>1, <2>2, <2>3 DEF Sender
<1>22. Idle(s, x, y)
  BY <1>4, <1>20 DEF Idle
<1>23. ~Early(x) /\ x.n = 0
  BY <1>1 DEF Authed
<1>24. Whole(opt, s, x, y)
  BY <1>1, <1>4, <1>19, <1>20, <1>21, <1>22, <1>23, Enters
<1>25. Local(opt, s, x, y)
  BY <1>1, <1>3, <1>5, <1>20, <1>24 DEF Local
<1> QED BY <1>2, <1>5, <1>20, <1>21, <1>25

----------------------------------------------------------------------------
(* A packet is read and handled.                                           *)

\* The handlers of the method's packets.
LEMMA HandleMethod ==
    ASSUME NEW r, NEW pk, NEW ok
    PROVE  /\ pk.type = Prelude(Other(r)) => Handle(r, pk, ok) = PreludeRead(r)
           /\ pk.type = Method(Other(r)) => Handle(r, pk, ok) = MethodRead(r, pk)
<1>1. ASSUME pk.type = Prelude(Other(r)) PROVE Handle(r, pk, ok) = PreludeRead(r)
  <2>1. CASE r.server
    <3>1. pk.type = "GEX_REQUEST"
      BY <1>1, <2>1 DEF Prelude, Other
    <3> QED BY <2>1, <3>1 DEF Handle, PreludeRead, AppType
  <2>2. CASE ~r.server
    <3>1. pk.type = "GEX_GROUP"
      BY <1>1, <2>2 DEF Prelude, Other
    <3> QED BY <2>2, <3>1 DEF Handle, PreludeRead, AppType
  <2> QED BY <2>1, <2>2
<1>2. ASSUME pk.type = Method(Other(r)) PROVE Handle(r, pk, ok) = MethodRead(r, pk)
  <2>1. CASE r.server
    <3>1. pk.type = "INIT"
      BY <1>2, <2>1 DEF Method, Other
    <3> QED BY <2>1, <3>1 DEF Handle, MethodRead, AppType
  <2>2. CASE ~r.server
    <3>1. pk.type = "REPLY"
      BY <1>2, <2>2 DEF Method, Other
    <3> QED BY <2>2, <3>1 DEF Handle, MethodRead, AppType
  <2> QED BY <2>1, <2>2
<1> QED BY <1>1, <1>2

\* Before the user is accepted a packet that was read is one that was heard.
LEMMA ReadyHeard ==
    ASSUME OptOK(opt), NEW s, NEW f, NEW x, NEW z, Whole(opt, s, x, z), Sender(s, f, z), x.st = "auth",
           NEW t, t # "USERAUTH_SUCCESS", May(opt, Other(s), x, t), NEW u, u = After(opt, x, t), u \in Position(opt),
           s.seq["in"] = u.seq, s.comp["in"] = Used(x.comp), ~s.authed => s.blocks["in"] <= u.n
    PROVE  Heard(s, f, x, z, t, u)
<1>1. ~s.authed /\ x.comp = "off"
  BY WholeParts DEF Authed, Unauthed, Placed
<1>2. Dialogue(Other(s), x.n - First(opt), t)
  BY DEF May, Eve
<1>3. s.comp["in"] = "off"
  BY <1>1 DEF Used
<1> QED BY <1>1, <1>2, <1>3 DEF Heard

\* Every packet but the ones with which a user is accepted.
LEMMA Handles ==
    ASSUME OptOK(opt), NEW r, NEW f, NEW x, NEW pk, NEW t, t = pk.type, NEW s, Ready(r, f, x, t, s), ~r.handover,
           Fits(opt, Other(r), x, pk), NEW u, u = After(opt, x, t), u \in Position(opt), t # "USERAUTH_SUCCESS",
           NEW ok, t = "USERAUTH_REQUEST" => ok = FALSE /\ u.n < Most(opt)
    PROVE  Arrives(r, f, u, Handle(s, pk, ok))
<1> DEFINE h == Handle(s, pk, ok)
<1>1. /\ s.server = r.server /\ s.authed = r.authed /\ ~s.handover
      /\ s.seq["in"] = u.seq /\ s.comp["in"] = Used(x.comp)
      /\ ~s.authed => s.blocks["in"] <= x.n + 1
  BY DEF Ready
<1>2. PICK z : Sender(s, f, z) /\ Whole(opt, s, x, z)
  BY DEF Ready
<1>3. Other(s) = Other(r)
  BY <1>1 DEF Other
<1>4. May(opt, Other(s), x, t) /\ Fits(opt, Other(s), x, pk)
  BY <1>3 DEF Fits
<1>5. /\ s.authed => Authed(opt, s, x, z)
      /\ ~s.authed => Unauthed(opt, s, x, z)
      /\ x \in Position(opt)
  BY <1>2, WholeParts
<1>6. ~s.authed => u.n = x.n + 1 /\ s.blocks["in"] <= u.n
  <2>1. ~s.authed => Early(x)
    BY <1>5 DEF Unauthed, Placed
  <2> QED BY <1>1, <2>1 DEF After
<1>7. t # "NEWKEYS" => s.comp["in"] = u.comp
  BY <1>1 DEF After, CompAfter
<1>8. SUFFICES Arrives(s, f, u, h)
  BY <1>1 DEF Arrives
<1>9. CASE x.st = "auth"
  <2>1. Heard(s, f, x, z, t, u)
    BY <1>1, <1>2, <1>4, <1>6, <1>9, ReadyHeard
  <2>2. t \in {"EXT_INFO", "SERVICE_REQUEST", "SERVICE_ACCEPT", "USERAUTH_REQUEST", "USERAUTH_FAILURE"}
    BY <2>1 DEF Heard, Dialogue
  <2>3. CASE t = "EXT_INFO"
    <3>1. h = kex_input_ext_info(s)
      BY <2>3 DEF Handle, AppType
    <3>2. Arrives(s, f, u, kex_input_ext_info(s))
      <4>1. Heard(s, f, x, z, "EXT_INFO", u)
        BY <2>1, <2>3
      <4> QED BY <4>1, ReadsExtInfo
    <3> QED BY <3>1, <3>2, Zenon
  <2>4. CASE t = "SERVICE_REQUEST"
    <3>1. h = input_service_request(s)
      BY <2>4 DEF Handle, AppType
    <3>2. Arrives(s, f, u, input_service_request(s))
      <4>1. Heard(s, f, x, z, "SERVICE_REQUEST", u)
        BY <2>1, <2>4
      <4> QED BY <4>1, ReadsServiceRequest
    <3> QED BY <3>1, <3>2, Zenon
  <2>5. CASE t = "SERVICE_ACCEPT"
    <3>1. h = input_userauth_service_accept(s)
      BY <2>5 DEF Handle, AppType
    <3>2. Arrives(s, f, u, input_userauth_service_accept(s))
      <4>1. Heard(s, f, x, z, "SERVICE_ACCEPT", u)
        BY <2>1, <2>5
      <4> QED BY <4>1, ReadsServiceAccept
    <3> QED BY <3>1, <3>2, Zenon
  <2>6. CASE t = "USERAUTH_REQUEST"
    <3>1. h = input_userauth_request(s, FALSE)
      BY <2>6 DEF Handle, AppType
    <3>2. Arrives(s, f, u, input_userauth_request(s, FALSE))
      <4>1. Heard(s, f, x, z, "USERAUTH_REQUEST", u) /\ u.n < Most(opt)
        BY <2>1, <2>6
      <4> QED BY <4>1, ReadsRefused
    <3> QED BY <3>1, <3>2, Zenon
  <2>7. CASE t = "USERAUTH_FAILURE"
    <3>1. h = ssh_packet_send2(s, "USERAUTH_REQUEST", 0)
      BY <2>7 DEF Handle, AppType
    <3>2. Arrives(s, f, u, ssh_packet_send2(s, "USERAUTH_REQUEST", 0))
      <4>1. Heard(s, f, x, z, "USERAUTH_FAILURE", u)
        BY <2>1, <2>7
      <4> QED BY <4>1, ReadsFailure
    <3> QED BY <3>1, <3>2, Zenon
  <2> QED BY <2>2, <2>3, <2>4, <2>5, <2>6, <2>7
<1>10. CASE x.st # "auth"
  <2>1. \/ t = "KEXINIT"
        \/ t \in AppType /\ x.st = "open"
        \/ t = Prelude(Other(s))
        \/ t = Method(Other(s))
        \/ t = "NEWKEYS" /\ x.st = "method"
    BY <1>4, <1>10 DEF May
  <2>2. ASSUME Comes(s, f, u, h), t # "NEWKEYS" PROVE Arrives(s, f, u, h)
    BY <1>1, <1>6, <1>7, <2>2, ComesArrives
  <2>3. CASE t = "KEXINIT"
    <3>1. h = kex_input_kexinit(s, pk)
      BY <2>3 DEF Handle, AppType
    <3>2. Comes(s, f, u, kex_input_kexinit(s, pk))
      <4>1. u = After(opt, x, "KEXINIT") /\ pk.type = "KEXINIT"
        BY <2>3
      <4>2. After(opt, x, "KEXINIT") \in Position(opt)
        BY <4>1
      <4>3. Comes(s, f, After(opt, x, "KEXINIT"), kex_input_kexinit(s, pk))
        BY <1>1, <1>2, <1>4, <4>1, <4>2, ReadsKexinit
      <4> QED BY <4>1, <4>3
    <3>3. Comes(s, f, u, h)
      BY <3>1, <3>2, Zenon
    <3> QED BY <2>2, <2>3, <3>3
  <2>4. CASE t = Prelude(Other(s))
    <3>1. h = PreludeRead(s)
      BY <2>4, HandleMethod
    <3>2. Comes(s, f, u, PreludeRead(s))
      BY <1>1, <1>2, <1>4, <2>4, ReadsPrelude
    <3>3. Comes(s, f, u, h) /\ t # "NEWKEYS"
      <4>1. t # "NEWKEYS"
        BY <2>4 DEF Prelude
      <4> QED BY <3>1, <3>2, <4>1, Zenon
    <3> QED BY <2>2, <3>3
  <2>5. CASE t = Method(Other(s))
    <3>1. h = MethodRead(s, pk)
      BY <2>5, HandleMethod
    <3>2. Comes(s, f, u, MethodRead(s, pk))
      BY <1>1, <1>2, <1>4, <2>5, ReadsMethod
    <3>3. Comes(s, f, u, h) /\ t # "NEWKEYS"
      <4>1. t # "NEWKEYS"
        BY <2>5 DEF Method
      <4> QED BY <3>1, <3>2, <4>1, Zenon
    <3> QED BY <2>2, <3>3
  <2>6. CASE t \in AppType /\ x.st = "open"
    <3>1. h = s
      BY <2>6 DEF Handle, AppType
    <3>2. s.authed
      <4>1. Steps(opt, s.server, x, z)
        BY <1>2, WholeParts
      <4>2. x.st = "open" => x.k # 0
        BY <4>1 DEF Steps
      <4>3. ~s.authed => Early(x)
        BY <1>5 DEF Unauthed, Placed
      <4> QED BY <2>6, <4>2, <4>3 DEF Early
    <3>3. Whole(opt, s, u, z)
      BY <1>1, <1>2, <1>4, <2>6, <3>2, ReadsApp
    <3>4. Comes(s, f, u, s)
      <4>1. s \in Ssh(opt)
        BY <1>2 DEF Sender
      <4> QED BY <1>2, <3>3, <4>1, InputReflexive DEF Comes
    <3>5. Comes(s, f, u, h) /\ t # "NEWKEYS"
      <4>1. t # "NEWKEYS"
        BY <2>6 DEF AppType
      <4> QED BY <3>1, <3>4, <4>1, Zenon
    <3> QED BY <2>2, <3>5
  <2>7. CASE t = "NEWKEYS" /\ x.st = "method"
    <3>1. CASE s.authed
      <4>1. "INITIAL" \notin s.flags
        BY <1>5, <3>1 DEF Authed, Post
      <4>2. h = kex_input_newkeys(s)
        BY <2>7, <4>1 DEF Handle, AppType
      <4>3. Arrives(s, f, u, kex_input_newkeys(s))
        <5>1. u = After(opt, x, "NEWKEYS")
          BY <2>7
        <5> QED BY <1>1, <1>2, <2>7, <3>1, <5>1, NewkeysAgain
      <4> QED BY <4>2, <4>3, Zenon
    <3>2. CASE ~s.authed
      <4>1. "INITIAL" \in s.flags
        BY <1>5, <2>7, <3>2 DEF Unauthed
      <4>2. h = StartAuth(kex_input_newkeys(s))
        BY <2>7, <4>1 DEF Handle, AppType
      <4>3. Arrives(s, f, u, StartAuth(kex_input_newkeys(s)))
        <5>1. u = After(opt, x, "NEWKEYS")
          BY <2>7
        <5> QED BY <1>1, <1>2, <2>7, <3>2, <5>1, NewkeysFirst
      <4> QED BY <4>2, <4>3, Zenon
    <3> QED BY <3>1, <3>2
  <2> QED BY <2>1, <2>3, <2>4, <2>5, <2>6, <2>7
<1> QED BY <1>9, <1>10

\* A packet that was read before the user is accepted.
LEMMA Hears ==
    ASSUME OptOK(opt), NEW r, NEW f, NEW x, NEW y, Local(opt, r, x, y), Sender(r, f, y), ~r.authed,
           NEW pk, NEW t, t = pk.type, Fits(opt, Other(r), x, pk), t # "USERAUTH_SUCCESS",
           NEW u, u = After(opt, x, t), u \in Position(opt), NEW ok, NEW s, s = ssh_packet_read_poll2(r, pk)
    PROVE  /\ Ready(r, f, x, t, s) /\ Dispatch(r, pk, ok) = Handle(s, pk, ok)
           /\ x.st = "auth" => \E z : Heard(s, f, x, z, t, u)
           /\ s.server = r.server /\ s.authed = r.authed /\ s.wire = r.wire
<1>1. Whole(opt, r, x, y)
  BY DEF Local
<1>2. Unauthed(opt, r, x, y) /\ x \in Position(opt)
  BY <1>1, WholeParts
<1>3. Early(x) /\ ~r.handover
  BY <1>2 DEF Unauthed, Placed
<1>4. u.n = x.n + 1
  BY <1>3 DEF After
<1>5. x.n < Most(opt)
  <2>1. u.n \in 0..Most(opt) /\ x.n \in 0..Most(opt)
    BY <1>2 DEF Position
  <2>2. Most(opt) \in Nat
    BY DEF Most, First, OptOK
  <2> QED BY <1>4, <2>1, <2>2
<1>6. /\ Whole(opt, s, x, y) /\ Apart(r, s) /\ Ready(r, f, x, t, s)
      /\ s.seq["in"] = After(opt, x, t).seq /\ s.comp["in"] = Used(x.comp) /\ s.blocks["in"] <= x.n + 1
  BY <1>5, ReadsUnauthed
<1>7. s.server = r.server /\ s.authed = r.authed /\ s.wire = r.wire /\ s.handover = r.handover
  BY <1>6 DEF Apart, Ready
<1>8. Other(s) = Other(r)
  BY <1>7 DEF Other
<1>9. Dispatch(r, pk, ok) = Handle(s, pk, ok)
  BY <1>3, <1>6, <1>7, <1>8, Reaches
<1>10. ASSUME x.st = "auth" PROVE \E z : Heard(s, f, x, z, t, u)
  <2>1. PICK z : Sender(s, f, z) /\ Whole(opt, s, x, z)
    BY <1>6 DEF Ready
  <2>2. May(opt, Other(s), x, t)
    BY <1>8 DEF Fits
  <2>3. Heard(s, f, x, z, t, u)
    BY <1>4, <1>6, <1>10, <2>1, <2>2, ReadyHeard
  <2> QED BY <2>3
<1> QED BY <1>6, <1>7, <1>9, <1>10

\* ssh_packet_read_poll_seqnr and the handler, for every packet but the ones
\* with which a user is accepted.
LEMMA Dispatched ==
    ASSUME OptOK(opt), NEW r, NEW f, NEW x, NEW y, Local(opt, r, x, y), Sender(r, f, y), ~r.handover,
           NEW pk, NEW t, t = pk.type, Fits(opt, Other(r), x, pk), t # "USERAUTH_SUCCESS",
           NEW u, u = After(opt, x, t), u \in Position(opt),
           NEW ok, t = "USERAUTH_REQUEST" => ok = FALSE /\ u.n < Most(opt)
    PROVE  Arrives(r, f, u, Dispatch(r, pk, ok))
<1> DEFINE s == ssh_packet_read_poll2(r, pk)
<1> HIDE DEF s
<1>1. Ready(r, f, x, t, s) /\ Dispatch(r, pk, ok) = Handle(s, pk, ok)
  <2>1. CASE ~r.authed
    BY <2>1, Hears DEF s
  <2>2. CASE r.authed
    <3>1. Ready(r, f, x, t, s)
      BY <2>2, ReadsAuthed DEF s
    <3>2. PICK z : Sender(s, f, z) /\ Whole(opt, s, x, z)
      BY <3>1 DEF Ready
    <3>3. s.server = r.server /\ ~s.handover
      BY <3>1 DEF Ready
    <3>4. Other(s) = Other(r)
      BY <3>3 DEF Other
    <3>5. s = ssh_packet_read_poll2(r, pk)
      BY DEF s
    <3>6. Dispatch(r, pk, ok) = Handle(s, pk, ok)
      BY <3>2, <3>3, <3>4, <3>5, Reaches
    <3> QED BY <3>1, <3>6
  <2> QED BY <2>1, <2>2
<1>2. Arrives(r, f, u, Handle(s, pk, ok))
  BY <1>1, Handles
<1> QED BY <1>1, <1>2

\* A request of a user who is accepted.
LEMMA DispatchedRequest ==
    ASSUME OptOK(opt), NEW r, NEW f, NEW x, NEW y, Local(opt, r, x, y), Sender(r, f, y), ~r.authed, r.wire = <<>>,
           NEW pk, Fits(opt, Other(r), x, pk), pk.type = "USERAUTH_REQUEST",
           NEW u, u = After(opt, x, pk.type), u \in Position(opt), u.n < Most(opt), NEW ok, ok = TRUE
    PROVE  Accepted(f, u, Dispatch(r, pk, ok))
<1> DEFINE s == ssh_packet_read_poll2(r, pk)
           t == pk.type
<1> HIDE DEF s, t
<1>1. t = pk.type /\ t # "USERAUTH_SUCCESS" /\ u = After(opt, x, t) /\ s = ssh_packet_read_poll2(r, pk)
  BY DEF t, s
<1>2. /\ \A k : Dispatch(r, pk, k) = Handle(s, pk, k)
      /\ s.wire = r.wire
      /\ x.st = "auth" => \E z : Heard(s, f, x, z, t, u)
  <2>1. ASSUME NEW k
        PROVE  /\ Dispatch(r, pk, k) = Handle(s, pk, k) /\ s.wire = r.wire
               /\ x.st = "auth" => \E z : Heard(s, f, x, z, t, u)
    BY <1>1, Hears
  <2> QED BY <2>1
<1>3. x.st = "auth"
  <2>1. May(opt, Other(r), x, t)
    BY <1>1 DEF Fits
  <2> QED BY <1>1, <2>1 DEF May, AppType, Prelude, Method
<1>4. PICK z : Heard(s, f, x, z, t, u)
  BY <1>2, <1>3
<1>5. Heard(s, f, x, z, "USERAUTH_REQUEST", u)
  BY <1>1, <1>4
<1>6. Accepted(f, u, input_userauth_request(s, TRUE))
  BY <1>2, <1>5, ReadsAccepted
<1>7. Handle(s, pk, ok) = input_userauth_request(s, TRUE)
  BY DEF Handle, AppType
<1> QED BY <1>2, <1>6, <1>7

\* An EXT_INFO, to which there is no answer.
LEMMA DispatchedExtInfo ==
    ASSUME OptOK(opt), NEW r, NEW f, NEW x, NEW y, Local(opt, r, x, y), Sender(r, f, y), ~r.authed,
           NEW pk, Fits(opt, Other(r), x, pk), pk.type = "EXT_INFO",
           NEW u, u = After(opt, x, pk.type), u \in Position(opt), NEW ok
    PROVE  Arrives(r, f, u, Dispatch(r, pk, ok)) /\ Dispatch(r, pk, ok).wire = r.wire
<1> DEFINE s == ssh_packet_read_poll2(r, pk)
           t == pk.type
<1> HIDE DEF s, t
<1>1. t = pk.type /\ t # "USERAUTH_SUCCESS" /\ u = After(opt, x, t) /\ s = ssh_packet_read_poll2(r, pk)
  BY DEF t, s
<1>2. /\ Dispatch(r, pk, ok) = Handle(s, pk, ok) /\ s.wire = r.wire /\ s.server = r.server /\ s.authed = r.authed
      /\ x.st = "auth" => \E z : Heard(s, f, x, z, t, u)
  BY <1>1, Hears
<1>3. x.st = "auth"
  <2>1. May(opt, Other(r), x, t)
    BY <1>1 DEF Fits
  <2> QED BY <1>1, <2>1 DEF May, AppType, Prelude, Method
<1>4. PICK z : Heard(s, f, x, z, t, u)
  BY <1>2, <1>3
<1>5. Heard(s, f, x, z, "EXT_INFO", u)
  BY <1>1, <1>4
<1>6. Arrives(s, f, u, kex_input_ext_info(s)) /\ kex_input_ext_info(s).wire = s.wire
  BY <1>5, ReadsExtInfo
<1>7. Handle(s, pk, ok) = kex_input_ext_info(s)
  BY DEF Handle, AppType
<1>8. Arrives(r, f, u, kex_input_ext_info(s))
  BY <1>2, <1>6 DEF Arrives
<1> QED BY <1>2, <1>6, <1>7, <1>8

----------------------------------------------------------------------------
(* Both ends.                                                              *)

\* Nothing changed but what is under way and the timer.
Alike(r, s) ==
    /\ s.server = r.server /\ s.rekeying = r.rekeying /\ s.done = r.done /\ s.flags = r.flags
    /\ s.strict = r.strict /\ s.my = r.my /\ s.peer = r.peer /\ s.authed = r.authed
    /\ s.handover = r.handover /\ s.ext = r.ext /\ s.key = r.key /\ s.newkeys = r.newkeys
    /\ s.seq = r.seq /\ s.blocks = r.blocks /\ s.comp = r.comp
    /\ s.dispatch = r.dispatch /\ s.queue = r.queue /\ s.fault = r.fault

\* Then an end is where it was.
LEMMA AlikeLocal ==
    ASSUME NEW r, NEW x, NEW y, Local(opt, r, x, y), NEW s \in Ssh(opt), Alike(r, s)
    PROVE  Local(opt, s, x, y)
<1>1. /\ Whole(opt, r, x, y) /\ r.seq["in"] = x.seq /\ r.comp["in"] = x.comp
      /\ ~r.authed => r.blocks["in"] <= x.n
  BY DEF Local
<1>2. /\ r.fault = "none" /\ x \in Position(opt) /\ y \in Position(opt) /\ r.key["in"] = Key(x) /\ At(r, "out", y)
      /\ Phase(r, x, y) /\ Steps(opt, r.server, x, y) /\ Derived(r, x) /\ Settled(opt, r, x, y)
      /\ r.authed => Authed(opt, r, x, y)
      /\ ~r.authed => Unauthed(opt, r, x, y)
  BY <1>1, WholeParts
<1>3. At(s, "out", y) /\ Phase(s, x, y) /\ Steps(opt, s.server, x, y) /\ Derived(s, x) /\ Settled(opt, s, x, y)
  BY <1>2 DEF At, Phase, Derived, Settled, Alike
<1>4. Accepts(opt, r, x) => Accepts(opt, s, x)
  BY DEF Accepts, Alike, Other
<1>5. ASSUME r.authed PROVE Authed(opt, s, x, y)
  BY <1>2, <1>4, <1>5 DEF Authed, Post, Alike
<1>6. ASSUME ~r.authed PROVE Unauthed(opt, s, x, y)
  BY <1>2, <1>4, <1>6 DEF Unauthed, Pre, Alike
<1>7. Whole(opt, s, x, y)
  BY <1>2, <1>3, <1>5, <1>6 DEF Whole, Exchange, Alike
<1> QED BY <1>1, <1>7 DEF Local, Alike

\* The rekey interval runs out.
LEMMA Expires ==
    ASSUME NEW r, NEW f, NEW x, NEW y, Local(opt, r, x, y), Sender(r, f, y), NEW s, s = [r EXCEPT !.due = TRUE]
    PROVE  Arrives(r, f, x, s) /\ Grows(r.wire, s.wire)
<1>1. r \in Ssh(opt)
  BY DEF Sender
<1>2. s \in Ssh(opt) /\ Alike(r, s) /\ s.wire = r.wire
  BY <1>1 DEF Alike, Ssh
<1>3. Local(opt, s, x, y)
  BY <1>2, AlikeLocal
<1>4. Sender(s, f, y)
  <2>1. Me(s) = Me(r) /\ At(s, "out", y) /\ Kind(s, f, y)
    BY <1>2 DEF Sender, Alike, Me, At, Kind, Post, Pre
  <2> QED BY <1>2, <2>1 DEF Sender, Alike
<1>5. Grows(r.wire, s.wire)
  <2>1. Len(r.wire) \in Nat
    BY <1>1 DEF Ssh
  <2> QED BY <1>2, <2>1 DEF Grows
<1> QED BY <1>2, <1>3, <1>4, <1>5 DEF Arrives, Alike

\* Its first packet is read by the other end, which goes on after it.
LEMMA Reading ==
    ASSUME NEW q, NEW f, NEW x, NEW y, Local(opt, q, f, y), Sender(q, x, y), q.wire # <<>>, ~q.authed => Early(x),
           NEW pk, pk = Head(q.wire), NEW u, u = After(opt, x, pk.type), NEW s, s = [q EXCEPT !.wire = Tail(q.wire)]
    PROVE  /\ Fits(opt, Me(q), x, pk) /\ u \in Position(opt)
           /\ Sender(s, u, y) /\ Local(opt, s, f, y) /\ Alike(q, s) /\ s.wire = Tail(q.wire)
<1>1. q \in Ssh(opt) /\ q.wire \in Seq(Message(opt)) /\ Path(opt, Me(q), q.wire, x, y) /\ Kind(q, x, y)
  BY DEF Sender, Ssh
<1>2. Fits(opt, Me(q), x, pk) /\ u \in Position(opt) /\ Path(opt, Me(q), Tail(q.wire), u, y)
  BY <1>1, PathTail
<1>3. Tail(q.wire) \in Seq(Message(opt)) /\ Len(Tail(q.wire)) = Len(q.wire) - 1 /\ Len(q.wire) \in Nat
      /\ \A i \in 1..Len(Tail(q.wire)) : Tail(q.wire)[i] = q.wire[i + 1]
  BY <1>1, HeadTailProperties, LenProperties
<1>4. s \in Ssh(opt) /\ Alike(q, s) /\ s.wire = Tail(q.wire)
  BY <1>1, <1>3 DEF Alike, Ssh
<1>5. Local(opt, s, f, y)
  BY <1>4, AlikeLocal
<1>6. Kind(s, u, y)
  <2>1. CASE q.authed
    BY <1>1, <1>4, <2>1 DEF Kind, Post, Alike
  <2>2. CASE ~q.authed
    <3>1. Pre(s, y)
      BY <1>1, <1>4, <2>2 DEF Kind, Pre, Alike
    <3>2. y.n = x.n + Len(q.wire) /\ \A i \in 1..Len(q.wire) : q.wire[i].type # "USERAUTH_SUCCESS"
      BY <1>1, <2>2 DEF Kind, Counted
    <3>3. Len(q.wire) >= 1 /\ pk = q.wire[1]
      BY <1>1, <1>3, LenProperties, HeadTailProperties
    <3>4. u.n = x.n + 1
      BY <2>2, <3>2, <3>3, <1>3 DEF After
    <3>5. x \in Position(opt)
      BY <1>1, <1>3, PathEnds
    <3>6. x.n \in Int
      BY <3>5 DEF Position
    <3>7. y.n = u.n + Len(s.wire)
      BY <1>3, <1>4, <3>2, <3>4, <3>6
    <3>8. \A i \in 1..Len(s.wire) : s.wire[i].type # "USERAUTH_SUCCESS"
      <4> SUFFICES ASSUME NEW i \in 1..Len(s.wire) PROVE s.wire[i].type # "USERAUTH_SUCCESS"
        OBVIOUS
      <4>1. i + 1 \in 1..Len(q.wire) /\ s.wire[i] = q.wire[i + 1]
        BY <1>3, <1>4
      <4>2. q.wire[i + 1].type # "USERAUTH_SUCCESS"
        BY <3>2, <4>1
      <4> QED BY <4>1, <4>2
    <3> QED BY <1>4, <2>2, <3>1, <3>7, <3>8 DEF Kind, Counted, Alike
  <2> QED BY <2>1, <2>2
<1>7. Sender(s, u, y)
  <2>1. Me(s) = Me(q) /\ At(s, "out", y) /\ s.fault = "none"
    BY <1>4 DEF Sender, Alike, Me, At
  <2> QED BY <1>2, <1>4, <1>6, <2>1 DEF Sender
<1> QED BY <1>2, <1>4, <1>5, <1>7

\* Two ends that are both before, or both after, the user's being accepted:
\* each has read up to where what the other wrote begins.
Joined(r, q, x, y, u, v) ==
    /\ Local(opt, r, x, y) /\ Sender(r, u, y)
    /\ Local(opt, q, u, v) /\ Sender(q, x, v)
    /\ r.server # q.server /\ r.authed = q.authed

\* Between the two: the client waits for the answer, and will go on where the
\* server reads on already.
Awaiting(c, s, xc, yc, xs, ys) ==
    /\ Local(opt, c, xc, yc) /\ c.wire = <<>> /\ ~c.authed /\ ~c.server
    /\ Local(opt, s, xs, ys) /\ Sender(s, xc, ys) /\ s.authed /\ s.server
    /\ xs = Opened(opt, yc) /\ Accepting(s.wire)

\* An end does something of its own.
LEMMA JoinedStep ==
    ASSUME NEW r, NEW q, NEW x, NEW y, NEW u, NEW v, Joined(r, q, x, y, u, v), NEW s, Arrives(r, u, x, s)
    PROVE  \E z : Joined(s, q, x, z, u, v)
<1>1. PICK z : Sender(s, u, z) /\ Local(opt, s, x, z)
  BY DEF Arrives
<1>2. s.server = r.server /\ s.authed = r.authed
  BY DEF Arrives
<1>3. Joined(s, q, x, z, u, v)
  BY <1>1, <1>2 DEF Joined
<1> QED BY <1>3

\* Joined says the same of either end.
LEMMA JoinedTurned ==
    ASSUME NEW r, NEW q, NEW x, NEW y, NEW u, NEW v
    PROVE  Joined(r, q, x, y, u, v) <=> Joined(q, r, u, v, x, y)
BY DEF Joined

\* However r goes on at w, it and p are joined again.
Resumes(r, p, w, u, v) == \A s : Arrives(r, u, w, s) => \E z : Joined(s, p, w, z, u, v)

\* The end whose packets are read goes on with fewer of them.
LEMMA JoinedReads ==
    ASSUME NEW r, NEW q, NEW x, NEW y, NEW u, NEW v, Joined(r, q, x, y, u, v), q.wire # <<>>,
           NEW pk, pk = Head(q.wire), NEW w, w = After(opt, x, pk.type), NEW p, p = [q EXCEPT !.wire = Tail(q.wire)]
    PROVE  /\ Fits(opt, Other(r), x, pk) /\ w \in Position(opt)
           /\ Sender(p, w, v) /\ Local(opt, p, u, v) /\ Alike(q, p) /\ p.wire = Tail(q.wire)
           /\ Resumes(r, p, w, u, v)
<1>1. Local(opt, r, x, y) /\ Local(opt, q, u, v) /\ Sender(q, x, v) /\ r.server # q.server /\ r.authed = q.authed
  BY DEF Joined
<1>2. ~q.authed => Early(x)
  <2>1. ~r.authed => Unauthed(opt, r, x, y)
    BY <1>1, WholeParts DEF Local
  <2> QED BY <1>1, <2>1 DEF Unauthed, Placed
<1>3. Me(q) = Other(r)
  <2>1. r.server \in BOOLEAN /\ q.server \in BOOLEAN
    BY <1>1, WholeParts DEF Local, Ssh
  <2> QED BY <1>1, <2>1 DEF Me, Other
<1>4. /\ Fits(opt, Me(q), x, pk) /\ w \in Position(opt)
      /\ Sender(p, w, v) /\ Local(opt, p, u, v) /\ Alike(q, p) /\ p.wire = Tail(q.wire)
  BY <1>1, <1>2, Reading
<1>5. ASSUME NEW s, Arrives(r, u, w, s) PROVE \E z : Joined(s, p, w, z, u, v)
  <2>1. PICK z : Sender(s, u, z) /\ Local(opt, s, w, z)
    BY <1>5 DEF Arrives
  <2>2. s.server = r.server /\ s.authed = r.authed /\ p.server = q.server /\ p.authed = q.authed
    BY <1>4, <1>5 DEF Arrives, Alike
  <2>3. Joined(s, p, w, z, u, v)
    BY <1>1, <1>4, <2>1, <2>2 DEF Joined
  <2> QED BY <2>3
<1> QED BY <1>3, <1>4, <1>5 DEF Resumes

\* The answer that is awaited stays the next that is read.
LEMMA AcceptingGrows ==
    ASSUME NEW v, NEW w, Len(v) \in Nat, Len(w) \in Nat, Accepting(v), Grows(v, w)
    PROVE  Accepting(w)
<1>1. PICK i \in {1, 2} : i <= Len(v) /\ v[i].type = "USERAUTH_SUCCESS" /\ (i = 2 => v[1].type = "EXT_INFO")
  BY DEF Accepting
<1>2. i <= Len(w) /\ w[i] = v[i] /\ (i = 2 => w[1] = v[1])
  BY <1>1 DEF Grows
<1> QED BY <1>1, <1>2 DEF Accepting

\* The server does something of its own before the client knows.
LEMMA AwaitingStep ==
    ASSUME NEW c, NEW r, NEW xc, NEW yc, NEW xs, NEW ys, Awaiting(c, r, xc, yc, xs, ys),
           NEW s, Arrives(r, xc, xs, s), Grows(r.wire, s.wire)
    PROVE  \E z : Awaiting(c, s, xc, yc, xs, z)
<1>1. PICK z : Sender(s, xc, z) /\ Local(opt, s, xs, z)
  BY DEF Arrives
<1>2. s.server = r.server /\ s.authed = r.authed
  BY DEF Arrives
<1>3. Len(r.wire) \in Nat /\ Len(s.wire) \in Nat
  BY <1>1 DEF Awaiting, Sender, Ssh
<1>4. Accepting(s.wire)
  BY <1>3, AcceptingGrows DEF Awaiting
<1>5. Awaiting(c, s, xc, yc, xs, z)
  BY <1>1, <1>2, <1>4 DEF Awaiting
<1> QED BY <1>5

\* How often a user has been refused follows from what the server has read.
Tried(n, x) ==
    n \in 0..opt.tries /\ n = IF x.n > First(opt) + 1 THEN x.n - First(opt) - 2 ELSE 0

\* The invariant of a connection of which n requests were refused.
Both(c, s, n) ==
    /\ ~c.server
    /\ \E xc, yc, xs, ys :
         \/ Joined(c, s, xc, yc, xs, ys) /\ (~s.authed => Tried(n, xs))
         \/ Awaiting(c, s, xc, yc, xs, ys)

\* What the client reads, once it knows as much as the server.
LEMMA ClientReads ==
    ASSUME OptOK(opt), NEW c, NEW s, NEW xc, NEW yc, NEW xs, NEW ys, Joined(c, s, xc, yc, xs, ys), ~c.server, ~c.handover,
           s.wire # <<>>, NEW pk, pk = Head(s.wire), NEW p, p = [s EXCEPT !.wire = Tail(s.wire)], NEW ok
    PROVE  \E w, z : Joined(Dispatch(c, pk, ok), p, w, z, xs, ys)
<1> DEFINE t == pk.type
           w == After(opt, xc, t)
<1> HIDE DEF t, w
<1>1. t = pk.type /\ w = After(opt, xc, t) /\ w = After(opt, xc, pk.type)
  BY DEF t, w
<1>2. /\ Fits(opt, Other(c), xc, pk) /\ w \in Position(opt)
      /\ Resumes(c, p, w, xs, ys)
  BY <1>1, JoinedReads
<1>3. Local(opt, c, xc, yc) /\ Sender(c, xs, yc) /\ Sender(s, xc, ys) /\ c.authed = s.authed
  BY DEF Joined
<1>4. May(opt, "server", xc, t)
  BY <1>1, <1>2 DEF Fits, Other
<1>5. t # "USERAUTH_REQUEST"
  BY <1>4 DEF May, Dialogue, AppType, Prelude, Method
<1>6. t # "USERAUTH_SUCCESS"
  <2>1. CASE c.authed
    <3>1. Authed(opt, c, xc, yc)
      BY <1>3, <2>1, WholeParts DEF Local
    <3>2. xc.st # "auth"
      BY <3>1 DEF Authed
    <3> QED BY <1>4, <3>2 DEF May, AppType, Prelude, Method
  <2>2. CASE ~c.authed
    <3>1. \A i \in 1..Len(s.wire) : s.wire[i].type # "USERAUTH_SUCCESS"
      BY <1>3, <2>2 DEF Sender, Kind, Counted
    <3>2. s.wire \in Seq(Message(opt))
      BY <1>3 DEF Sender, Ssh
    <3>3. Len(s.wire) >= 1 /\ pk = s.wire[1] /\ Len(s.wire) \in Nat
      BY <3>2, LenProperties, HeadTailProperties
    <3> QED BY <1>1, <3>1, <3>3
  <2> QED BY <2>1, <2>2
<1>7. Arrives(c, xs, w, Dispatch(c, pk, ok))
  BY <1>1, <1>2, <1>3, <1>5, <1>6, Dispatched
<1> QED BY <1>2, <1>7 DEF Resumes

\* What the client reads before it knows that the user was accepted.
LEMMA ClientHears ==
    ASSUME OptOK(opt), NEW c, NEW s, NEW xc, NEW yc, NEW xs, NEW ys, Awaiting(c, s, xc, yc, xs, ys),
           s.wire # <<>>, NEW pk, pk = Head(s.wire), NEW p, p = [s EXCEPT !.wire = Tail(s.wire)], NEW ok,
           NEW d, d = Dispatch(c, pk, ok)
    PROVE  /\ ~d.server
           /\ (p.authed /\ \E w, z : Joined(d, p, w, z, xs, ys)) \/ \E w : Awaiting(d, p, w, yc, xs, ys)
<1> DEFINE t == pk.type
           w == After(opt, xc, t)
<1> HIDE DEF t, w
<1>1. t = pk.type /\ w = After(opt, xc, t) /\ w = After(opt, xc, pk.type)
  BY DEF t, w
<1>2. /\ Local(opt, c, xc, yc) /\ c.wire = <<>> /\ ~c.authed /\ ~c.server
      /\ Local(opt, s, xs, ys) /\ Sender(s, xc, ys) /\ s.authed /\ s.server
      /\ xs = Opened(opt, yc) /\ Accepting(s.wire)
  BY DEF Awaiting
<1>3. /\ Fits(opt, Me(s), xc, pk) /\ w \in Position(opt)
      /\ Sender(p, w, ys) /\ Local(opt, p, xs, ys) /\ Alike(s, p) /\ p.wire = Tail(s.wire)
  BY <1>1, <1>2, Reading
<1>4. Fits(opt, Other(c), xc, pk) /\ p.server /\ p.authed
  BY <1>2, <1>3 DEF Me, Other, Alike
<1>5. s.wire \in Seq(Message(opt))
  BY <1>2 DEF Sender, Ssh
<1>6. Len(s.wire) >= 1 /\ pk = s.wire[1] /\ Len(s.wire) \in Nat
  BY <1>5, LenProperties, HeadTailProperties
<1>7. PICK i \in {1, 2} : i <= Len(s.wire) /\ s.wire[i].type = "USERAUTH_SUCCESS" /\ (i = 2 => s.wire[1].type = "EXT_INFO")
  BY <1>2 DEF Accepting
<1>8. CASE i = 1
  <2>1. pk.type = "USERAUTH_SUCCESS"
    BY <1>6, <1>7, <1>8
  <2>2. Entered(yc, w, d)
    BY <1>1, <1>2, <1>3, <1>4, <2>1, ReadsSuccess
  <2>3. PICK z : Sender(d, Opened(opt, yc), z) /\ Local(opt, d, w, z)
    BY <2>2 DEF Entered
  <2>4. ~d.server /\ d.authed
    BY <2>2 DEF Entered
  <2>5. d.authed \in BOOLEAN /\ p.authed \in BOOLEAN
    BY <1>3, <2>3 DEF Sender, Ssh
  <2>6. Joined(d, p, w, z, xs, ys)
    BY <1>2, <1>3, <1>4, <2>3, <2>4, <2>5 DEF Joined
  <2> QED BY <1>4, <2>4, <2>6
<1>9. CASE i = 2
  <2>1. pk.type = "EXT_INFO"
    BY <1>6, <1>7, <1>9
  <2>2. Sender(c, yc, yc)
    <3>1. Whole(opt, c, xc, yc)
      BY <1>2 DEF Local
    <3>2. c \in Ssh(opt) /\ c.fault = "none" /\ yc \in Position(opt) /\ At(c, "out", yc) /\ Unauthed(opt, c, xc, yc)
      BY <1>2, <3>1, WholeParts
    <3>3. Path(opt, Me(c), c.wire, yc, yc)
      BY <1>2, <3>2, PathEmpty
    <3>4. Counted(c.wire, yc, yc)
      <4>1. yc.n \in Int
        BY <3>2 DEF Position
      <4>2. Len(c.wire) = 0
        BY <1>2
      <4> QED BY <4>1, <4>2 DEF Counted
    <3>5. Kind(c, yc, yc)
      BY <1>2, <3>2, <3>4 DEF Kind, Unauthed
    <3> QED BY <3>2, <3>3, <3>5 DEF Sender
  <2>3. Arrives(c, yc, w, d) /\ d.wire = c.wire
    BY <1>1, <1>2, <1>3, <1>4, <2>1, <2>2, DispatchedExtInfo
  <2>4. PICK z : Sender(d, yc, z) /\ Local(opt, d, w, z)
    BY <2>3 DEF Arrives
  <2>5. z = yc
    <3>1. Path(opt, Me(d), <<>>, yc, z)
      BY <1>2, <2>3, <2>4 DEF Sender
    <3> QED BY <3>1, PathEmpty
  <2>6. ~d.server /\ ~d.authed /\ d.wire = <<>>
    BY <1>2, <2>3 DEF Arrives
  <2>7. Accepting(p.wire)
    <3>1. /\ Len(Tail(s.wire)) = Len(s.wire) - 1
          /\ \A j \in 1..Len(Tail(s.wire)) : Tail(s.wire)[j] = s.wire[j + 1]
      BY <1>5, HeadTailProperties
    <3>2. 1 <= Len(p.wire) /\ p.wire[1] = s.wire[2]
      BY <1>3, <1>6, <1>7, <1>9, <3>1
    <3> QED BY <1>7, <1>9, <3>2 DEF Accepting
  <2>8. Awaiting(d, p, w, yc, xs, ys)
    BY <1>2, <1>3, <1>4, <2>4, <2>5, <2>6, <2>7 DEF Awaiting
  <2> QED BY <2>6, <2>8
<1> QED BY <1>8, <1>9

\* What the server has read and written (a and b), what the client has (d and
\* e), and how much of either is under way, once the first request has come.
Accounts(f, a, b, d, e, v, w) ==
    /\ {f, a, b, d, e, v, w} \subseteq Nat
    /\ b = d + v /\ e = a + w /\ a >= f + 2 /\ w >= 1
    /\ a = f + 2 => b = a
    /\ a # f + 2 => b = a + 1
    /\ d < f + 2 => e <= f + 2
    /\ d = f + 2 => e = d + 1
    /\ d > f + 2 => e = d

\* Whoever answers a request has nothing under way: by what either end has
\* written, all before it has been read.
LEMMA RequestAlone ==
    ASSUME NEW f, NEW a, NEW b, NEW d, NEW e, NEW v, NEW w, Accounts(f, a, b, d, e, v, w)
    PROVE  v = 0 /\ w = 1
<1>1. f \in Nat /\ a \in Nat /\ b \in Nat /\ d \in Nat /\ e \in Nat /\ v \in Nat /\ w \in Nat
  BY DEF Accounts
<1>2. d >= f + 2
  BY <1>1 DEF Accounts
<1>3. CASE d = f + 2
  BY <1>1, <1>3 DEF Accounts
<1>4. CASE d > f + 2
  BY <1>1, <1>4 DEF Accounts
<1> QED BY <1>1, <1>2, <1>3, <1>4

\* A request comes when all before it has been answered, and attempts are left
\* for it.
LEMMA Requested ==
    ASSUME OptOK(opt), NEW c, NEW s, NEW xc, NEW yc, NEW xs, NEW ys, Joined(s, c, xs, ys, xc, yc), s.server,
           c.wire # <<>>, Head(c.wire).type = "USERAUTH_REQUEST", ~s.authed => \E n : Tried(n, xs)
    PROVE  /\ ~s.authed /\ s.wire = <<>> /\ Tail(c.wire) = <<>>
           /\ xs.n \in Nat /\ xs.n >= First(opt) + 2 /\ xs.n + 1 < Most(opt)
<1> DEFINE pk == Head(c.wire)
           p == [c EXCEPT !.wire = Tail(c.wire)]
           w == After(opt, xs, pk.type)
<1>1. Fits(opt, Other(s), xs, pk)
  <2>1. pk = Head(c.wire) /\ p = [c EXCEPT !.wire = Tail(c.wire)] /\ w = After(opt, xs, pk.type)
    OBVIOUS
  <2> HIDE DEF pk, p, w
  <2> QED BY <2>1, JoinedReads
<1>2. May(opt, "client", xs, "USERAUTH_REQUEST")
  BY <1>1 DEF Fits, Other
<1>3. xs.st = "auth" /\ Dialogue("client", xs.n - First(opt), "USERAUTH_REQUEST")
  BY <1>2 DEF May, AppType, Prelude, Method
<1>4. xs.n - First(opt) > 1
  BY <1>3 DEF Dialogue
<1>5. /\ Local(opt, s, xs, ys) /\ Sender(s, xc, ys) /\ Local(opt, c, xc, yc) /\ Sender(c, xs, yc)
      /\ s.server # c.server /\ s.authed = c.authed
  BY DEF Joined
<1>6. ~s.authed
  <2>1. s.authed => Authed(opt, s, xs, ys)
    BY <1>5, WholeParts DEF Local
  <2> QED BY <1>3, <2>1 DEF Authed
<1>7. Unauthed(opt, s, xs, ys) /\ Unauthed(opt, c, xc, yc)
  BY <1>5, <1>6, WholeParts DEF Local
<1>8. xs \in Position(opt) /\ ys \in Position(opt) /\ xc \in Position(opt) /\ yc \in Position(opt)
  BY <1>5, WholeParts DEF Local
<1>9. xs.n \in Nat /\ ys.n \in Nat /\ xc.n \in Nat /\ yc.n \in Nat
  <2>1. Most(opt) \in Nat
    BY DEF Most, First, OptOK
  <2> QED BY <1>8, <2>1 DEF Position
<1>10. ys.n = Written(opt, TRUE, xs.n) /\ yc.n = Written(opt, FALSE, xc.n)
  <2>1. s.server = TRUE /\ c.server = FALSE
    <3>1. s.server \in BOOLEAN /\ c.server \in BOOLEAN
      BY <1>5 DEF Sender, Ssh
    <3> QED BY <1>5, <3>1
  <2>2. ys.n = Written(opt, s.server, xs.n) /\ yc.n = Written(opt, c.server, xc.n)
    BY <1>7 DEF Unauthed
  <2> QED BY <2>1, <2>2
<1>11. ys.n = xc.n + Len(s.wire) /\ yc.n = xs.n + Len(c.wire)
  BY <1>5, <1>6 DEF Sender, Kind, Counted
<1>12. s.wire \in Seq(Message(opt)) /\ c.wire \in Seq(Message(opt))
  BY <1>5 DEF Sender, Ssh
<1>13. Len(s.wire) \in Nat /\ Len(c.wire) \in Nat /\ Len(c.wire) >= 1
  BY <1>12, LenProperties, EmptySeq
<1>14. First(opt) \in Nat /\ xs.n >= First(opt) + 2
  <2>1. First(opt) \in Nat
    BY DEF First
  <2> QED BY <1>4, <1>9, <2>1
<1>15. Len(s.wire) = 0 /\ Len(c.wire) = 1
  <2> DEFINE f == First(opt)
             a == xs.n
             b == ys.n
             d == xc.n
             e == yc.n
  <2>1. f \in {3, 4}
    BY DEF First
  <2>2. b = IF a < f + 2 THEN b ELSE IF a = f + 2 THEN a ELSE a + 1
    BY <1>9, <1>10, <2>1 DEF Written
  <2>3. e = IF d < f - 1 THEN d + 1
            ELSE IF d < f THEN f + 1
            ELSE IF d < f + 2 THEN f + 2
            ELSE IF d = f + 2 THEN d + 1 ELSE d
    BY <1>10 DEF Written
  <2>4. /\ {a, b, d, e} \subseteq Nat /\ b = d + Len(s.wire) /\ e = a + Len(c.wire) /\ a >= f + 2
    BY <1>9, <1>11, <1>14
  <2> HIDE DEF f, a, b, d, e
  <2>5. /\ a = f + 2 => b = a
        /\ a # f + 2 => b = a + 1
    BY ONLY <2>1, <2>2, <2>4
  <2>6. /\ d < f + 2 => e <= f + 2
        /\ d = f + 2 => e = d + 1
        /\ d > f + 2 => e = d
    BY ONLY <2>1, <2>3, <2>4
  <2>7. Accounts(f, a, b, d, e, Len(s.wire), Len(c.wire))
    BY <1>13, <2>1, <2>4, <2>5, <2>6 DEF Accounts
  <2> QED BY <2>7, RequestAlone
<1>16. s.wire = <<>> /\ Tail(c.wire) = <<>>
  <2>1. Tail(c.wire) \in Seq(Message(opt)) /\ Len(Tail(c.wire)) = 0
    BY <1>12, <1>15, HeadTailProperties
  <2> QED BY <1>12, <1>15, <2>1, EmptySeq
<1>17. xs.n + 1 < Most(opt)
  <2>1. PICK n : Tried(n, xs)
    BY <1>6
  <2>2. n \in 0..opt.tries /\ n = xs.n - First(opt) - 2
    BY <1>9, <1>14, <2>1 DEF Tried
  <2>3. opt.tries \in Nat /\ Most(opt) = First(opt) + opt.tries + 5
    BY DEF Most, OptOK
  <2> QED BY <1>9, <1>14, <2>2, <2>3
<1> QED BY <1>6, <1>9, <1>14, <1>16, <1>17

\* The answer to pk, if it asks for one: n requests were refused before it, and
\* k after it.
Answer(pk, ok, n, k) ==
    /\ ok \in BOOLEAN /\ (~ok => pk.type = "USERAUTH_REQUEST" /\ n < opt.tries)
    /\ k = IF ok THEN n ELSE n + 1
Admits(pk, ok) == pk.type = "USERAUTH_REQUEST" /\ ok

\* The client p and the server d are joined, k requests having been refused.
Served(d, p, k, xc, yc) == \E w, z : Joined(d, p, w, z, xc, yc) /\ (~d.authed => Tried(k, w))

\* What the server reads of a client that it has not just accepted.
LEMMA ServerReads ==
    ASSUME OptOK(opt), NEW c, NEW s, NEW xc, NEW yc, NEW xs, NEW ys, Joined(s, c, xs, ys, xc, yc), s.server, ~s.handover,
           c.wire # <<>>, NEW pk, pk = Head(c.wire), NEW p, p = [c EXCEPT !.wire = Tail(c.wire)],
           NEW n, ~s.authed => Tried(n, xs), NEW ok, NEW k, Answer(pk, ok, n, k), ~Admits(pk, ok),
           NEW d, d = Dispatch(s, pk, ok)
    PROVE  Served(d, p, k, xc, yc)
<1> DEFINE t == pk.type
           w == After(opt, xs, t)
<1> HIDE DEF t, w
<1>0. /\ ok \in BOOLEAN /\ (pk.type = "USERAUTH_REQUEST" => ~ok)
      /\ ~ok => pk.type = "USERAUTH_REQUEST" /\ n < opt.tries
      /\ k = IF ok THEN n ELSE n + 1
  BY DEF Answer, Admits
<1>1. t = pk.type /\ w = After(opt, xs, t) /\ w = After(opt, xs, pk.type)
  BY DEF t, w
<1>2. Fits(opt, Other(s), xs, pk) /\ w \in Position(opt) /\ Resumes(s, p, w, xc, yc)
  BY <1>1, JoinedReads
<1>3. Local(opt, s, xs, ys) /\ Sender(s, xc, ys)
  BY DEF Joined
<1>4. May(opt, "client", xs, t)
  BY <1>1, <1>2 DEF Fits, Other
<1>5. t # "USERAUTH_SUCCESS"
  BY <1>4 DEF May, Dialogue, AppType, Prelude, Method
<1>6. ~s.authed => Unauthed(opt, s, xs, ys) /\ xs \in Position(opt)
  BY <1>3, WholeParts DEF Local
<1>7. ~s.authed => w.n = xs.n + 1
  <2>1. ~s.authed => Early(xs)
    BY <1>6 DEF Unauthed, Placed
  <2>2. Early(xs) => w.n = xs.n + 1
    BY <1>1, <1>5 DEF After
  <2> QED BY <2>1, <2>2
<1>8. t = "USERAUTH_REQUEST" => ~s.authed /\ xs.n \in Nat /\ xs.n >= First(opt) + 2 /\ xs.n + 1 < Most(opt)
  <2>1. ~s.authed => \E m : Tried(m, xs)
    OBVIOUS
  <2> QED BY <1>1, <2>1, Requested
<1>9. Arrives(s, xc, w, d)
  <2>1. t = "USERAUTH_REQUEST" => ok = FALSE /\ w.n < Most(opt)
    BY <1>0, <1>1, <1>7, <1>8
  <2> QED BY <1>1, <1>2, <1>3, <1>5, <2>1, Dispatched
<1>10. PICK z : Joined(d, p, w, z, xc, yc)
  BY <1>2, <1>9 DEF Resumes
<1>11. d.authed = s.authed
  BY <1>9 DEF Arrives
<1>12. ASSUME ~s.authed PROVE Tried(k, w)
  <2>1. First(opt) \in {3, 4} /\ xs.n \in Nat /\ opt.tries \in Nat
    <3>1. opt.tries \in Nat /\ First(opt) \in {3, 4} /\ Most(opt) \in Nat
      BY DEF OptOK, First, Most
    <3> QED BY <1>6, <1>12, <3>1 DEF Position
  <2>2. n \in 0..opt.tries /\ n = IF xs.n > First(opt) + 1 THEN xs.n - First(opt) - 2 ELSE 0
    BY <1>12 DEF Tried
  <2>3. w.n = xs.n + 1
    BY <1>7, <1>12
  <2>4. CASE ok
    <3>1. t # "USERAUTH_REQUEST"
      BY <1>0, <1>1, <2>4
    <3>2. xs.n <= First(opt) + 1
      <4>1. Placed(opt, xs)
        BY <1>6, <1>12 DEF Unauthed
      <4>2. CASE xs.st = "auth"
        <5>1. Dialogue("client", xs.n - First(opt), t)
          BY <1>4, <4>2 DEF May, Eve
        <5>2. ~(xs.n - First(opt) > 1)
          BY <3>1, <5>1 DEF Dialogue
        <5> QED BY <2>1, <5>2
      <4>3. CASE xs.st # "auth"
        <5>1. xs.st \in {"start", "kexinit", "gex", "method"}
          <6>1. xs.st \in Stages /\ xs.st # "open"
            <7>1. Steps(opt, s.server, xs, ys) /\ xs \in Position(opt)
              BY <1>3, WholeParts DEF Local
            <7>2. xs.st = "open" => xs.k # 0
              BY <7>1 DEF Steps
            <7>3. Early(xs)
              BY <4>1 DEF Placed
            <7> QED BY <7>1, <7>2, <7>3 DEF Early, Position
          <6> QED BY <4>3, <6>1 DEF Stages, Busy
        <5> QED BY <2>1, <4>1, <5>1 DEF Placed
      <4> QED BY <4>2, <4>3
    <3>3. n = 0 /\ n = IF w.n > First(opt) + 1 THEN w.n - First(opt) - 2 ELSE 0
      BY <2>1, <2>2, <2>3, <3>2
    <3> QED BY <1>0, <2>2, <2>4, <3>3 DEF Tried
  <2>5. CASE ~ok
    <3>1. n < opt.tries /\ xs.n >= First(opt) + 2
      BY <1>0, <1>1, <1>8, <2>5
    <3>2. n + 1 \in 0..opt.tries /\ n + 1 = IF w.n > First(opt) + 1 THEN w.n - First(opt) - 2 ELSE 0
      BY <2>1, <2>2, <2>3, <3>1
    <3> QED BY <1>0, <2>5, <3>2 DEF Tried
  <2> QED BY <2>4, <2>5
<1> QED BY <1>10, <1>11, <1>12 DEF Served

\* The server accepts a user.
LEMMA ServerAccepts ==
    ASSUME OptOK(opt), NEW c, NEW s, NEW xc, NEW yc, NEW xs, NEW ys, Joined(s, c, xs, ys, xc, yc), s.server,
           c.wire # <<>>, NEW pk, pk = Head(c.wire), NEW p, p = [c EXCEPT !.wire = Tail(c.wire)],
           NEW n, ~s.authed => Tried(n, xs), pk.type = "USERAUTH_REQUEST", NEW ok, ok = TRUE, NEW d, d = Dispatch(s, pk, ok)
    PROVE  \E x, z : Awaiting(p, d, xc, yc, x, z)
<1> DEFINE w == After(opt, xs, pk.type)
<1> HIDE DEF w
<1>1. w = After(opt, xs, pk.type)
  BY DEF w
<1>2. /\ Fits(opt, Other(s), xs, pk) /\ w \in Position(opt)
      /\ Sender(p, w, yc) /\ Local(opt, p, xc, yc) /\ Alike(c, p) /\ p.wire = Tail(c.wire)
  BY <1>1, JoinedReads
<1>3. /\ Local(opt, s, xs, ys) /\ Sender(s, xc, ys) /\ s.server # c.server /\ s.authed = c.authed /\ Local(opt, c, xc, yc)
  BY DEF Joined
<1>4. /\ ~s.authed /\ s.wire = <<>> /\ Tail(c.wire) = <<>>
      /\ xs.n \in Nat /\ xs.n + 1 < Most(opt)
  <2>1. ~s.authed => \E m : Tried(m, xs)
    OBVIOUS
  <2> QED BY <2>1, Requested
<1>5. Unauthed(opt, s, xs, ys)
  BY <1>3, <1>4, WholeParts DEF Local
<1>6. w.n = xs.n + 1
  BY <1>1, <1>5 DEF After, Unauthed, Placed
<1>7. Accepted(xc, w, d)
  BY <1>1, <1>2, <1>3, <1>4, <1>6, DispatchedRequest
<1>8. PICK z : Sender(d, xc, z) /\ Local(opt, d, Opened(opt, w), z)
  BY <1>7 DEF Accepted
<1>9. d.server /\ d.authed /\ Accepting(d.wire)
  BY <1>7 DEF Accepted
<1>10. w = yc
  <2>1. Path(opt, Me(p), <<>>, w, yc)
    BY <1>2, <1>4 DEF Sender
  <2> QED BY <2>1, PathEmpty
<1>11. ~p.server /\ ~p.authed /\ p.wire = <<>>
  <2>1. s.server \in BOOLEAN /\ c.server \in BOOLEAN
    BY <1>3, WholeParts DEF Local, Ssh
  <2> QED BY <1>2, <1>3, <1>4, <2>1 DEF Alike
<1>12. Awaiting(p, d, xc, yc, Opened(opt, yc), z)
  BY <1>2, <1>8, <1>9, <1>10, <1>11 DEF Awaiting
<1> QED BY <1>12

----------------------------------------------------------------------------
(* The steps.                                                              *)

\* What holds of the ends wherever they are.
LEMMA BothFacts ==
    ASSUME NEW c, NEW s, NEW n, Both(c, s, n)
    PROVE  /\ c \in Ssh(opt) /\ c.fault = "none" /\ ~c.server /\ ("DATA" \in c.dispatch => c.authed)
           /\ s \in Ssh(opt) /\ s.fault = "none" /\ s.server /\ ("DATA" \in s.dispatch => s.authed)
           /\ s.handover => s.authed
           /\ c.authed => s.authed
<1>1. PICK xc, yc, xs, ys :
        \/ Joined(c, s, xc, yc, xs, ys) /\ (~s.authed => Tried(n, xs))
        \/ Awaiting(c, s, xc, yc, xs, ys)
  BY DEF Both
<1>2. Local(opt, c, xc, yc) /\ Local(opt, s, xs, ys)
  BY <1>1 DEF Joined, Awaiting
<1>3. /\ c \in Ssh(opt) /\ c.fault = "none" /\ (~c.authed => Unauthed(opt, c, xc, yc))
      /\ s \in Ssh(opt) /\ s.fault = "none" /\ (~s.authed => Unauthed(opt, s, xs, ys))
  BY <1>2, WholeParts DEF Local
<1>4. ~c.server
  BY DEF Both
<1>5. s.server /\ (c.authed => s.authed)
  <2>1. s.server \in BOOLEAN /\ c.server \in BOOLEAN
    BY <1>3 DEF Ssh
  <2> QED BY <1>1, <1>4, <2>1 DEF Joined, Awaiting
<1>6. "DATA" \in c.dispatch => c.authed
  BY <1>3 DEF Unauthed
<1>7. ("DATA" \in s.dispatch => s.authed) /\ (s.handover => s.authed)
  BY <1>3 DEF Unauthed
<1> QED BY <1>3, <1>4, <1>5, <1>6, <1>7

\* r does something of its own and becomes s, wherever it is.
Moves(r, s) ==
    \A f, x, y : Local(opt, r, x, y) /\ Sender(r, f, y) => Arrives(r, f, x, s) /\ Grows(r.wire, s.wire)

\* Such a step of the client.
LEMMA ClientMoves ==
    ASSUME NEW c, NEW s, NEW n, Both(c, s, n), c.authed, NEW d, Moves(c, d)
    PROVE  Both(d, s, n)
<1>1. PICK xc, yc, xs, ys :
        \/ Joined(c, s, xc, yc, xs, ys) /\ (~s.authed => Tried(n, xs))
        \/ Awaiting(c, s, xc, yc, xs, ys)
  BY DEF Both
<1>2. Joined(c, s, xc, yc, xs, ys) /\ (~s.authed => Tried(n, xs))
  BY <1>1 DEF Awaiting
<1>3. Arrives(c, xs, xc, d)
  BY <1>2 DEF Joined, Moves
<1>4. PICK z : Joined(d, s, xc, z, xs, ys)
  BY <1>2, <1>3, JoinedStep
<1>5. ~d.server
  BY <1>3 DEF Arrives, Both
<1> QED BY <1>2, <1>4, <1>5 DEF Both

\* Such a step of the server.
LEMMA ServerMoves ==
    ASSUME NEW c, NEW s, NEW n, Both(c, s, n), s.authed, NEW d, Moves(s, d)
    PROVE  Both(c, d, n)
<1>1. PICK xc, yc, xs, ys :
        \/ Joined(c, s, xc, yc, xs, ys) /\ (~s.authed => Tried(n, xs))
        \/ Awaiting(c, s, xc, yc, xs, ys)
  BY DEF Both
<1>2. Local(opt, s, xs, ys) /\ Sender(s, xc, ys)
  BY <1>1 DEF Joined, Awaiting
<1>3. Arrives(s, xc, xs, d) /\ Grows(s.wire, d.wire)
  BY <1>2 DEF Moves
<1>4. d.authed /\ ~c.server
  BY <1>3 DEF Arrives, Both
<1>5. CASE Joined(c, s, xc, yc, xs, ys)
  <2>1. Joined(s, c, xs, ys, xc, yc)
    BY <1>5, JoinedTurned
  <2>2. PICK z : Joined(d, c, xs, z, xc, yc)
    BY <1>3, <2>1, JoinedStep
  <2>3. Joined(c, d, xc, yc, xs, z)
    BY <2>2, JoinedTurned
  <2> QED BY <1>4, <2>3 DEF Both
<1>6. CASE Awaiting(c, s, xc, yc, xs, ys)
  <2>1. PICK z : Awaiting(c, d, xc, yc, xs, z)
    BY <1>3, <1>6, AwaitingStep
  <2> QED BY <1>4, <2>1 DEF Both
<1> QED BY <1>1, <1>5, <1>6

\* A step that leaves Whole is one.
LEMMA ComesMoves ==
    ASSUME NEW r, NEW s, \A f, x, y : Local(opt, r, x, y) /\ Sender(r, f, y) => Comes(r, f, x, s)
    PROVE  Moves(r, s)
<1> SUFFICES ASSUME NEW f, NEW x, NEW y, Local(opt, r, x, y), Sender(r, f, y)
             PROVE  Arrives(r, f, x, s) /\ Grows(r.wire, s.wire)
  BY DEF Moves
<1>1. Comes(r, f, x, s)
  OBVIOUS
<1>2. r.seq["in"] = x.seq /\ r.comp["in"] = x.comp /\ (~r.authed => r.blocks["in"] <= x.n)
  BY DEF Local
<1>3. Arrives(r, f, x, s)
  BY <1>1, <1>2, ComesArrives
<1>4. Grows(r.wire, s.wire)
  BY <1>1 DEF Comes, Input
<1> QED BY <1>3, <1>4

\* An application's packet is sent.
LEMMA MovesSend ==
    ASSUME OptOK(opt), NEW r, r.authed, ~r.handover, NEW t \in AppType, NEW n \in Nat
    PROVE  Moves(r, ssh_packet_send2(r, t, n))
<1> DEFINE s == ssh_packet_send2(r, t, n)
<1>1. ASSUME NEW f, NEW x, NEW y, Local(opt, r, x, y), Sender(r, f, y)
      PROVE  Comes(r, f, x, s)
  <2>1. Whole(opt, r, x, y)
    BY <1>1 DEF Local
  <2> QED BY <1>1, <2>1, AppSend
<1> HIDE DEF s
<1>2. Moves(r, s)
  BY <1>1, ComesMoves
<1> QED BY <1>2 DEF s

\* The rekey interval runs out.
LEMMA MovesDue ==
    ASSUME NEW r, NEW s, s = [r EXCEPT !.due = TRUE]
    PROVE  Moves(r, s)
<1> SUFFICES ASSUME NEW f, NEW x, NEW y, Local(opt, r, x, y), Sender(r, f, y)
             PROVE  Arrives(r, f, x, s) /\ Grows(r.wire, s.wire)
  BY DEF Moves
<1> QED BY Expires

\* The check of the loops.
LEMMA MovesCheck ==
    ASSUME OptOK(opt), NEW r, r.authed, ~r.handover
    PROVE  Moves(r, ssh_packet_check_rekey(r))
<1> DEFINE s == ssh_packet_check_rekey(r)
<1>1. ASSUME NEW f, NEW x, NEW y, Local(opt, r, x, y), Sender(r, f, y)
      PROVE  Comes(r, f, x, s)
  <2>1. Whole(opt, r, x, y)
    BY <1>1 DEF Local
  <2> QED BY <1>1, <2>1, Checks
<1> HIDE DEF s
<1>2. Moves(r, s)
  BY <1>1, ComesMoves
<1> QED BY <1>2 DEF s

\* An exchange is asked for outside one.
LEMMA MovesRekex ==
    ASSUME OptOK(opt), NEW r, r.authed, ~r.handover, r.done
    PROVE  Moves(r, kex_start_rekex(r))
<1> DEFINE s == kex_start_rekex(r)
           u == kex_start_rekex([r EXCEPT !.queue = r.queue])
<1>1. ASSUME NEW f, NEW x, NEW y, Local(opt, r, x, y), Sender(r, f, y)
      PROVE  Comes(r, f, x, s)
  <2>1. Whole(opt, r, x, y)
    BY <1>1 DEF Local
  <2>2. r \in Ssh(opt) /\ r.queue \in Seq(Item) /\ \A i \in 1..Len(r.queue) : r.queue[i].type \in AppType
    BY <2>1, WholeParts, SshTypes DEF Authed
  <2>3. r = [r EXCEPT !.queue = r.queue]
    BY <2>2 DEF Ssh
  <2>4. s = u
    BY <2>3, Zenon
  <2>5. Comes(r, f, x, u)
    BY <1>1, <2>1, <2>2, Rekeys
  <2> HIDE DEF s, u
  <2> QED BY <2>4, <2>5
<1> HIDE DEF s
<1>2. Moves(r, s)
  BY <1>1, ComesMoves
<1> QED BY <1>2 DEF s

\* sshd-session takes over.
LEMMA MovesState ==
    ASSUME OptOK(opt), NEW r, r.authed, r.handover
    PROVE  Moves(r, ssh_packet_set_state(r))
<1> DEFINE s == ssh_packet_set_state(r)
<1> SUFFICES ASSUME NEW f, NEW x, NEW y, Local(opt, r, x, y), Sender(r, f, y)
             PROVE  Arrives(r, f, x, s) /\ Grows(r.wire, s.wire)
  BY DEF Moves
<1>1. Sender(s, f, y) /\ Local(opt, s, x, y) /\ s.server = r.server /\ s.authed = r.authed /\ s.wire = r.wire
  BY SetState
<1> HIDE DEF s
<1>2. Len(r.wire) \in Nat
  BY DEF Sender, Ssh
<1> QED BY <1>1, <1>2 DEF Arrives, Grows

\* The client reads a packet.
LEMMA ClientReceives ==
    ASSUME OptOK(opt), NEW c, NEW s, NEW n, Both(c, s, n), ~c.handover, s.wire # <<>>, NEW pk, pk = Head(s.wire),
           NEW p, p = [s EXCEPT !.wire = Tail(s.wire)], NEW ok, NEW d, d = Dispatch(c, pk, ok)
    PROVE  Both(d, p, n)
<1>1. PICK xc, yc, xs, ys :
        \/ Joined(c, s, xc, yc, xs, ys) /\ (~s.authed => Tried(n, xs))
        \/ Awaiting(c, s, xc, yc, xs, ys)
  BY DEF Both
<1>2. s \in Ssh(opt) /\ s.server /\ ~c.server
  BY BothFacts
<1>3. p.authed = s.authed /\ p.server = s.server
  BY <1>2 DEF Ssh
<1>4. CASE Joined(c, s, xc, yc, xs, ys) /\ (~s.authed => Tried(n, xs))
  <2>1. PICK w, z : Joined(d, p, w, z, xs, ys)
    BY <1>2, <1>4, ClientReads
  <2>2. ~d.server
    <3>1. d.server # p.server /\ d \in Ssh(opt) /\ p \in Ssh(opt)
      BY <2>1 DEF Joined, Sender
    <3>2. d.server \in BOOLEAN /\ p.server \in BOOLEAN
      BY <3>1 DEF Ssh
    <3> QED BY <1>2, <1>3, <3>1, <3>2
  <2> QED BY <1>3, <1>4, <2>1, <2>2 DEF Both
<1>5. CASE Awaiting(c, s, xc, yc, xs, ys)
  <2>1. /\ ~d.server
        /\ (p.authed /\ \E w, z : Joined(d, p, w, z, xs, ys)) \/ \E w : Awaiting(d, p, w, yc, xs, ys)
    BY <1>5, ClientHears
  <2> QED BY <2>1 DEF Both
<1> QED BY <1>1, <1>4, <1>5

\* The server reads a packet: n counts the requests it refuses.
LEMMA ServerReceives ==
    ASSUME OptOK(opt), NEW c, NEW s, NEW n, Both(c, s, n), ~s.handover, c.wire # <<>>, NEW pk, pk = Head(c.wire),
           NEW p, p = [c EXCEPT !.wire = Tail(c.wire)], NEW ok, NEW k, Answer(pk, ok, n, k), NEW d, d = Dispatch(s, pk, ok)
    PROVE  Both(p, d, k)
<1>1. PICK xc, yc, xs, ys :
        \/ Joined(c, s, xc, yc, xs, ys) /\ (~s.authed => Tried(n, xs))
        \/ Awaiting(c, s, xc, yc, xs, ys)
  BY DEF Both
<1>2. c \in Ssh(opt) /\ s.server /\ ~c.server
  BY BothFacts
<1>3. ~p.server
  BY <1>2 DEF Ssh
<1>4. Joined(c, s, xc, yc, xs, ys) /\ (~s.authed => Tried(n, xs))
  BY <1>1 DEF Awaiting
<1>5. Joined(s, c, xs, ys, xc, yc)
  BY <1>4, JoinedTurned
<1>6. CASE Admits(pk, ok)
  <2>1. ok = TRUE /\ pk.type = "USERAUTH_REQUEST"
    BY <1>6 DEF Admits, Answer
  <2>2. \E x, z : Awaiting(p, d, xc, yc, x, z)
    BY <1>2, <1>4, <1>5, <2>1, ServerAccepts
  <2> QED BY <1>3, <2>2 DEF Both
<1>7. CASE ~Admits(pk, ok)
  <2>1. PICK w, z : Joined(d, p, w, z, xc, yc) /\ (~d.authed => Tried(k, w))
    <3>1. Served(d, p, k, xc, yc)
      BY <1>2, <1>4, <1>5, <1>7, ServerReads
    <3> QED BY <3>1 DEF Served
  <2>2. Joined(p, d, xc, yc, w, z)
    BY <2>1, JoinedTurned
  <2> QED BY <1>3, <2>1, <2>2 DEF Both
<1> QED BY <1>6, <1>7

----------------------------------------------------------------------------
(* The theorems.                                                           *)

\* The inductive invariant.
IInv ==
    /\ opt \in Options /\ end \in [End -> Ssh(opt)]
    /\ made \in [End -> [app : Nat, ctl : Nat, due : Nat, tries : Nat]]
    /\ Both(end["client"], end["server"], made["server"].tries)

\* The options are what is assumed of them.
LEMMA OptionsOK ==
    ASSUME NEW o \in Options
    PROVE  OptOK(o)
BY OptionAssumption DEF OptOK

\* Before the first packet.
Origin == [st |-> "start", k |-> 0, n |-> 0, seq |-> 0, comp |-> "off"]

\* An end sends its first KEXINIT.
LEMMA Starts ==
    ASSUME OptOK(opt), NEW b \in BOOLEAN, NEW s, s = kex_send_kexinit(Fresh(b))
    PROVE  s.server = b /\ ~s.authed /\ \E z : Sender(s, Origin, z) /\ Local(opt, s, Origin, z)
<1> DEFINE r == Fresh(b)
<1>1. opt.seq_wrap \in Nat /\ opt.seq_wrap >= 8 /\ Most(opt) \in Nat /\ Most(opt) >= 8 /\ First(opt) \in {3, 4}
  BY DEF OptOK, Most, First
<1>2. Origin \in Position(opt)
  <2>1. 0 \in 0..Most(opt) /\ 0 \in Sequenced(opt)
    BY <1>1 DEF Sequenced
  <2> QED BY <2>1 DEF Origin, Position, Stages, Contexts
<1>3. r \in Ssh(opt)
  <2>1. 0 \in Sequenced(opt)
    BY <1>1 DEF Sequenced
  <2>2. <<>> \in Seq(Item) /\ <<>> \in Seq(Message(opt))
    BY EmptySeq
  <2>3. NoKey \in Nat \X Nat /\ "KEXINIT" \in PacketType
    BY DEF NoKey, PacketType, TransportType
  <2> DEFINE keys == [m \in Mode |-> NoKey]
             zero == [m \in Mode |-> 0]
             off == [m \in Mode |-> "off"]
             vol == [all |-> 0, app |-> 0]
             flags == {"INITIAL"}
             types == {"KEXINIT"}
             none == "none"
             no == FALSE
             empty == <<>>
             i == 0
  <2>4. keys \in [Mode -> Nat \X Nat]
    BY <2>3
  <2>5. zero \in [Mode -> Sequenced(opt)] /\ zero \in [Mode -> Nat]
    BY <2>1
  <2>6. off \in [Mode -> {"off", "new", "used"}]
    OBVIOUS
  <2>7. vol \in [all : Nat, app : Nat]
    OBVIOUS
  <2>8. flags \in SUBSET Flag
    BY DEF Flag
  <2>9. types \in SUBSET PacketType
    BY <2>3
  <2>11. none \in {"none"} /\ no \in BOOLEAN /\ i \in Nat
    <3>1. none \in {"none"}
      OBVIOUS
    <3>2. no \in BOOLEAN
      OBVIOUS
    <3>3. i \in Nat
      OBVIOUS
    <3> HIDE DEF none, no, i
    <3> QED BY <3>1, <3>2, <3>3
  <2>12. empty \in Seq(Item) /\ empty \in Seq(Message(opt))
    BY <2>2
  <2>10. r = [server |-> b, rekeying |-> no, done |-> no, flags |-> flags,
              strict |-> no, my |-> i, peer |-> i, authed |-> no, handover |-> no, ext |-> i,
              key |-> keys, newkeys |-> keys, seq |-> zero, blocks |-> zero, comp |-> off,
              vol |-> vol, due |-> no, dispatch |-> types, queue |-> empty, wire |-> empty, fault |-> none]
    BY Zenon DEF Fresh
  <2> HIDE DEF keys, zero, off, vol, flags, types, none, no, empty, i, r
  <2> QED BY <2>4, <2>5, <2>6, <2>7, <2>8, <2>9, <2>10, <2>11, <2>12 DEF Ssh
<1>4. /\ r.server = b /\ ~r.authed /\ r.fault = "none" /\ r.wire = <<>> /\ r.flags = {"INITIAL"} /\ r.my = 0 /\ r.peer = 0
      /\ r.key = [m \in Mode |-> NoKey] /\ r.newkeys = [m \in Mode |-> NoKey] /\ r.seq = [m \in Mode |-> 0]
      /\ r.blocks = [m \in Mode |-> 0] /\ r.comp = [m \in Mode |-> "off"] /\ r.dispatch = {"KEXINIT"} /\ r.queue = <<>>
      /\ ~r.handover /\ r.ext = 0
  BY DEF Fresh
<1> HIDE DEF r
<1>5. Sender(r, Origin, Origin)
  <2>1. At(r, "out", Origin)
    BY <1>4 DEF At, Origin, Key, Busy, Mode, NoKey
  <2>2. Path(opt, Me(r), r.wire, Origin, Origin)
    BY <1>2, <1>4, PathEmpty
  <2>3. Len(r.wire) = 0
    BY <1>4
  <2>4. Kind(r, Origin, Origin)
    BY <1>4, <2>3 DEF Kind, Pre, Counted, Origin, Mode
  <2> QED BY <1>2, <1>3, <1>4, <2>1, <2>2, <2>4 DEF Sender
<1>6. Room(r, Origin) /\ Origin.st = "start" /\ Origin.k = 0 /\ Origin.n = 0 /\ Origin.seq = 0 /\ Origin.comp = "off"
  BY <1>1 DEF Room, Origin
<1>7. "INIT_SENT" \notin r.flags /\ s = kex_send_kexinit(r)
  BY <1>4 DEF r
<1>8. /\ \E z : Sender(s, Origin, z) /\ z.k = Origin.k + 1 /\ z.st = "kexinit" /\ (~r.authed => z.n = Origin.n + 1)
      /\ Input(r, s) /\ Initiated(r, s, Origin.k + 1)
  BY <1>4, <1>5, <1>6, <1>7, KexinitSent
<1>9. PICK z : Sender(s, Origin, z) /\ z.k = 1 /\ z.st = "kexinit" /\ z.n = 1
  BY <1>4, <1>6, <1>8
<1>10. /\ s.done = FALSE /\ s.rekeying = TRUE /\ s.my = 1 /\ s.flags = {"INITIAL", "INIT_SENT"} /\ s.peer = 0
       /\ ~s.handover /\ s.ext = 0 /\ ~s.authed /\ s.newkeys = [m \in Mode |-> NoKey] /\ s.queue = <<>>
       /\ s.dispatch = {"KEXINIT"}
  BY <1>4, <1>6, <1>8 DEF Initiated
<1>11. /\ s.server = b /\ s.comp["in"] = "off" /\ s.seq["in"] = 0 /\ s.blocks["in"] = 0 /\ s.key["in"] = <<0, 0>>
  <2>1. "in" \in Mode
    BY DEF Mode
  <2> QED BY <1>4, <1>8, <2>1 DEF Input, NoKey
<1>12. s \in Ssh(opt) /\ s.fault = "none" /\ z \in Position(opt) /\ At(s, "out", z) /\ Pre(s, z)
  BY <1>9, <1>10 DEF Sender, Kind
<1>13. Phase(s, Origin, z)
  BY <1>9, <1>10 DEF Phase, Origin, Busy
<1>14. Steps(opt, s.server, Origin, z)
  BY <1>9 DEF Steps, Origin, Busy
<1>15. Derived(s, Origin) /\ Settled(opt, s, Origin, z)
  BY <1>9, <1>10 DEF Derived, Settled, Origin, Busy
<1>16. Unauthed(opt, s, Origin, z)
  <2>1. Placed(opt, Origin)
    BY DEF Placed, Early, Origin
  <2>2. z.n = Written(opt, s.server, Origin.n)
    BY <1>1, <1>6, <1>9 DEF Written
  <2>3. Accepts(opt, s, Origin)
    BY <1>6, <1>10 DEF Accepts, Eve
  <2>4. Origin.n - First(opt) < 0
    BY <1>1, <1>6
  <2>5. ~(Origin.n - First(opt) = 0) /\ ~(Origin.n - First(opt) > 0) /\ ~(Origin.n - First(opt) = 1)
        /\ ~(Origin.n - First(opt) > 1) /\ ~(Origin.n - First(opt) = 2) /\ ~(Origin.n - First(opt) > 2)
        /\ ~(Origin.n - First(opt) \in {1, 2})
    BY <1>1, <1>6
  <2> QED BY <1>6, <1>10, <1>12, <2>1, <2>2, <2>3, <2>4, <2>5 DEF Unauthed
<1>17. Key(Origin) = <<0, 0>>
  BY DEF Key, Origin, Busy
<1>18. Whole(opt, s, Origin, z)
  BY <1>2, <1>10, <1>11, <1>12, <1>13, <1>14, <1>15, <1>16, <1>17 DEF Whole, Exchange
<1>19. Local(opt, s, Origin, z)
  BY <1>6, <1>11, <1>18 DEF Local
<1> QED BY <1>9, <1>10, <1>11, <1>19

\* The connection begins.
LEMMA InitHolds ==
    Init => IInv
<1> SUFFICES ASSUME Init PROVE IInv
  OBVIOUS
<1> DEFINE c == kex_send_kexinit(Fresh(FALSE))
           s == kex_send_kexinit(Fresh(TRUE))
<1>1. opt \in Options /\ end = [e \in End |-> kex_send_kexinit(Fresh(e = "server"))]
      /\ made = [e \in End |-> [app |-> 0, ctl |-> 0, due |-> 0, tries |-> 0]]
  BY DEF Init
<1>2. OptOK(opt)
  BY <1>1, OptionsOK
<1>3. end = [e \in End |-> IF e = "server" THEN s ELSE c]
  <2>1. ASSUME NEW e \in End PROVE kex_send_kexinit(Fresh(e = "server")) = IF e = "server" THEN s ELSE c
    <3>1. CASE e = "server"
      <4>1. (e = "server") = TRUE
        BY <3>1
      <4> QED BY <3>1, <4>1, Zenon
    <3>2. CASE e # "server"
      <4>1. (e = "server") = FALSE
        BY <3>2
      <4> QED BY <3>2, <4>1, Zenon
    <3> QED BY <3>1, <3>2
  <2> HIDE DEF c, s
  <2> QED BY <1>1, <2>1
<1>4. ~c.server /\ ~c.authed /\ \E z : Sender(c, Origin, z) /\ Local(opt, c, Origin, z)
  <2>1. FALSE \in BOOLEAN /\ c = kex_send_kexinit(Fresh(FALSE))
    OBVIOUS
  <2> QED BY <1>2, <2>1, Starts
<1>5. s.server /\ ~s.authed /\ \E z : Sender(s, Origin, z) /\ Local(opt, s, Origin, z)
  <2>1. TRUE \in BOOLEAN /\ s = kex_send_kexinit(Fresh(TRUE))
    OBVIOUS
  <2> QED BY <1>2, <2>1, Starts
<1> HIDE DEF c, s
<1>6. PICK y : Sender(c, Origin, y) /\ Local(opt, c, Origin, y)
  BY <1>4
<1>7. PICK z : Sender(s, Origin, z) /\ Local(opt, s, Origin, z)
  BY <1>5
<1>8. c \in Ssh(opt) /\ s \in Ssh(opt)
  BY <1>6, <1>7 DEF Sender
<1>9. Joined(c, s, Origin, y, Origin, z)
  <2>1. c.server \in BOOLEAN /\ s.server \in BOOLEAN /\ c.authed \in BOOLEAN /\ s.authed \in BOOLEAN
    BY <1>8 DEF Ssh
  <2>2. c.server # s.server /\ c.authed = s.authed
    BY <1>4, <1>5, <2>1
  <2> QED BY <1>6, <1>7, <2>2 DEF Joined
<1>10. Tried(0, Origin)
  <2>1. opt.tries \in Nat /\ First(opt) \in {3, 4}
    BY <1>2 DEF OptOK, First
  <2>2. Origin.n = 0
    BY DEF Origin
  <2>3. 0 \in 0..opt.tries /\ ~(Origin.n > First(opt) + 1)
    BY <2>1, <2>2
  <2> QED BY <2>3 DEF Tried
<1>11. Both(c, s, 0)
  BY <1>4, <1>9, <1>10 DEF Both
<1>12. end["client"] = c /\ end["server"] = s /\ end \in [End -> Ssh(opt)]
  BY <1>3, <1>8 DEF End
<1>13. made["server"].tries = 0 /\ made \in [End -> [app : Nat, ctl : Nat, due : Nat, tries : Nat]]
  BY <1>1 DEF End
<1> QED BY <1>1, <1>11, <1>12, <1>13 DEF IInv

\* What a step has to leave.
Tallies == [End -> [app : Nat, ctl : Nat, due : Nat, tries : Nat]]

\* It leaves both ends where the invariant wants them.
LEMMA Changes ==
    ASSUME IInv, opt' = opt, end' \in [End -> Ssh(opt)], made' \in Tallies,
           Both(end'["client"], end'["server"], made'["server"].tries)
    PROVE  IInv'
<1>1. Both(end["client"], end["server"], made["server"].tries)'
  BY DEF Both, Joined, Awaiting, Sender, Tried
<1> QED BY <1>1 DEF IInv, Tallies

\* After a step of the client alone.
LEMMA ClientChanges ==
    ASSUME IInv, opt' = opt, NEW d, end' = [end EXCEPT !["client"] = d], end["client"].authed, Moves(end["client"], d),
           made' \in Tallies, made'["server"].tries = made["server"].tries
    PROVE  IInv'
<1>1. "client" \in End /\ "server" \in End
  BY DEF End
<1>2. end \in [End -> Ssh(opt)] /\ Both(end["client"], end["server"], made["server"].tries)
  BY DEF IInv
<1>3. Both(d, end["server"], made["server"].tries)
  BY <1>2, ClientMoves
<1>4. d \in Ssh(opt)
  BY <1>3, BothFacts
<1>5. end' \in [End -> Ssh(opt)] /\ end'["client"] = d /\ end'["server"] = end["server"]
  BY <1>1, <1>2, <1>4
<1> QED BY <1>3, <1>5, Changes

\* After a step of the server alone.
LEMMA ServerChanges ==
    ASSUME IInv, opt' = opt, NEW d, end' = [end EXCEPT !["server"] = d], end["server"].authed, Moves(end["server"], d),
           made' \in Tallies, made'["server"].tries = made["server"].tries
    PROVE  IInv'
<1>1. "client" \in End /\ "server" \in End
  BY DEF End
<1>2. end \in [End -> Ssh(opt)] /\ Both(end["client"], end["server"], made["server"].tries)
  BY DEF IInv
<1>3. Both(end["client"], d, made["server"].tries)
  BY <1>2, ServerMoves
<1>4. d \in Ssh(opt)
  BY <1>3, BothFacts
<1>5. end' \in [End -> Ssh(opt)] /\ end'["server"] = d /\ end'["client"] = end["client"]
  BY <1>1, <1>2, <1>4
<1> QED BY <1>3, <1>5, Changes

\* After a step of e alone, in its loop.
LEMMA LoopChanges ==
    ASSUME IInv, opt' = opt, NEW e \in End, InLoop(e), NEW d, end' = [end EXCEPT ![e] = d],
           end[e].authed => Moves(end[e], d), made' \in Tallies, made'["server"].tries = made["server"].tries
    PROVE  IInv'
<1>1. e = "client" \/ e = "server"
  BY DEF End
<1>2. end[e].authed
  BY <1>1, BothFacts DEF InLoop, IInv
<1>3. CASE e = "client"
  BY <1>2, <1>3, ClientChanges
<1>4. CASE e = "server"
  BY <1>2, <1>4, ServerChanges
<1> QED BY <1>1, <1>3, <1>4

\* An end in its loop is not between two processes.
LEMMA LoopRuns ==
    ASSUME NEW e, InLoop(e)
    PROVE  ~end[e].handover
BY DEF InLoop, Running

\* A count goes up.
LEMMA TalliesCount ==
    ASSUME made \in Tallies, NEW e \in End
    PROVE  /\ made[e].app + 1 \in Nat
           /\ LET m == [made EXCEPT ![e].app = @ + 1] IN m \in Tallies /\ m["server"].tries = made["server"].tries
           /\ LET m == [made EXCEPT ![e].app = @ + 1, ![e].ctl = @ + 1] IN m \in Tallies /\ m["server"].tries = made["server"].tries
           /\ LET m == [made EXCEPT ![e].due = @ + 1] IN m \in Tallies /\ m["server"].tries = made["server"].tries
           /\ [made EXCEPT ![e].tries = @ + 1] \in Tallies
           /\ [made EXCEPT ![e].tries = @ + 1]["server"].tries = IF e = "server" THEN made["server"].tries + 1 ELSE made["server"].tries
<1>1. "server" \in End
  BY DEF End
<1>2. made[e] \in [app : Nat, ctl : Nat, due : Nat, tries : Nat]
  BY DEF Tallies
<1>3. LET m == [made EXCEPT ![e].app = @ + 1] IN m \in Tallies /\ m["server"].tries = made["server"].tries
  BY <1>1, <1>2 DEF Tallies
<1>4. LET m == [made EXCEPT ![e].app = @ + 1, ![e].ctl = @ + 1] IN m \in Tallies /\ m["server"].tries = made["server"].tries
  <2> DEFINE a == [made EXCEPT ![e].app = @ + 1]
             b == [a EXCEPT ![e].ctl = @ + 1]
  <2>1. [made EXCEPT ![e].app = @ + 1, ![e].ctl = @ + 1] = b
    BY <1>2 DEF Tallies
  <2>2. a \in Tallies /\ a["server"].tries = made["server"].tries
    BY <1>3
  <2> HIDE DEF a
  <2>3. a[e] \in [app : Nat, ctl : Nat, due : Nat, tries : Nat]
    BY <2>2 DEF Tallies
  <2>4. b \in Tallies /\ b["server"].tries = a["server"].tries
    BY <1>1, <2>2, <2>3 DEF Tallies
  <2> HIDE DEF b
  <2> QED BY <2>1, <2>2, <2>4
<1>5. LET m == [made EXCEPT ![e].due = @ + 1] IN m \in Tallies /\ m["server"].tries = made["server"].tries
  BY <1>1, <1>2 DEF Tallies
<1>6. [made EXCEPT ![e].tries = @ + 1] \in Tallies
  BY <1>1, <1>2 DEF Tallies
<1>7. [made EXCEPT ![e].tries = @ + 1]["server"].tries = IF e = "server" THEN made["server"].tries + 1 ELSE made["server"].tries
  BY <1>1, <1>2 DEF Tallies
<1> QED BY <1>2, <1>3, <1>4, <1>5, <1>6, <1>7

\* SendData: an application's packet, outside an exchange.
LEMMA SendDataHolds ==
    ASSUME IInv, NEW e \in End, SendData(e)
    PROVE  IInv'
<1>1. opt' = opt /\ InLoop(e) /\ made' = [made EXCEPT ![e].app = @ + 1]
  BY DEF SendData
<1>2. made \in Tallies /\ OptOK(opt)
  BY OptionsOK DEF IInv, Tallies
<1>3. made[e].app + 1 \in Nat /\ made' \in Tallies /\ made'["server"].tries = made["server"].tries
  BY <1>1, <1>2, TalliesCount
<1> DEFINE d == ssh_packet_send2(end[e], "DATA", made[e].app + 1)
<1>4. end' = [end EXCEPT ![e] = d]
  BY DEF SendData
<1>5. end[e].authed => Moves(end[e], d)
  <2>1. "DATA" \in AppType
    BY DEF AppType
  <2> QED BY <1>1, <1>2, <1>3, <2>1, LoopRuns, MovesSend
<1> HIDE DEF d
<1> QED BY <1>1, <1>3, <1>4, <1>5, LoopChanges

\* SendCtl: an application's packet, also while an exchange is under way.
LEMMA SendCtlHolds ==
    ASSUME IInv, NEW e \in End, SendCtl(e)
    PROVE  IInv'
<1>1. opt' = opt /\ InLoop(e) /\ made' = [made EXCEPT ![e].app = @ + 1, ![e].ctl = @ + 1]
  BY DEF SendCtl
<1>2. made \in Tallies /\ OptOK(opt)
  BY OptionsOK DEF IInv, Tallies
<1>3. made[e].app + 1 \in Nat /\ made' \in Tallies /\ made'["server"].tries = made["server"].tries
  BY <1>1, <1>2, TalliesCount
<1> DEFINE d == ssh_packet_send2(end[e], "CTL", made[e].app + 1)
<1>4. end' = [end EXCEPT ![e] = d]
  BY DEF SendCtl
<1>5. end[e].authed => Moves(end[e], d)
  <2>1. "CTL" \in AppType
    BY DEF AppType
  <2> QED BY <1>1, <1>2, <1>3, <2>1, LoopRuns, MovesSend
<1> HIDE DEF d
<1> QED BY <1>1, <1>3, <1>4, <1>5, LoopChanges

\* Due: only the timer changes.
LEMMA DueHolds ==
    ASSUME IInv, NEW e \in End, Due(e)
    PROVE  IInv'
<1>1. opt' = opt /\ InLoop(e) /\ made' = [made EXCEPT ![e].due = @ + 1]
  BY DEF Due
<1>2. made \in Tallies /\ end \in [End -> Ssh(opt)]
  BY DEF IInv, Tallies
<1>3. made' \in Tallies /\ made'["server"].tries = made["server"].tries
  BY <1>1, <1>2, TalliesCount
<1> DEFINE d == [end[e] EXCEPT !.due = TRUE]
<1>4. end' = [end EXCEPT ![e] = d]
  BY <1>2 DEF Due
<1>5. Moves(end[e], d)
  BY MovesDue
<1> HIDE DEF d
<1> QED BY <1>1, <1>3, <1>4, <1>5, LoopChanges

\* CheckRekey: an exchange may begin.
LEMMA CheckRekeyHolds ==
    ASSUME IInv, NEW e \in End, CheckRekey(e)
    PROVE  IInv'
<1>1. opt' = opt /\ InLoop(e) /\ made' = made
  BY DEF CheckRekey
<1>2. made \in Tallies /\ OptOK(opt)
  BY OptionsOK DEF IInv, Tallies
<1> DEFINE d == ssh_packet_check_rekey(end[e])
<1>3. end' = [end EXCEPT ![e] = d]
  BY DEF CheckRekey
<1>4. end[e].authed => Moves(end[e], d)
  BY <1>1, <1>2, LoopRuns, MovesCheck
<1> HIDE DEF d
<1> QED BY <1>1, <1>2, <1>3, <1>4, LoopChanges

\* ManualRekey: outside an exchange, at the client.
LEMMA ManualRekeyHolds ==
    ASSUME IInv, ManualRekey
    PROVE  IInv'
<1> DEFINE e == "client"
           d == kex_start_rekex(end[e])
<1>1. opt' = opt /\ InLoop(e) /\ made' = [made EXCEPT ![e].due = @ + 1] /\ e \in End
  BY DEF ManualRekey, End
<1>2. made \in Tallies /\ OptOK(opt)
  BY OptionsOK DEF IInv, Tallies
<1>3. end' = [end EXCEPT ![e] = d] /\ end[e].done
  BY DEF ManualRekey, ssh_packet_is_rekeying
<1> HIDE DEF e
<1>4. made' \in Tallies /\ made'["server"].tries = made["server"].tries
  BY <1>1, <1>2, TalliesCount
<1>5. end[e].authed => Moves(end[e], d)
  BY <1>1, <1>2, <1>3, LoopRuns, MovesRekex
<1> HIDE DEF d
<1> QED BY <1>1, <1>3, <1>4, <1>5, LoopChanges

\* HandOver: only once a user is accepted.
LEMMA HandOverHolds ==
    ASSUME IInv, HandOver
    PROVE  IInv'
<1> DEFINE d == ssh_packet_set_state(end["server"])
<1>1. opt' = opt /\ made' = made /\ end["server"].handover /\ end' = [end EXCEPT !["server"] = d]
  BY DEF HandOver
<1>2. made \in Tallies /\ OptOK(opt) /\ Both(end["client"], end["server"], made["server"].tries)
  BY OptionsOK DEF IInv, Tallies
<1>3. end["server"].authed
  BY <1>1, <1>2, BothFacts
<1>4. Moves(end["server"], d)
  BY <1>1, <1>2, <1>3, MovesState
<1> HIDE DEF d
<1> QED BY <1>1, <1>2, <1>3, <1>4, ServerChanges

\* Receive, at the client.
LEMMA ClientReceiveHolds ==
    ASSUME IInv, Receive("client")
    PROVE  IInv'
<1> DEFINE c == end["client"]
           s == end["server"]
           pk == Head(s.wire)
           p == [s EXCEPT !.wire = Tail(s.wire)]
           n == made["server"].tries
<1>1. /\ end \in [End -> Ssh(opt)] /\ made \in Tallies /\ OptOK(opt) /\ Both(c, s, n)
  BY OptionsOK DEF IInv, Tallies
<1>2. opt' = opt /\ ~c.handover /\ s.wire # <<>> /\ "client" \in End /\ "server" \in End
  BY DEF Receive, Running, Peer, End
<1>3. PICK ok \in BOOLEAN :
        /\ end' = [[end EXCEPT !["server"].wire = Tail(@)] EXCEPT !["client"] = Dispatch([end EXCEPT !["server"].wire = Tail(@)]["client"], pk, ok)]
        /\ made' = IF ok THEN made ELSE [made EXCEPT !["client"].tries = @ + 1]
  BY DEF Receive, Peer
<1> DEFINE d == Dispatch(c, pk, ok)
<1>4. end' = [end EXCEPT !["server"] = p, !["client"] = d]
  <2>1. [end EXCEPT !["server"].wire = Tail(@)] = [end EXCEPT !["server"] = p]
    BY <1>1, <1>2
  <2>2. [end EXCEPT !["server"] = p]["client"] = c
    BY <1>1, <1>2
  <2> HIDE DEF p, c, pk
  <2> QED BY <1>3, <2>1, <2>2, Zenon
<1>5. made' \in Tallies /\ made'["server"].tries = n
  <2>1. CASE ok
    BY <1>1, <1>3, <2>1
  <2>2. CASE ~ok
    <3>1. made' = [made EXCEPT !["client"].tries = @ + 1]
      BY <1>3, <2>2
    <3>2. "client" # "server"
      OBVIOUS
    <3> QED BY <1>1, <1>2, <3>1, <3>2, TalliesCount
  <2> QED BY <2>1, <2>2
<1> HIDE DEF c, s, n
<1>6. pk = Head(s.wire) /\ p = [s EXCEPT !.wire = Tail(s.wire)] /\ d = Dispatch(c, pk, ok)
  OBVIOUS
<1> HIDE DEF pk, p, d
<1>7. Both(d, p, n)
  BY <1>1, <1>2, <1>6, ClientReceives
<1>8. d \in Ssh(opt) /\ p \in Ssh(opt)
  BY <1>7, BothFacts
<1>9. end' \in [End -> Ssh(opt)] /\ end'["client"] = d /\ end'["server"] = p
  BY <1>1, <1>2, <1>4, <1>8
<1> QED BY <1>2, <1>5, <1>7, <1>9, Changes

\* Receive, at the server, which may refuse a user.
LEMMA ServerReceiveHolds ==
    ASSUME IInv, Receive("server")
    PROVE  IInv'
<1> DEFINE c == end["client"]
           s == end["server"]
           pk == Head(c.wire)
           p == [c EXCEPT !.wire = Tail(c.wire)]
           n == made["server"].tries
           k == made'["server"].tries
<1>1. /\ end \in [End -> Ssh(opt)] /\ made \in Tallies /\ OptOK(opt) /\ Both(c, s, n)
  BY OptionsOK DEF IInv, Tallies
<1>2. opt' = opt /\ ~s.handover /\ c.wire # <<>> /\ "client" \in End /\ "server" \in End
  BY DEF Receive, Running, Peer, End
<1>3. PICK ok \in BOOLEAN :
        /\ ~ok => pk.type = "USERAUTH_REQUEST" /\ n < opt.tries
        /\ end' = [[end EXCEPT !["client"].wire = Tail(@)] EXCEPT !["server"] = Dispatch([end EXCEPT !["client"].wire = Tail(@)]["server"], pk, ok)]
        /\ made' = IF ok THEN made ELSE [made EXCEPT !["server"].tries = @ + 1]
  BY DEF Receive, Peer, MaxTries
<1> DEFINE d == Dispatch(s, pk, ok)
<1>4. end' = [end EXCEPT !["client"] = p, !["server"] = d]
  <2>1. [end EXCEPT !["client"].wire = Tail(@)] = [end EXCEPT !["client"] = p]
    BY <1>1, <1>2
  <2>2. [end EXCEPT !["client"] = p]["server"] = s
    BY <1>1, <1>2
  <2> HIDE DEF p, s, pk
  <2> QED BY <1>3, <2>1, <2>2, Zenon
<1>5. made' \in Tallies /\ k = IF ok THEN n ELSE n + 1
  <2>1. CASE ok
    BY <1>1, <1>3, <2>1
  <2>2. CASE ~ok
    <3>1. made' = [made EXCEPT !["server"].tries = @ + 1]
      BY <1>3, <2>2
    <3> QED BY <1>1, <1>2, <2>2, <3>1, TalliesCount
  <2> QED BY <2>1, <2>2
<1> HIDE DEF c, s, n, k
<1>6. pk = Head(c.wire) /\ p = [c EXCEPT !.wire = Tail(c.wire)] /\ d = Dispatch(s, pk, ok)
  OBVIOUS
<1> HIDE DEF pk, p, d
<1>7. Answer(pk, ok, n, k)
  BY <1>3, <1>5 DEF Answer
<1>8. Both(p, d, k)
  BY <1>1, <1>2, <1>6, <1>7, ServerReceives
<1>9. d \in Ssh(opt) /\ p \in Ssh(opt)
  BY <1>8, BothFacts
<1>10. end' \in [End -> Ssh(opt)] /\ end'["client"] = p /\ end'["server"] = d
  BY <1>1, <1>2, <1>4, <1>9
<1> QED BY <1>2, <1>5, <1>8, <1>10, Changes DEF k

\* Every step keeps the invariant.
LEMMA NextHolds ==
    IInv /\ [Next]_vars => IInv'
<1> SUFFICES ASSUME IInv, [Next]_vars PROVE IInv'
  OBVIOUS
<1>1. ASSUME NEW e \in End, Receive(e) PROVE IInv'
  <2>1. e = "client" \/ e = "server"
    BY DEF End
  <2> QED BY <1>1, <2>1, ClientReceiveHolds, ServerReceiveHolds
<1>2. ASSUME NEW e \in End, SendData(e) PROVE IInv'
  BY <1>2, SendDataHolds
<1>3. ASSUME NEW e \in End, SendCtl(e) PROVE IInv'
  BY <1>3, SendCtlHolds
<1>4. ASSUME NEW e \in End, Due(e) PROVE IInv'
  BY <1>4, DueHolds
<1>5. ASSUME NEW e \in End, CheckRekey(e) PROVE IInv'
  BY <1>5, CheckRekeyHolds
<1>6. CASE ManualRekey
  BY <1>6, ManualRekeyHolds
<1>7. CASE HandOver
  BY <1>7, HandOverHolds
<1>8. CASE UNCHANGED vars
  <2>1. opt' = opt /\ end' = end /\ made' = made
    BY <1>8 DEF vars
  <2>2. end' \in [End -> Ssh(opt)] /\ made' \in Tallies /\ Both(end'["client"], end'["server"], made'["server"].tries)
    BY <2>1 DEF IInv, Tallies
  <2> QED BY <2>1, <2>2, Changes
<1> QED BY <1>1, <1>2, <1>3, <1>4, <1>5, <1>6, <1>7, <1>8 DEF Next

\* No end ever meets a packet it cannot decrypt or does not expect, asks for
\* an exchange while one is under way, or installs keys it has not derived:
\* ssh_packet_read_poll2, ssh_dispatch_run, kex_start_rekex and
\* ssh_set_newkeys never fail, for any options, limits and number of
\* exchanges, whichever end starts them when.
THEOREM NothingFails ==
    Spec => []NoFault
<1>1. Init => IInv
  BY InitHolds
<1>2. IInv /\ [Next]_vars => IInv'
  BY NextHolds
<1>3. IInv => NoFault
  BY BothFacts DEF IInv, NoFault, End
<1> QED BY <1>1, <1>2, <1>3, PTL DEF Spec

\* An application message that is read has a number.
LEMMA TakenHolds ==
    ASSUME IInv, taken \in [End -> Nat], [Next]_vars
    PROVE  taken' \in [End -> Nat]
<1>1. ASSUME NEW e \in End, Receive(e) PROVE taken' \in [End -> Nat]
  <2> DEFINE q == end[Peer(e)]
             pk == Head(q.wire)
  <2>1. q \in Ssh(opt)
    <3>1. Peer(e) \in End
      BY DEF Peer, End
    <3> QED BY <3>1 DEF IInv
  <2>2. q.wire # <<>> /\ (taken' = [taken EXCEPT ![e] = pk.n] \/ taken' = taken)
    BY <1>1 DEF Receive
  <2> HIDE DEF q
  <2>3. pk \in Message(opt)
    <3>1. q.wire \in Seq(Message(opt))
      BY <2>1, SshTypes
    <3> QED BY <2>2, <3>1, HeadTailProperties
  <2> HIDE DEF pk
  <2>4. pk.n \in Nat
    BY <2>3 DEF Message
  <2> QED BY <2>2, <2>4
<1>2. ASSUME NEW e \in End, SendData(e) \/ SendCtl(e) \/ Due(e) \/ CheckRekey(e) PROVE taken' \in [End -> Nat]
  BY <1>2 DEF SendData, SendCtl, Due, CheckRekey
<1>3. CASE ManualRekey \/ HandOver \/ UNCHANGED vars
  BY <1>3 DEF ManualRekey, HandOver, vars
<1> QED BY <1>1, <1>2, <1>3 DEF Next

\* Both ends' state keeps its type: sequence numbers stay within their width,
\* and what is on the wire or held back is made of packets.
THEOREM TypesHold ==
    Spec => []TypeOK
<1> DEFINE Inv == IInv /\ taken \in [End -> Nat]
<1>1. Init => Inv
  BY InitHolds DEF Init
<1>2. Inv /\ [Next]_vars => Inv'
  BY NextHolds, TakenHolds
<1>3. Inv => TypeOK
  <2> SUFFICES ASSUME Inv, NEW e \in End
               PROVE  LET r == end[e]
                      IN  /\ r.flags \subseteq {"INITIAL", "INIT_SENT", "INIT_RECVD", "HAS_EXT_INFO_IN_AUTH", "attempted"}
                          /\ r.key \in [Mode -> Nat \X Nat] /\ r.newkeys \in [Mode -> Nat \X Nat]
                          /\ r.seq \in [Mode -> 0 .. SeqWrap - 1] /\ r.blocks \in [Mode -> Nat]
                          /\ r.comp \in [Mode -> {"off", "new", "used"}]
                          /\ r.dispatch \subseteq PacketType
                          /\ \A i \in DOMAIN r.wire : r.wire[i] \in Packet
                          /\ \A i \in DOMAIN r.queue : r.queue[i] \in [type : PacketType, n : Nat]
    BY DEF TypeOK, IInv
  <2> DEFINE r == end[e]
  <2>1. r \in Ssh(opt)
    BY DEF IInv
  <2> HIDE DEF r
  <2>2. r.seq \in [Mode -> 0 .. SeqWrap - 1] /\ r.blocks \in [Mode -> Nat] /\ r.key \in [Mode -> Nat \X Nat]
        /\ r.newkeys \in [Mode -> Nat \X Nat]
    BY <2>1, SshTypes DEF Sequenced, SeqWrap
  <2>3. r.flags \subseteq Flag /\ r.dispatch \subseteq PacketType
    BY <2>1 DEF Ssh
  <2>4. r.comp \in [Mode -> {"off", "new", "used"}]
    BY <2>1 DEF Ssh
  <2>5. r.wire \in Seq(Packet) /\ r.queue \in Seq(Item)
    <3>1. Message(opt) = Packet
      BY DEF Message, Packet, Sequenced, SeqWrap
    <3>2. r.wire \in Seq(Message(opt)) /\ r.queue \in Seq(Item)
      BY <2>1, SshTypes
    <3> QED BY <3>1, <3>2
  <2>6. (\A i \in DOMAIN r.wire : r.wire[i] \in Packet) /\ \A i \in DOMAIN r.queue : r.queue[i] \in Item
    BY <2>5, LenProperties
  <2>7. /\ r.flags \subseteq {"INITIAL", "INIT_SENT", "INIT_RECVD", "HAS_EXT_INFO_IN_AUTH", "attempted"}
        /\ \A i \in DOMAIN r.queue : r.queue[i] \in [type : PacketType, n : Nat]
    BY <2>3, <2>6 DEF Flag, Item
  <2> QED BY <2>2, <2>3, <2>4, <2>6, <2>7 DEF r
<1> QED BY <1>1, <1>2, <1>3, PTL DEF Spec
=============================================================================
