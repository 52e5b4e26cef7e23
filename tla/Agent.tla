------------------------------- MODULE Agent -------------------------------
(***************************************************************************)
(* ssh-agent: the identities it holds, the connections of its clients and  *)
(* the requests they send.  A connection may be bound to SSH sessions      *)
(* (session-bind@openssh.com): each binding names the session and, by a    *)
(* signature, the host at its other end, and says whether the connection   *)
(* is forwarded there or used to authenticate there.  Keys may be          *)
(* constrained to such paths, to a lifetime, to a confirmation.            *)
(*                                                                         *)
(* Keys, host keys, session ids and passwords are opaque values.  Time is  *)
(* counted in units; an identity keeps the time it has left to live        *)
(* (death - now).  Replies are not queued: a client reads what it is sent. *)
(***************************************************************************)
EXTENDS Integers, Sequences, FiniteSets, Functions

CONSTANTS
    Keys,           \* the keys anybody may add
    WebKeys,        \* those on a FIDO token whose application is not ssh:
    SkKeys,         \* those on a FIDO token
    TokenKeys,      \* those a PKCS#11 provider offers
    CertOf,         \* CertOf[k]: the certificate associated with token key k
    Conns,          \* connections
    Sessions,       \* session ids
    LongIds,        \* those longer than AGENT_MAX_SID_LEN, which no key exchange makes
    HostKey,        \* HostKey[s]: the host key that signed session id s
    Users,
    Passwords,
    KeyConstraints, \* the sequences of constraints a key may come with
    DefaultLife,    \* ssh-agent -t, or Forever
    RemoteProviders,\* ssh-agent -O allow-remote-pkcs11
    MaxSessionIds,  \* AGENT_MAX_SESSION_IDS
    MaxHeld         \* bound: identities held at a time

Forever == -1
None == "none"

ASSUME AgentAssumption ==
    /\ WebKeys \subseteq SkKeys /\ SkKeys \subseteq Keys /\ TokenKeys \subseteq Keys
    /\ DOMAIN CertOf = TokenKeys /\ DOMAIN HostKey = Sessions /\ LongIds \subseteq Sessions
    /\ MaxSessionIds \in Nat \ {0} /\ MaxHeld \in Nat
    /\ DefaultLife = Forever \/ DefaultLife \in Nat \ {0}
    /\ \A cs \in KeyConstraints : \A i \in DOMAIN cs : cs[i].type = "lifetime" => cs[i].life \in Nat

VARIABLES
    idtab,      \* idtab[k]: the identity of key k, for the keys held
    sock,       \* sock[c]: struct socket_entry
    locked,     \* the password the agent is locked with, or None
    loop,       \* the main loop: where it is and the timeout of its poll
    keydrop,    \* SIGUSR1 was received
    last,       \* history: the signature of a constrained key the last step made
    bound       \* history: bound[c], the first binding c was told is good of each session
                \* whose id is not too long

vars == <<idtab, sock, locked, loop, keydrop, last, bound>>

NoSignature == [key |-> None]
Closed == [open |-> FALSE, ids |-> <<>>, attempted |-> FALSE]

----------------------------------------------------------------------------
(* Destination constraints.  A hop names a host, a user pattern ("" for    *)
(* any) and the keys and CAs it may present; the origin has no host name.  *)

\* A host key is plain, or a certificate by key.ca for the host key.host.
match_key_hop(key, hop) ==
    \E k \in hop.keys :
        IF key.ca = None THEN ~k.ca /\ k.key = key
        ELSE k.ca /\ k.key.name = key.ca /\ key.host = hop.hostname

\* "ORIGIN" stands for a NULL fromkey, "ANY" for a NULL tokey or user.
Origin == [name |-> "ORIGIN", ca |-> None, host |-> None]
Anywhere == [name |-> "ANY", ca |-> None, host |-> None]

\* Neither stands for a key or a user name that is there.
ASSUME NamesAssumption == "" \notin Users /\ \A s \in Sessions : HostKey[s] \notin {Origin, Anywhere}

permitted_by_dest_constraints(from, to, dest, user) ==
    \E i \in DOMAIN dest :
        LET d == dest[i]
        IN  /\ IF from = Origin THEN d.from.hostname = None /\ d.from.keys = {}
               ELSE match_key_hop(from, d.from)
            /\ to = Anywhere \/ match_key_hop(to, d.to)
            /\ d.to.user = "" \/ user = "" \/ d.to.user = user

\* Mutant: asks whether the last hop could be reached, not what lies beyond.
PermittedAtLast(id, s, user) ==
    LET n == Len(s.ids)
    IN  \/ id.dest = <<>> \/ (n = 0 /\ ~s.attempted)
        \/ n > 0 /\ permitted_by_dest_constraints(Origin, s.ids[n].key, id.dest, user)

\* user is "" when the question is whether the key is visible.
identity_permitted(id, s, user) ==
    LET n == Len(s.ids)
        from(i) == IF i = 1 THEN Origin ELSE s.ids[i-1].key
    IN  \/ id.dest = <<>>
        \/ n = 0 /\ ~s.attempted
        \/ /\ n > 0
           /\ \A i \in 1..n :
                /\ IF i = n THEN ~(s.ids[n].fwd /\ user # "") ELSE s.ids[i].fwd
                /\ permitted_by_dest_constraints(from(i), s.ids[i].key, id.dest,
                                                 IF i = n THEN user ELSE "")
           /\ s.ids[n].fwd /\ user = "" =>
                permitted_by_dest_constraints(s.ids[n].key, Anywhere, id.dest, "")

socket_is_remote(s) == s.attempted \/ s.ids # <<>>

----------------------------------------------------------------------------
(* Constraints sent with a key.                                            *)

parse_dest_constraint(d) ==
    /\ (d.from.hostname = None) = (d.from.keys = {}) /\ d.from.user = ""
    /\ d.to.hostname # None /\ d.to.keys # {}

ConstraintType == {"lifetime", "confirm", "sk-provider", "restrict-destination", "associated-certs"}

\* A list of destinations or certificates that is empty leaves the pointer NULL.
Sets(c) ==
    /\ c.type = "restrict-destination" => c.dest # <<>>
    /\ c.type = "associated-certs" => c.certs # {}

\* Constraint i is not accepted after those before it: it is already set, not
\* valid here (token: the request is about a PKCS#11 token), or malformed.
parse_key_constraint_extension(cs, i, token) ==
    LET c == cs[i]
    IN  \/ c.type \notin ConstraintType
        \/ \E j \in 1..(i - 1) : cs[j].type = c.type /\ Sets(cs[j])
        \/ c.type = (IF token THEN "sk-provider" ELSE "associated-certs")
        \/ c.type = "restrict-destination" /\ \E d \in Range(c.dest) : ~parse_dest_constraint(d)

\* What the constraints set, each at most once; nothing when one is refused.
parse_key_constraints(cs, token) ==
    LET set(type) == {c \in Range(cs) : c.type = type /\ Sets(c)}
        the(type) == CHOOSE c \in set(type) : TRUE
        certs == {i \in DOMAIN cs : cs[i].type = "associated-certs"}
    IN  [ok |-> \A i \in DOMAIN cs : ~parse_key_constraint_extension(cs, i, token),
         life |-> IF set("lifetime") = {} THEN Forever ELSE the("lifetime").life,
         confirm |-> set("confirm") # {},
         sk |-> IF set("sk-provider") = {} THEN None ELSE the("sk-provider").provider,
         dest |-> IF set("restrict-destination") = {} THEN <<>> ELSE the("restrict-destination").dest,
         certs |-> IF set("associated-certs") = {} THEN {} ELSE the("associated-certs").certs,
         cert_only |-> \E i \in certs : cs[i].only /\ \A j \in certs : j <= i]

Life(p) == IF p.life = Forever THEN DefaultLife ELSE p.life

----------------------------------------------------------------------------
(* The handlers: what a request makes of the table of identities.          *)

Identity(p, provider) ==
    [left |-> Life(p), confirm |-> p.confirm, dest |-> p.dest, provider |-> provider]

Held(tab, keys, id) == [k \in DOMAIN tab \cup keys |-> IF k \in keys THEN id ELSE tab[k]]

\* A provider library other than the built-in one must be allowed, and may
\* not be named over a connection that was forwarded.
ProviderRefused(s, provider) ==
    (socket_is_remote(s) /\ ~RemoteProviders) \/ provider # "allowed"

process_add_identity(tab, s, key, cs) ==
    LET p == parse_key_constraints(cs, FALSE)
    IN  IF \/ ~p.ok
           \/ p.sk # None /\ key \notin SkKeys
           \/ p.sk \notin {None, "internal"} /\ ProviderRefused(s, p.sk)
           \/ key \in DOMAIN tab /\ ~identity_permitted(tab[key], s, "")
        THEN tab
        ELSE Held(tab, {key}, Identity(p, IF key \in DOMAIN tab THEN tab[key].provider ELSE None))

process_remove_identity(tab, s, key) ==
    IF key \in DOMAIN tab /\ identity_permitted(tab[key], s, "")
    THEN Restrict(tab, DOMAIN tab \ {key}) ELSE tab

\* The token's keys that are not held yet, and certificates for them.
process_add_smartcard_key(tab, s, provider, cs) ==
    LET p == parse_key_constraints(cs, TRUE)
        certs == {CertOf[k] : k \in {j \in TokenKeys : CertOf[j] \in p.certs}}
        new == (certs \cup IF p.cert_only THEN {} ELSE TokenKeys) \ DOMAIN tab
    IN  IF ~p.ok \/ ProviderRefused(s, provider) THEN tab
        ELSE Held(tab, new, Identity(p, provider))

process_remove_smartcard_key(tab, provider) ==
    Restrict(tab, {k \in DOMAIN tab : tab[k].provider # provider})

\* b.good says that the host key's signature on the session id is good.  The
\* bindings recorded are looked at one by one, up to the first that decides.
\* An id that is too long leaves with r still 0 from the parser, before the
\* signature is verified: the client is told it is good, nothing is recorded.
process_ext_session_bind(s, b) ==
    LET t == [s EXCEPT !.attempted = TRUE]
        deciding == {i \in DOMAIN s.ids : ~s.ids[i].fwd \/ s.ids[i].sid = b.sid}
        first == CHOOSE i \in deciding : \A j \in deciding : i <= j
    IN  IF b.sid \in LongIds THEN [sock |-> t, ok |-> TRUE]
        ELSE IF ~b.good THEN [sock |-> t, ok |-> FALSE]
        ELSE IF deciding # {} THEN [sock |-> t, ok |-> s.ids[first].fwd /\ s.ids[first].key = b.key]
        ELSE IF Len(s.ids) >= MaxSessionIds THEN [sock |-> t, ok |-> FALSE]
        ELSE [sock |-> [t EXCEPT !.ids = Append(@, [key |-> b.key, sid |-> b.sid, fwd |-> b.fwd])],
              ok |-> TRUE]

\* Mutant: the session named in the data is not compared with the last bound.
DestinedAnySession(id, key, s, d) ==
    id.dest # <<>> =>
        /\ s.ids # <<>> /\ d.type = "userauth" /\ d.key = key
        /\ identity_permitted(id, s, d.user)

\* What process_sign_request2 checks before it asks the user.  The data is a
\* userauth request (with or without the host key), an SSHSIG or other.
Destined(id, key, s, d) ==
    LET n == Len(s.ids)
    IN  id.dest # <<>> =>
            /\ n > 0 /\ d.type = "userauth" /\ d.key = key
            /\ identity_permitted(id, s, d.user)
            /\ d.sid = s.ids[n].sid
            /\ n > 1 => d.hostkey # None
            /\ d.hostkey # None => d.hostkey = s.ids[n].key.name

\* What it checks afterwards.
Websafe(key, d) == key \in WebKeys => d.type = "sshsig" \/ (d.type = "userauth" /\ d.key = key)

----------------------------------------------------------------------------
(* The main loop.                                                          *)

NoTimeout == -1

\* Mutant: sleeps until the last key dies.
Latest(tab) ==
    LET lives == {NoTimeout} \cup {tab[k].left : k \in DOMAIN tab}
    IN  CHOOSE m \in lives : \A l \in lives : l <= m

\* reaper(): the keys whose time has come are dropped; the time to the next.
Reaped(tab) == Restrict(tab, {k \in DOMAIN tab : tab[k].left # 0})
Deadline(tab) ==
    LET lives == {tab[k].left : k \in DOMAIN tab} \ {Forever}
    IN  IF lives = {} THEN NoTimeout ELSE CHOOSE m \in lives : \A l \in lives : m <= l

\* Time goes by for everybody.
Older(tab) ==
    [k \in DOMAIN tab |-> [tab[k] EXCEPT !.left = IF @ > 0 THEN @ - 1 ELSE @]]

Init ==
    /\ idtab = <<>> /\ sock = [c \in Conns |-> Closed] /\ locked = None
    /\ loop = [pc |-> "prepare", timeout |-> NoTimeout]
    /\ keydrop = FALSE /\ last = NoSignature /\ bound = [c \in Conns |-> <<>>]

\* Signals are looked at, expired keys dropped, and the poll begins.
PreparePoll ==
    /\ loop.pc = "prepare"
    /\ idtab' = IF keydrop THEN <<>> ELSE Reaped(idtab)
    /\ loop' = [pc |-> "poll", timeout |-> Deadline(idtab')]
    /\ keydrop' = FALSE
    /\ UNCHANGED <<sock, locked, bound>> /\ last' = NoSignature

\* ppoll() returns, for a timeout, an event or a signal.
PollReturns ==
    /\ loop.pc = "poll"
    /\ idtab' = Reaped(idtab)
    /\ loop' = [loop EXCEPT !.pc = "handle"]
    /\ UNCHANGED <<sock, locked, keydrop, bound>> /\ last' = NoSignature

AfterPoll ==
    /\ loop.pc = "handle"
    /\ loop' = [loop EXCEPT !.pc = "prepare"]
    /\ UNCHANGED <<idtab, sock, locked, keydrop, bound>> /\ last' = NoSignature

\* A poll does not outlast its timeout.
Tick ==
    /\ loop.pc = "poll" /\ loop.timeout # 0
    /\ idtab' = Older(idtab)
    /\ loop' = [loop EXCEPT !.timeout = IF @ > 0 THEN @ - 1 ELSE @]
    /\ UNCHANGED <<sock, locked, keydrop, bound>> /\ last' = NoSignature

ReceiveSigusr1 ==
    /\ ~keydrop /\ keydrop' = TRUE
    /\ loop' = IF loop.pc = "poll" THEN [loop EXCEPT !.timeout = 0] ELSE loop
    /\ UNCHANGED <<idtab, sock, locked, bound>> /\ last' = NoSignature

----------------------------------------------------------------------------
(* What a connection may do while events are handled.                      *)

Handling(c) == loop.pc = "handle" /\ sock[c].open
Unlocked == locked = None

handle_socket_read(c) ==
    /\ loop.pc = "handle" /\ ~sock[c].open
    /\ sock' = [sock EXCEPT ![c] = [Closed EXCEPT !.open = TRUE]]
    /\ UNCHANGED <<idtab, locked, loop, keydrop, bound>> /\ last' = NoSignature

close_socket(c) ==
    /\ Handling(c)
    /\ sock' = [sock EXCEPT ![c] = Closed]
    /\ bound' = [bound EXCEPT ![c] = <<>>]
    /\ UNCHANGED <<idtab, locked, loop, keydrop>> /\ last' = NoSignature

\* Session binding is served even while the agent is locked.
ExtSessionBind(c, b) ==
    LET r == process_ext_session_bind(sock[c], b)
    IN  /\ Handling(c)
        /\ sock' = [sock EXCEPT ![c] = r.sock]
        /\ bound' = IF r.ok /\ b.sid \notin LongIds /\ \A i \in DOMAIN bound[c] : bound[c][i].sid # b.sid
                    THEN [bound EXCEPT ![c] = Append(@, b)] ELSE bound
        /\ UNCHANGED <<idtab, locked, loop, keydrop>> /\ last' = NoSignature

Lock(c, pw) ==
    /\ Handling(c) /\ Unlocked /\ pw # ""
    /\ locked' = pw
    /\ UNCHANGED <<idtab, sock, loop, keydrop, bound>> /\ last' = NoSignature

\* A wrong password costs time.
Unlock(c, pw) ==
    /\ Handling(c) /\ ~Unlocked /\ pw # ""
    /\ locked' = IF pw = locked THEN None ELSE locked
    /\ idtab' \in {idtab} \cup IF pw = locked THEN {} ELSE {Older(idtab)}
    /\ UNCHANGED <<sock, loop, keydrop, bound>> /\ last' = NoSignature

\* All other requests fail, or list nothing, while the agent is locked.
Update(c, tab) ==
    /\ Handling(c) /\ Unlocked
    /\ tab # idtab /\ Cardinality(DOMAIN tab) <= MaxHeld
    /\ idtab' = tab
    /\ UNCHANGED <<sock, locked, loop, keydrop, bound>> /\ last' = NoSignature

AddIdentity(c, key, cs) == Update(c, process_add_identity(idtab, sock[c], key, cs))
RemoveIdentity(c, key) == Update(c, process_remove_identity(idtab, sock[c], key))
RemoveAllIdentities(c) == Update(c, <<>>)
AddSmartcardKey(c, provider, cs) == Update(c, process_add_smartcard_key(idtab, sock[c], provider, cs))
RemoveSmartcardKey(c, provider) == Update(c, process_remove_smartcard_key(idtab, provider))

\* The signature of a constrained key, as it is remembered.
Signature(c, key, d) ==
    IF idtab[key].dest = <<>> \/ ~Websafe(key, d) THEN NoSignature
    ELSE [key |-> key, dest |-> idtab[key].dest, data |-> d, binds |-> bound[c]]

\* A signature is made, unless the user refuses; a confirmation may take its
\* time, also one for what is refused afterwards.
SignRequest(c, key, d) ==
    /\ Handling(c) /\ Unlocked /\ key \in DOMAIN idtab
    /\ Destined(idtab[key], key, sock[c], d)
    /\ idtab' \in {idtab} \cup IF idtab[key].confirm THEN {Older(idtab)} ELSE {}
    /\ last' \in {Signature(c, key, d)} \cup IF idtab[key].confirm THEN {NoSignature} ELSE {}
    /\ UNCHANGED <<sock, locked, loop, keydrop, bound>>

Bindings == [key : Range(HostKey), sid : Sessions, fwd : BOOLEAN, good : BOOLEAN]
\* A host signs its own session ids only.
Possible == {b \in Bindings : b.good => b.key = HostKey[b.sid]}

Data ==
    [type : {"userauth"}, key : Keys, user : Users, sid : Sessions,
     hostkey : {None} \cup {h.name : h \in Range(HostKey)}]
    \cup {[type |-> t] : t \in {"sshsig", "other"}}

Requests(c) ==
    \/ \E b \in Possible : ExtSessionBind(c, b)
    \/ \E pw \in Passwords : Lock(c, pw) \/ Unlock(c, pw)
    \/ \E key \in Keys : \/ \E cs \in KeyConstraints : AddIdentity(c, key, cs)
                         \/ RemoveIdentity(c, key)
                         \/ \E d \in Data : SignRequest(c, key, d)
    \/ RemoveAllIdentities(c)
    \/ \E provider \in {"allowed", "other"} :
          \/ \E cs \in KeyConstraints : AddSmartcardKey(c, provider, cs)
          \/ RemoveSmartcardKey(c, provider)

Next ==
    \/ PreparePoll \/ PollReturns \/ AfterPoll \/ Tick \/ ReceiveSigusr1
    \/ \E c \in Conns : handle_socket_read(c) \/ close_socket(c) \/ Requests(c)

Spec == Init /\ [][Next]_vars

----------------------------------------------------------------------------
(* Properties.                                                             *)

\* Whether the constraints have a hop from one host to the next for user.
Allows(dest, from, to, user) ==
    \E d \in Range(dest) :
        /\ IF from = Origin THEN d.from.hostname = None ELSE match_key_hop(from, d.from)
        /\ match_key_hop(to, d.to)
        /\ user = "" \/ d.to.user \in {"", user}

\* A destination-constrained key signs nothing but a login to the host of the
\* session the connection was bound to last, and only when the connection
\* was relayed through all other hosts it was bound to, each hop of which
\* the constraints allow (identity_permitted, process_sign_request2,
\* process_ext_session_bind).  Bound to means: told that the binding is good,
\* of a session id that is not too long.  Those that are too long are
\* answered likewise, and add nothing to what the connection may sign.
DestinationHonoured ==
    last # NoSignature =>
        LET p == last.binds
            n == Len(p)
            host(i) == IF i = 0 THEN Origin ELSE HostKey[p[i].sid]
        IN  /\ n > 0 /\ last.data.type = "userauth"
            /\ last.data.key = last.key /\ last.data.sid = p[n].sid
            /\ \A i \in 1..n :
                  /\ p[i].fwd = (i < n)
                  /\ Allows(last.dest, host(i-1), host(i), IF i = n THEN last.data.user ELSE "")

\* A key that is hidden from a forwarded connection, and so cannot be listed,
\* removed or replaced there, is not one the connection could come to sign
\* with once it is bound to a further session (identity_permitted: "This
\* hides keys that are allowed to be used to authenticate *to* a host but not
\* permitted for *use* beyond it").
HiddenIsUnusable ==
    \A c \in Conns : \A k \in DOMAIN idtab :
        sock[c].ids # <<>> /\ ~identity_permitted(idtab[k], sock[c], "") =>
            \A b \in {x \in Possible : x.good} : \A u \in Users :
                ~Destined(idtab[k], k, process_ext_session_bind(sock[c], b).sock,
                          [type |-> "userauth", key |-> k, user |-> u, sid |-> b.sid,
                           hostkey |-> b.key.name])

\* The agent does not sleep past the death of any of its keys (reaper,
\* prepare_poll).
KeysDieOnTime ==
    loop.pc = "poll" => \A k \in DOMAIN idtab : idtab[k].left = 0 => loop.timeout = 0
=====
