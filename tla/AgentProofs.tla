---------------------------- MODULE AgentProofs ----------------------------
(***************************************************************************)
(* Proofs about Agent, for any keys, hosts, sessions, connections and      *)
(* constraints: a constrained key signs only along a path its constraints  *)
(* allow, a key hidden from a connection is one it cannot come to use, and *)
(* the agent does not sleep past a key's death.                            *)
(*                                                                         *)
(* The first needs that the bindings a connection records are those it was *)
(* told are good, in the same order (BoundInv); the last that the timeout  *)
(* of the poll is a lower bound of every lifetime (SleepInv).              *)
(***************************************************************************)
EXTENDS Agent, SequenceTheorems, WellFoundedInduction, TLAPS

Record == [key : Range(HostKey), sid : Sessions, fwd : BOOLEAN]
Entry == [open : BOOLEAN, ids : Seq(Record), attempted : BOOLEAN]
Time == Nat \cup {Forever}

\* Every identity has a time to live, or none.
Timed(tab) == \A k \in DOMAIN tab : "left" \in DOMAIN tab[k] /\ tab[k].left \in Time

TypeInv ==
    /\ Timed(idtab)
    /\ sock \in [Conns -> Entry]
    /\ loop \in [pc : {"prepare", "poll", "handle"}, timeout : Time]
    /\ bound \in [Conns -> Seq(Bindings)]

\* What the connection has recorded is what it was told is good.
BoundInv ==
    \A c \in Conns :
        /\ Len(sock[c].ids) = Len(bound[c])
        /\ \A i \in 1..Len(bound[c]) :
              /\ sock[c].ids[i].sid = bound[c][i].sid /\ sock[c].ids[i].fwd = bound[c][i].fwd
              /\ sock[c].ids[i].key = HostKey[bound[c][i].sid]
        /\ ~sock[c].open => bound[c] = <<>>

\* No key dies before the poll ends.
SleepInv ==
    loop.pc = "poll" => \A k \in DOMAIN idtab :
        idtab[k].left # Forever => loop.timeout \in Nat /\ loop.timeout <= idtab[k].left

----------------------------------------------------------------------------
(* The table of identities. *)

\* The constraints of a request give the new identity its time.
LEMMA LifeTime ==
    ASSUME NEW cs \in KeyConstraints, NEW token
    PROVE  Life(parse_key_constraints(cs, token)) \in Time
<1> DEFINE p == parse_key_constraints(cs, token)
           set == {c \in Range(cs) : c.type = "lifetime" /\ Sets(c)}
           the == CHOOSE c \in set : TRUE
<1>1. p.life = IF set = {} THEN Forever ELSE the.life
  BY DEF parse_key_constraints
<1>2. set # {} => the \in set
  OBVIOUS
<1>3. set # {} => the.life \in Nat
  <2> SUFFICES ASSUME set # {} PROVE the.life \in Nat
    OBVIOUS
  <2>1. the \in Range(cs) /\ the.type = "lifetime"
    BY <1>2
  <2>2. PICK i \in DOMAIN cs : the = cs[i]
    BY <2>1 DEF Range
  <2> QED BY <2>1, <2>2, AgentAssumption
<1> HIDE DEF p, set, the
<1>4. DefaultLife \in Time
  BY AgentAssumption DEF Time
<1>5. p.life \in Time
  BY <1>1, <1>3 DEF Time
<1> QED BY <1>4, <1>5 DEF Life, p

\* A key that is added, removed or aged.
LEMMA TableTimed ==
    ASSUME NEW tab, Timed(tab)
    PROVE  /\ \A s, key : \A cs \in KeyConstraints : Timed(process_add_identity(tab, s, key, cs))
           /\ \A s, key : Timed(process_remove_identity(tab, s, key))
           /\ \A s, pr : \A cs \in KeyConstraints : Timed(process_add_smartcard_key(tab, s, pr, cs))
           /\ \A pr : Timed(process_remove_smartcard_key(tab, pr))
           /\ Timed(Reaped(tab)) /\ Timed(Older(tab)) /\ Timed(<<>>)
<1>1. ASSUME NEW s, NEW key, NEW cs \in KeyConstraints PROVE Timed(process_add_identity(tab, s, key, cs))
  <2> DEFINE p == parse_key_constraints(cs, FALSE)
             id == Identity(p, IF key \in DOMAIN tab THEN tab[key].provider ELSE None)
             new == Held(tab, {key}, id)
  <2>1. process_add_identity(tab, s, key, cs) \in {tab, new}
    BY DEF process_add_identity
  <2>2. id.left \in Time /\ "left" \in DOMAIN id
    <3>1. id.left = Life(p) /\ "left" \in DOMAIN id
      BY DEF Identity
    <3> QED BY <3>1, LifeTime
  <2> HIDE DEF id
  <2>3. Timed(new)
    BY <2>2 DEF Timed, Held
  <2> QED BY <2>1, <2>3
<1>2. ASSUME NEW s, NEW key PROVE Timed(process_remove_identity(tab, s, key))
  BY DEF process_remove_identity, Restrict, Timed
<1>3. ASSUME NEW s, NEW pr, NEW cs \in KeyConstraints PROVE Timed(process_add_smartcard_key(tab, s, pr, cs))
  <2> DEFINE p == parse_key_constraints(cs, TRUE)
             certs == {CertOf[k] : k \in {j \in TokenKeys : CertOf[j] \in p.certs}}
             keys == (certs \cup IF p.cert_only THEN {} ELSE TokenKeys) \ DOMAIN tab
             new == Held(tab, keys, Identity(p, pr))
  <2>1. process_add_smartcard_key(tab, s, pr, cs) \in {tab, new}
    BY DEF process_add_smartcard_key
  <2>2. Identity(p, pr).left \in Time /\ "left" \in DOMAIN Identity(p, pr)
    BY LifeTime DEF Identity
  <2> HIDE DEF keys, p
  <2>3. Timed(new)
    BY <2>2 DEF Timed, Held
  <2> QED BY <2>1, <2>3
<1>4. ASSUME NEW pr PROVE Timed(process_remove_smartcard_key(tab, pr))
  BY DEF process_remove_smartcard_key, Restrict, Timed
<1>5. Timed(Reaped(tab)) /\ Timed(<<>>)
  BY DEF Reaped, Restrict, Timed
<1>6. Timed(Older(tab))
  <2> SUFFICES ASSUME NEW k \in DOMAIN tab
               PROVE  "left" \in DOMAIN Older(tab)[k] /\ Older(tab)[k].left \in Time
    BY DEF Older, Timed
  <2>1. (tab[k].left \in Nat \/ tab[k].left = -1) /\ "left" \in DOMAIN tab[k]
    BY DEF Timed, Time, Forever
  <2> DEFINE t == IF tab[k].left > 0 THEN tab[k].left - 1 ELSE tab[k].left
  <2>2. t \in Nat \/ t = -1
    BY <2>1
  <2>3. Older(tab)[k] = [tab[k] EXCEPT !.left = t]
    BY DEF Older
  <2> HIDE DEF t
  <2> QED BY <2>1, <2>2, <2>3 DEF Time, Forever
<1> QED BY <1>1, <1>2, <1>3, <1>4, <1>5, <1>6

\* The deadline is the least of the times left.
LEMMA DeadlineLeast ==
    ASSUME NEW tab, Timed(tab)
    PROVE  /\ Deadline(tab) \in Time
           /\ \A k \in DOMAIN tab : tab[k].left # Forever =>
                 Deadline(tab) \in Nat /\ Deadline(tab) <= tab[k].left
<1> DEFINE lives == {tab[k].left : k \in DOMAIN tab} \ {Forever}
           least(x) == x \in lives /\ \A l \in lives : x <= l
<1>1. lives \subseteq Nat
  BY DEF Timed, Time
<1>2. CASE lives = {}
  <2>1. Deadline(tab) = Forever
    BY <1>2 DEF Deadline, NoTimeout, Forever
  <2> QED BY <1>2, <2>1 DEF Time
<1>3. CASE lives # {}
  <2>1. PICK x \in lives : \A y \in lives : <<y, x>> \notin OpToRel(<, Nat)
    BY <1>1, <1>3, NatLessThanWellFounded, WFMin
  <2>2. \A y \in lives : ~(y < x)
    BY <1>1, <2>1 DEF OpToRel
  <2>3. least(x)
    BY <1>1, <2>2
  <2>4. Deadline(tab) = CHOOSE y \in lives : \A l \in lives : y <= l
    BY <1>3 DEF Deadline
  <2>5. least(Deadline(tab))
    BY <2>3, <2>4
  <2>6. \A k \in DOMAIN tab : tab[k].left # Forever => tab[k].left \in lives
    OBVIOUS
  <2> HIDE DEF lives
  <2> QED BY <1>1, <2>5, <2>6 DEF Time
<1> QED BY <1>2, <1>3

----------------------------------------------------------------------------
(* The path a connection is bound to. *)

\* What a hop permits to one user it permits when nobody asks for whom, and
\* then it also leads beyond the host it comes from.
LEMMA PermittedWider ==
    ASSUME NEW from, NEW to, NEW dest, NEW user, permitted_by_dest_constraints(from, to, dest, user)
    PROVE  /\ permitted_by_dest_constraints(from, to, dest, "")
           /\ permitted_by_dest_constraints(from, Anywhere, dest, "")
BY DEF permitted_by_dest_constraints

\* A binding leaves the connection as it is or appends itself; it is told it
\* is good when it is appended, or when its session is already recorded.
LEMMA BindFacts ==
    ASSUME NEW s \in Entry, NEW b \in Possible
    PROVE  LET r == process_ext_session_bind(s, b)
               new == [key |-> b.key, sid |-> b.sid, fwd |-> b.fwd]
           IN  /\ r.sock \in Entry /\ r.sock.open = s.open
               /\ \/ /\ r.sock.ids = s.ids
                     /\ r.ok => b.sid \in LongIds \/ \E i \in DOMAIN s.ids : s.ids[i].sid = b.sid
                  \/ /\ r.sock.ids = Append(s.ids, new) /\ r.ok /\ b.good /\ new \in Record /\ b.sid \notin LongIds
                     /\ \A i \in DOMAIN s.ids : s.ids[i].sid # b.sid
<1> DEFINE r == process_ext_session_bind(s, b)
           new == [key |-> b.key, sid |-> b.sid, fwd |-> b.fwd]
           t == [s EXCEPT !.attempted = TRUE]
           deciding == {i \in DOMAIN s.ids : ~s.ids[i].fwd \/ s.ids[i].sid = b.sid}
           first == CHOOSE i \in deciding : \A j \in deciding : i <= j
<1>1. s.ids \in Seq(Record) /\ new \in Record /\ b.good \in BOOLEAN
  BY DEF Entry, Possible, Bindings, Record
<1>2. t \in Entry /\ t.ids = s.ids /\ t.open = s.open
  BY DEF Entry
<1>3. \/ b.sid \in LongIds /\ r = [sock |-> t, ok |-> TRUE]
      \/ deciding # {} /\ r = [sock |-> t, ok |-> s.ids[first].fwd /\ s.ids[first].key = b.key]
      \/ r = [sock |-> t, ok |-> FALSE]
      \/ deciding = {} /\ b.good /\ b.sid \notin LongIds /\ r = [sock |-> [t EXCEPT !.ids = Append(@, new)], ok |-> TRUE]
  BY <1>1 DEF process_ext_session_bind
<1>4. deciding # {} => first \in deciding
  <2> SUFFICES ASSUME deciding # {} PROVE first \in deciding
    OBVIOUS
  <2>1. deciding \subseteq Nat
    BY <1>1
  <2>2. PICK x \in deciding : \A y \in deciding : <<y, x>> \notin OpToRel(<, Nat)
    BY <2>1, NatLessThanWellFounded, WFMin
  <2> HIDE DEF deciding
  <2>3. \A y \in deciding : ~(y < x)
    BY <2>1, <2>2 DEF OpToRel
  <2>4. \A y \in deciding : x <= y
    BY <2>1, <2>3
  <2> QED BY <2>4
<1> SUFFICES /\ r.sock \in Entry /\ r.sock.open = s.open
             /\ \/ /\ r.sock.ids = s.ids
                   /\ r.ok => b.sid \in LongIds \/ \E i \in DOMAIN s.ids : s.ids[i].sid = b.sid
                \/ /\ r.sock.ids = Append(s.ids, new) /\ r.ok /\ b.good /\ new \in Record /\ b.sid \notin LongIds
                   /\ \A i \in DOMAIN s.ids : s.ids[i].sid # b.sid
  OBVIOUS
<1> HIDE DEF r, t, new, first
<1>5. CASE deciding # {} /\ r = [sock |-> t, ok |-> s.ids[first].fwd /\ s.ids[first].key = b.key]
  <2>1. first \in DOMAIN s.ids /\ (s.ids[first].fwd => s.ids[first].sid = b.sid)
    BY <1>4, <1>5
  <2> QED BY <1>2, <1>5, <2>1
<1>6. CASE r = [sock |-> t, ok |-> FALSE]
  BY <1>2, <1>6
<1>8. CASE b.sid \in LongIds /\ r = [sock |-> t, ok |-> TRUE]
  BY <1>2, <1>8
<1>7. CASE deciding = {} /\ b.good /\ b.sid \notin LongIds /\ r = [sock |-> [t EXCEPT !.ids = Append(@, new)], ok |-> TRUE]
  <2>1. \A i \in DOMAIN s.ids : s.ids[i].sid # b.sid
    BY <1>7
  <2> DEFINE o == Append(s.ids, new)
  <2>2. o \in Seq(Record)
    BY <1>1, AppendProperties
  <2>3. r.sock = [t EXCEPT !.ids = o] /\ r.ok
    BY <1>2, <1>7
  <2> HIDE DEF o, deciding
  <2>4. r.sock \in Entry /\ r.sock.ids = o /\ r.sock.open = s.open
    BY <1>2, <2>2, <2>3 DEF Entry
  <2> QED BY <1>1, <1>7, <2>1, <2>3, <2>4 DEF o
<1> QED BY <1>3, <1>5, <1>6, <1>7, <1>8

\* If one more binding makes a key usable, the key was visible before it.
LEMMA UsableWasVisible ==
    ASSUME NEW s \in Entry, s.ids # <<>>, NEW b \in Possible, NEW id, NEW k, NEW d,
           Destined(id, k, process_ext_session_bind(s, b).sock, d)
    PROVE  identity_permitted(id, s, "")
<1> DEFINE t == process_ext_session_bind(s, b).sock
           n == Len(s.ids)
           fs(i) == IF i = 1 THEN Origin ELSE s.ids[i-1].key
           ft(i) == IF i = 1 THEN Origin ELSE t.ids[i-1].key
           P(i) == permitted_by_dest_constraints(fs(i), s.ids[i].key, id.dest, "")
<1> SUFFICES ASSUME id.dest # <<>> PROVE identity_permitted(id, s, "")
  BY DEF identity_permitted
<1>1. s.ids \in Seq(Record) /\ n \in Nat \ {0}
  BY EmptySeq DEF Entry
<1>2. \/ t.ids = s.ids
      \/ \E new \in Record : t.ids = Append(s.ids, new)
  BY BindFacts
<1>3. identity_permitted(id, t, d.user) /\ Len(t.ids) \in Nat \ {0}
  <2>1. t.ids \in Seq(Record)
    BY BindFacts DEF Entry
  <2> QED BY <2>1 DEF Destined
<1> HIDE DEF t
<1>4. /\ \A i \in 1..Len(t.ids) :
            /\ IF i = Len(t.ids) THEN ~(t.ids[Len(t.ids)].fwd /\ d.user # "") ELSE t.ids[i].fwd
            /\ permitted_by_dest_constraints(ft(i), t.ids[i].key, id.dest, IF i = Len(t.ids) THEN d.user ELSE "")
      /\ t.ids[Len(t.ids)].fwd /\ d.user = "" =>
            permitted_by_dest_constraints(t.ids[Len(t.ids)].key, Anywhere, id.dest, "")
  BY <1>3 DEF identity_permitted
<1>v. ASSUME \A i \in 1..n : (i # n => s.ids[i].fwd) /\ P(i),
             s.ids[n].fwd => permitted_by_dest_constraints(s.ids[n].key, Anywhere, id.dest, "")
      PROVE  identity_permitted(id, s, "")
  <2>1. \A i \in 1..n :
          /\ IF i = n THEN ~(s.ids[n].fwd /\ "" # "") ELSE s.ids[i].fwd
          /\ permitted_by_dest_constraints(fs(i), s.ids[i].key, id.dest, IF i = n THEN "" ELSE "")
    <3> TAKE i \in 1..n
    <3>1. IF i = n THEN ~(s.ids[n].fwd /\ "" # "") ELSE s.ids[i].fwd
      BY <1>v
    <3>2. P(i)
      <4> HIDE DEF P, n
      <4> QED BY <1>v
    <3>3. (IF i = n THEN "" ELSE "") = ""
      OBVIOUS
    <3> QED BY <3>1, <3>2, <3>3
  <2>2. n > 0
    BY <1>1
  <2> QED BY <1>v, <2>1, <2>2 DEF identity_permitted
<1>5. CASE t.ids = s.ids
  <2>1. \A i \in 1..n : /\ i # n => s.ids[i].fwd
                        /\ permitted_by_dest_constraints(fs(i), s.ids[i].key, id.dest, "")
    BY <1>1, <1>4, <1>5, PermittedWider
  <2>2. s.ids[n].fwd => permitted_by_dest_constraints(s.ids[n].key, Anywhere, id.dest, "")
    <3>1. n \in 1..n
      BY <1>1
    <3> QED BY <1>4, <1>5, <3>1
  <2> QED BY <1>v, <2>1, <2>2
<1>6. CASE \E new \in Record : t.ids = Append(s.ids, new)
  <2>1. PICK new \in Record : t.ids = Append(s.ids, new)
    BY <1>6
  <2>2. Len(t.ids) = n + 1 /\ \A i \in 1..n : t.ids[i] = s.ids[i]
    BY <1>1, <2>1, AppendProperties
  <2>3. \A i \in 1..n : i \in 1..(n + 1) /\ i # n + 1 /\ (i # 1 => i - 1 \in 1..n)
    BY <1>1
  <2>4. \A i \in 1..n : ft(i) = fs(i)
    BY <1>1, <2>2, <2>3
  <2>5. \A i \in 1..n : s.ids[i].fwd /\ permitted_by_dest_constraints(fs(i), s.ids[i].key, id.dest, "")
    BY <1>4, <2>2, <2>3, <2>4
  <2>6. permitted_by_dest_constraints(s.ids[n].key, Anywhere, id.dest, "")
    <3>1. n + 1 \in 1..(n + 1) /\ n + 1 # 1 /\ n \in 1..n /\ (n + 1) - 1 = n
      BY <1>1
    <3>2. permitted_by_dest_constraints(t.ids[n].key, t.ids[n+1].key, id.dest, d.user)
      BY <1>4, <2>2, <3>1
    <3> QED BY <2>2, <3>1, <3>2, PermittedWider
  <2> QED BY <1>v, <2>5, <2>6
<1> QED BY <1>2, <1>5, <1>6

----------------------------------------------------------------------------
(* The invariant. *)

IInv == TypeInv /\ BoundInv /\ SleepInv /\ DestinationHonoured

\* The invariant holds when the agent starts.
LEMMA InitInv == Init => IInv
<1> SUFFICES ASSUME Init PROVE IInv
  OBVIOUS
<1>1. /\ idtab = <<>> /\ sock = [c \in Conns |-> Closed] /\ bound = [c \in Conns |-> <<>>]
      /\ loop = [pc |-> "prepare", timeout |-> NoTimeout] /\ last = NoSignature
  BY DEF Init
<1>2. Closed \in Entry /\ Closed.ids = <<>> /\ Len(<<>>) = 0 /\ <<>> \in Seq(Bindings)
  BY DEF Closed, Entry
<1>3. TypeInv
  BY <1>1, <1>2 DEF TypeInv, Timed, Time, NoTimeout, Forever
<1>4. BoundInv
  <2> SUFFICES ASSUME NEW c \in Conns
               PROVE  /\ Len(sock[c].ids) = Len(bound[c])
                      /\ \A i \in 1..Len(bound[c]) : FALSE
                      /\ bound[c] = <<>>
    BY DEF BoundInv
  <2>1. sock[c].ids = <<>> /\ bound[c] = <<>>
    BY <1>1, <1>2
  <2> QED BY <1>2, <2>1
<1>5. SleepInv /\ DestinationHonoured
  BY <1>1 DEF SleepInv, DestinationHonoured
<1> QED BY <1>3, <1>4, <1>5 DEF IInv

\* A step that makes no signature and leaves the connections alone.
LEMMA TableStep ==
    ASSUME IInv, Timed(idtab'), UNCHANGED <<sock, bound>>, last' = NoSignature,
           loop' \in [pc : {"prepare", "poll", "handle"}, timeout : Time], SleepInv'
    PROVE  IInv'
<1>1. TypeInv'
  BY DEF IInv, TypeInv
<1>2. BoundInv'
  BY DEF IInv, BoundInv
<1>3. DestinationHonoured'
  BY DEF DestinationHonoured
<1> QED BY <1>1, <1>2, <1>3 DEF IInv

\* Time goes by while a key waits: it loses at most what the poll does.
LEMMA OlderFacts ==
    ASSUME NEW tab, Timed(tab), NEW k \in DOMAIN tab
    PROVE  /\ k \in DOMAIN Older(tab)
           /\ tab[k].left = Forever => Older(tab)[k].left = Forever
           /\ tab[k].left \in Nat => Older(tab)[k].left = IF tab[k].left > 0 THEN tab[k].left - 1 ELSE 0
<1>1. tab[k].left \in Nat \/ tab[k].left = -1
  BY DEF Timed, Time, Forever
<1>2. Older(tab)[k] = [tab[k] EXCEPT !.left = IF tab[k].left > 0 THEN tab[k].left - 1 ELSE tab[k].left]
  BY DEF Older
<1>3. "left" \in DOMAIN tab[k]
  BY DEF Timed
<1>4. Older(tab)[k].left = IF tab[k].left > 0 THEN tab[k].left - 1 ELSE tab[k].left
  BY <1>2, <1>3
<1> QED BY <1>1, <1>4 DEF Forever, Older

\* The main loop keeps the invariant.
LEMMA LoopInv == IInv /\ (PreparePoll \/ PollReturns \/ AfterPoll \/ Tick \/ ReceiveSigusr1) => IInv'
<1> SUFFICES ASSUME IInv, PreparePoll \/ PollReturns \/ AfterPoll \/ Tick \/ ReceiveSigusr1 PROVE IInv'
  OBVIOUS
<1>0. /\ Timed(idtab) /\ SleepInv /\ loop \in [pc : {"prepare", "poll", "handle"}, timeout : Time]
  BY DEF IInv, TypeInv
<1>1. CASE PreparePoll
  <2>1. Timed(idtab')
    BY <1>0, <1>1, TableTimed DEF PreparePoll
  <2>2. loop' = [pc |-> "poll", timeout |-> Deadline(idtab')] /\ last' = NoSignature /\ UNCHANGED <<sock, bound>>
    BY <1>1 DEF PreparePoll
  <2>3. /\ Deadline(idtab') \in Time
        /\ \A k \in DOMAIN idtab' : idtab'[k].left # Forever =>
              Deadline(idtab') \in Nat /\ Deadline(idtab') <= idtab'[k].left
    BY <2>1, DeadlineLeast
  <2>4. SleepInv' /\ loop' \in [pc : {"prepare", "poll", "handle"}, timeout : Time]
    BY <2>2, <2>3 DEF SleepInv
  <2> QED BY <2>1, <2>2, <2>4, TableStep
<1>2. CASE PollReturns
  <2>1. Timed(idtab') /\ loop' = [loop EXCEPT !.pc = "handle"] /\ last' = NoSignature /\ UNCHANGED <<sock, bound>>
    BY <1>0, <1>2, TableTimed DEF PollReturns
  <2>2. loop'.pc = "handle" /\ loop' \in [pc : {"prepare", "poll", "handle"}, timeout : Time]
    BY <1>0, <2>1
  <2> QED BY <2>1, <2>2, TableStep DEF SleepInv
<1>3. CASE AfterPoll
  <2>1. Timed(idtab') /\ loop' = [loop EXCEPT !.pc = "prepare"] /\ last' = NoSignature /\ UNCHANGED <<sock, bound>>
    BY <1>0, <1>3 DEF AfterPoll, Timed
  <2>2. loop'.pc = "prepare" /\ loop' \in [pc : {"prepare", "poll", "handle"}, timeout : Time]
    BY <1>0, <2>1
  <2> QED BY <2>1, <2>2, TableStep DEF SleepInv
<1>4. CASE Tick
  <2> DEFINE t == IF loop.timeout > 0 THEN loop.timeout - 1 ELSE loop.timeout
  <2>1. /\ loop.pc = "poll" /\ loop.timeout # 0 /\ idtab' = Older(idtab) /\ last' = NoSignature
        /\ loop' = [loop EXCEPT !.timeout = t] /\ UNCHANGED <<sock, bound>>
    BY <1>4 DEF Tick
  <2>2. Timed(idtab')
    BY <1>0, <2>1, TableTimed
  <2>3. loop.timeout \in Nat \ {0} \/ loop.timeout = -1
    BY <1>0, <2>1 DEF Time, Forever
  <2>4. t \in Time /\ (loop.timeout \in Nat => t \in Nat /\ t = loop.timeout - 1)
    BY <2>3 DEF Time, Forever
  <2> HIDE DEF t
  <2>5. loop'.timeout = t /\ loop' \in [pc : {"prepare", "poll", "handle"}, timeout : Time]
    BY <1>0, <2>1, <2>4
  <2>6. SleepInv'
    <3> SUFFICES ASSUME NEW k \in DOMAIN idtab', idtab'[k].left # Forever
                 PROVE  loop'.timeout \in Nat /\ loop'.timeout <= idtab'[k].left
      BY DEF SleepInv
    <3>1. k \in DOMAIN idtab
      BY <2>1 DEF Older
    <3>2. idtab[k].left \in Nat /\ idtab[k].left # Forever
      BY <1>0, <2>1, <3>1, OlderFacts DEF Timed, Time, Forever
    <3>3. loop.timeout \in Nat /\ loop.timeout <= idtab[k].left
      BY <1>0, <2>1, <3>1, <3>2 DEF SleepInv
    <3>4. idtab'[k].left = IF idtab[k].left > 0 THEN idtab[k].left - 1 ELSE 0
      BY <1>0, <2>1, <3>1, <3>2, OlderFacts
    <3> QED BY <2>3, <2>4, <2>5, <3>2, <3>3, <3>4
  <2> QED BY <2>1, <2>2, <2>5, <2>6, TableStep
<1>5. CASE ReceiveSigusr1
  <2>1. /\ UNCHANGED <<idtab, sock, bound>> /\ last' = NoSignature
        /\ loop' = IF loop.pc = "poll" THEN [loop EXCEPT !.timeout = 0] ELSE loop
    BY <1>5 DEF ReceiveSigusr1
  <2>2. loop' \in [pc : {"prepare", "poll", "handle"}, timeout : Time] /\ (loop'.pc = "poll" => loop'.timeout = 0)
    <3>1. 0 \in Time
      BY DEF Time
    <3> QED BY <1>0, <2>1, <3>1
  <2>3. SleepInv'
    BY <1>0, <2>1, <2>2 DEF SleepInv, Timed, Time
  <2>4. Timed(idtab')
    BY <1>0, <2>1 DEF Timed
  <2> QED BY <2>1, <2>2, <2>3, <2>4, TableStep
<1> QED BY <1>1, <1>2, <1>3, <1>4, <1>5

\* A connection that is opened or closed, or told of a session, keeps the
\* invariant.
LEMMA SocketInv ==
    ASSUME IInv, NEW c \in Conns,
           handle_socket_read(c) \/ close_socket(c) \/ \E b \in Possible : ExtSessionBind(c, b)
    PROVE  IInv'
<1>1. /\ loop.pc = "handle" /\ last' = NoSignature /\ UNCHANGED <<idtab, loop>>
  BY DEF handle_socket_read, close_socket, ExtSessionBind, Handling
<1>2. sock \in [Conns -> Entry] /\ bound \in [Conns -> Seq(Bindings)] /\ BoundInv
  BY DEF IInv, TypeInv
<1>3. SleepInv' /\ DestinationHonoured' /\ Timed(idtab') /\ loop' \in [pc : {"prepare", "poll", "handle"}, timeout : Time]
  BY <1>1 DEF SleepInv, DestinationHonoured, IInv, TypeInv, Timed
<1> SUFFICES sock' \in [Conns -> Entry] /\ bound' \in [Conns -> Seq(Bindings)] /\ BoundInv'
  BY <1>3 DEF IInv, TypeInv
<1> DEFINE Fits(ids, bs, open) ==
             /\ Len(ids) = Len(bs)
             /\ \A i \in 1..Len(bs) : ids[i].sid = bs[i].sid /\ ids[i].fwd = bs[i].fwd /\ ids[i].key = HostKey[bs[i].sid]
             /\ ~open => bs = <<>>
<1>4. \A x \in Conns : Fits(sock[x].ids, bound[x], sock[x].open)
  BY <1>2 DEF BoundInv
<1>5. ASSUME NEW e \in Entry, NEW bs \in Seq(Bindings), sock' = [sock EXCEPT ![c] = e],
             bound' = [bound EXCEPT ![c] = bs], Fits(e.ids, bs, e.open)
      PROVE  sock' \in [Conns -> Entry] /\ bound' \in [Conns -> Seq(Bindings)] /\ BoundInv'
  <2>1. sock' \in [Conns -> Entry] /\ bound' \in [Conns -> Seq(Bindings)]
    BY <1>2, <1>5
  <2>2. \A x \in Conns : Fits(sock'[x].ids, bound'[x], sock'[x].open)
    <3> HIDE DEF Fits
    <3> QED BY <1>2, <1>4, <1>5
  <2> QED BY <2>1, <2>2 DEF BoundInv
<1> DEFINE none == <<>>
<1>6. Len(none) = 0 /\ none \in Seq(Bindings) /\ none \in Seq(Record) /\ \A i \in 1..Len(none) : FALSE
  OBVIOUS
<1> HIDE DEF none
<1>7. CASE handle_socket_read(c)
  <2> DEFINE e == [Closed EXCEPT !.open = TRUE]
  <2>1. e \in Entry /\ e.ids = none
    BY <1>6 DEF Closed, Entry, none
  <2>2. sock' = [sock EXCEPT ![c] = e] /\ bound' = bound /\ ~sock[c].open
    BY <1>7 DEF handle_socket_read
  <2>3. bound[c] = none
    BY <1>4, <2>2 DEF none
  <2>4. bound' = [bound EXCEPT ![c] = none]
    BY <1>2, <2>2, <2>3
  <2>5. Fits(e.ids, none, e.open)
    BY <1>6, <2>1 DEF Closed
  <2> HIDE DEF e, Fits
  <2> QED BY <1>5, <1>6, <2>1, <2>2, <2>4, <2>5
<1>8. CASE close_socket(c)
  <2>1. sock' = [sock EXCEPT ![c] = Closed] /\ bound' = [bound EXCEPT ![c] = none]
    BY <1>8 DEF close_socket, none
  <2>2. Closed \in Entry /\ Closed.ids = none
    BY <1>6 DEF Closed, Entry, none
  <2>3. Fits(Closed.ids, none, Closed.open)
    BY <1>6, <2>2 DEF none
  <2> HIDE DEF Fits
  <2> QED BY <1>5, <1>6, <2>1, <2>2, <2>3
<1>9. CASE \E b \in Possible : ExtSessionBind(c, b)
  <2>0. PICK b \in Possible : ExtSessionBind(c, b)
    BY <1>9
  <2> DEFINE s == sock[c]
             r == process_ext_session_bind(s, b)
             new == [key |-> b.key, sid |-> b.sid, fwd |-> b.fwd]
             bs == bound[c]
             fresh == \A i \in DOMAIN bs : bs[i].sid # b.sid
  <2>1. /\ s.open /\ sock' = [sock EXCEPT ![c] = r.sock]
        /\ bound' = IF r.ok /\ b.sid \notin LongIds /\ fresh THEN [bound EXCEPT ![c] = Append(bs, b)] ELSE bound
    BY <2>0 DEF ExtSessionBind, Handling
  <2>2. s \in Entry /\ bs \in Seq(Bindings) /\ s.ids \in Seq(Record) /\ Fits(s.ids, bs, s.open)
    BY <1>2, <1>4 DEF Entry
  <2>3. /\ r.sock \in Entry /\ r.sock.open = s.open
        /\ \/ /\ r.sock.ids = s.ids
              /\ r.ok => b.sid \in LongIds \/ \E i \in DOMAIN s.ids : s.ids[i].sid = b.sid
           \/ /\ r.sock.ids = Append(s.ids, new) /\ r.ok /\ b.good /\ new \in Record /\ b.sid \notin LongIds
              /\ \A i \in DOMAIN s.ids : s.ids[i].sid # b.sid
    BY <2>2, BindFacts
  <2>4. DOMAIN s.ids = 1..Len(s.ids) /\ DOMAIN bs = 1..Len(bs) /\ Len(bs) = Len(s.ids) /\ Len(bs) \in Nat
    BY <2>2
  <2> HIDE DEF r
  <2>5. CASE r.sock.ids = s.ids /\ (r.ok => b.sid \in LongIds \/ \E i \in DOMAIN s.ids : s.ids[i].sid = b.sid)
    <3>1. r.ok => b.sid \in LongIds \/ ~fresh
      BY <2>2, <2>4, <2>5
    <3>2. bound' = [bound EXCEPT ![c] = bs]
      BY <1>2, <2>1, <3>1
    <3> HIDE DEF Fits, s, bs
    <3> QED BY <1>5, <2>1, <2>2, <2>3, <2>5, <3>2
  <2>6. CASE /\ r.sock.ids = Append(s.ids, new) /\ r.ok /\ b.good /\ new \in Record /\ b.sid \notin LongIds
             /\ \A i \in DOMAIN s.ids : s.ids[i].sid # b.sid
    <3>1. fresh
      BY <2>2, <2>4, <2>6
    <3> DEFINE o == Append(bs, b)
    <3>2. bound' = [bound EXCEPT ![c] = o]
      BY <2>1, <2>6, <3>1
    <3>3. b \in Bindings /\ b.key = HostKey[b.sid]
      BY <2>6 DEF Possible
    <3> HIDE DEF s, bs, new
    <3>4. o \in Seq(Bindings) /\ Len(o) = Len(bs) + 1 /\ o[Len(bs) + 1] = b /\ \A i \in 1..Len(bs) : o[i] = bs[i]
      BY <2>2, <3>3, AppendProperties
    <3>5. /\ Len(r.sock.ids) = Len(bs) + 1 /\ r.sock.ids[Len(bs) + 1] = new
          /\ \A i \in 1..Len(bs) : r.sock.ids[i] = s.ids[i]
      BY <2>2, <2>4, <2>6, AppendProperties
    <3>6. new.sid = b.sid /\ new.fwd = b.fwd /\ new.key = b.key
      BY DEF new
    <3> HIDE DEF o
    <3>7. Fits(r.sock.ids, o, r.sock.open)
      <4>1. \A i \in 1..Len(o) : i \in 1..Len(bs) \/ i = Len(bs) + 1
        BY <2>4, <3>4
      <4>2. \A i \in 1..Len(o) : /\ r.sock.ids[i].sid = o[i].sid /\ r.sock.ids[i].fwd = o[i].fwd
                                 /\ r.sock.ids[i].key = HostKey[o[i].sid]
        BY <2>2, <3>3, <3>4, <3>5, <3>6, <4>1
      <4> QED BY <2>1, <2>3, <3>4, <3>5, <4>2 DEF s
    <3> HIDE DEF Fits
    <3> QED BY <1>5, <2>1, <2>3, <3>2, <3>4, <3>7
  <2> QED BY <2>3, <2>5, <2>6
<1> QED BY <1>7, <1>8, <1>9

\* What is signed with a constrained key: the path the connection was bound
\* to is one of forwards that the constraints allow, up to the host.
LEMMA SignedPath ==
    ASSUME IInv, NEW c \in Conns, NEW key, NEW d \in Data, idtab[key].dest # <<>>,
           Destined(idtab[key], key, sock[c], d)
    PROVE  LET p == bound[c]
               n == Len(p)
               host(i) == IF i = 0 THEN Origin ELSE HostKey[p[i].sid]
           IN  /\ n > 0 /\ d.type = "userauth" /\ d.key = key /\ d.sid = p[n].sid
               /\ \A i \in 1..n :
                     /\ p[i].fwd = (i < n)
                     /\ Allows(idtab[key].dest, host(i-1), host(i), IF i = n THEN d.user ELSE "")
<1> DEFINE s == sock[c]
           p == bound[c]
           n == Len(p)
           host(i) == IF i = 0 THEN Origin ELSE HostKey[p[i].sid]
           from(i) == IF i = 1 THEN Origin ELSE s.ids[i-1].key
           dest == idtab[key].dest
           user(i) == IF i = n THEN d.user ELSE ""
<1>1. s \in Entry /\ p \in Seq(Bindings) /\ n \in Nat /\ Len(s.ids) = n
  BY DEF IInv, TypeInv, BoundInv
<1>2. \A i \in 1..n : /\ s.ids[i].sid = p[i].sid /\ s.ids[i].fwd = p[i].fwd
                      /\ s.ids[i].key = HostKey[p[i].sid]
  BY DEF IInv, BoundInv
<1>3. n > 0 /\ d.type = "userauth" /\ d.key = key /\ identity_permitted(idtab[key], s, d.user) /\ d.sid = s.ids[n].sid
  BY <1>1 DEF Destined
<1>4. d.user # ""
  <2>1. d.user \in Users
    BY <1>3 DEF Data
  <2> QED BY <2>1, NamesAssumption
<1>5. \A i \in 1..n : /\ IF i = n THEN ~(s.ids[n].fwd /\ d.user # "") ELSE s.ids[i].fwd
                      /\ permitted_by_dest_constraints(from(i), s.ids[i].key, dest, user(i))
  <2> DEFINE l == Len(s.ids)
  <2>1. l # 0
    BY <1>1, <1>3
  <2>2. \A i \in 1..l : /\ IF i = l THEN ~(s.ids[l].fwd /\ d.user # "") ELSE s.ids[i].fwd
                        /\ permitted_by_dest_constraints(from(i), s.ids[i].key, dest, IF i = l THEN d.user ELSE "")
    BY <1>3, <2>1 DEF identity_permitted
  <2>3. l = n
    BY <1>1
  <2> HIDE DEF l, n
  <2> QED BY <2>2, <2>3
<1>6. \A i \in 1..n : p[i].sid \in Sessions /\ p[i].fwd \in BOOLEAN
  <2>1. \A i \in 1..n : p[i] \in Bindings
    BY <1>1, ElementOfSeq
  <2> QED BY <2>1 DEF Bindings
<1>7. n \in 1..n
  BY <1>1, <1>3
<1> SUFFICES \A i \in 1..n : p[i].fwd = (i < n) /\ Allows(dest, host(i-1), host(i), user(i))
  BY <1>2, <1>3, <1>7
<1> TAKE i \in 1..n
<1>8. p[i].fwd = (i < n)
  <2>1. CASE i = n
    <3>1. ~p[i].fwd
      BY <1>2, <1>4, <1>5, <2>1
    <3> QED BY <1>1, <1>6, <2>1, <3>1
  <2>2. CASE i # n
    <3>1. p[i].fwd
      BY <1>2, <1>5, <2>2
    <3>2. i < n
      BY <1>1, <2>2
    <3> QED BY <1>6, <3>1, <3>2
  <2> QED BY <2>1, <2>2
<1>9. Allows(dest, host(i-1), host(i), user(i))
  <2>1. s.ids[i].key = host(i) /\ host(i) # Anywhere
    <3>1. i # 0
      BY <1>1
    <3>2. p[i].sid \in Sessions
      BY <1>6
    <3>3. HostKey[p[i].sid] # Anywhere
      <4> HIDE DEF p
      <4> QED BY <3>2, NamesAssumption
    <3> QED BY <1>2, <3>1, <3>3
  <2>2. from(i) = host(i-1)
    <3>1. CASE i = 1
      BY <3>1
    <3>2. CASE i # 1
      <4>1. i - 1 \in 1..n /\ i - 1 # 0
        BY <1>1, <3>2
      <4> QED BY <1>2, <3>2, <4>1
    <3> QED BY <3>1, <3>2
  <2>3. permitted_by_dest_constraints(from(i), s.ids[i].key, dest, user(i))
    BY <1>5
  <2> HIDE DEF from, host, user, dest
  <2>4. permitted_by_dest_constraints(host(i-1), host(i), dest, user(i))
    BY <2>1, <2>2, <2>3
  <2>5. PICK j \in DOMAIN dest :
          /\ IF host(i-1) = Origin THEN dest[j].from.hostname = None /\ dest[j].from.keys = {}
             ELSE match_key_hop(host(i-1), dest[j].from)
          /\ host(i) = Anywhere \/ match_key_hop(host(i), dest[j].to)
          /\ dest[j].to.user = "" \/ user(i) = "" \/ dest[j].to.user = user(i)
    BY <2>4 DEF permitted_by_dest_constraints
  <2>6. dest[j] \in Range(dest)
    BY DEF Range
  <2> QED BY <2>1, <2>5, <2>6 DEF Allows
<1> QED BY <1>8, <1>9

\* A signature keeps the invariant.
LEMMA SignInv ==
    ASSUME IInv, NEW c \in Conns, NEW key, NEW d \in Data, SignRequest(c, key, d)
    PROVE  IInv'
<1>1. /\ loop.pc = "handle" /\ UNCHANGED <<sock, loop, bound>> /\ Destined(idtab[key], key, sock[c], d)
      /\ idtab' \in {idtab, Older(idtab)}
      /\ last' = NoSignature \/ (/\ idtab[key].dest # <<>>
                                 /\ last' = [key |-> key, dest |-> idtab[key].dest, data |-> d, binds |-> bound[c]])
  BY DEF SignRequest, Handling, Signature
<1>2. Timed(idtab')
  BY <1>1, TableTimed DEF IInv, TypeInv
<1>3. TypeInv'
  BY <1>1, <1>2 DEF IInv, TypeInv
<1>4. BoundInv' /\ SleepInv'
  BY <1>1 DEF IInv, BoundInv, SleepInv
<1>5. DestinationHonoured'
  <2>1. CASE last' = NoSignature
    BY <1>1, <2>1 DEF DestinationHonoured
  <2>2. CASE /\ idtab[key].dest # <<>>
             /\ last' = [key |-> key, dest |-> idtab[key].dest, data |-> d, binds |-> bound[c]]
    <3> DEFINE p == bound[c]
               n == Len(p)
               host(i) == IF i = 0 THEN Origin ELSE HostKey[p[i].sid]
    <3>1. /\ n > 0 /\ d.type = "userauth" /\ d.key = key /\ d.sid = p[n].sid
          /\ \A i \in 1..n :
                /\ p[i].fwd = (i < n)
                /\ Allows(idtab[key].dest, host(i-1), host(i), IF i = n THEN d.user ELSE "")
      BY <1>1, <2>2, SignedPath
    <3>2. last'.key = key /\ last'.dest = idtab[key].dest /\ last'.data = d /\ last'.binds = p
      BY <1>1, <2>2
    <3> HIDE DEF p
    <3> QED BY <3>1, <3>2 DEF DestinationHonoured
  <2> QED BY <1>1, <2>1, <2>2
<1> QED BY <1>3, <1>4, <1>5 DEF IInv

\* Every request of a client keeps the invariant.
LEMMA RequestInv == ASSUME IInv, NEW c \in Conns, Requests(c) PROVE IInv'
<1>1. Timed(idtab)
  BY DEF IInv, TypeInv
<1>2. ASSUME NEW tab, Timed(tab), Update(c, tab) PROVE IInv'
  <2>1. loop.pc = "handle" /\ idtab' = tab /\ UNCHANGED <<sock, loop, bound>> /\ last' = NoSignature
    BY <1>2 DEF Update, Handling
  <2>2. SleepInv' /\ loop' \in [pc : {"prepare", "poll", "handle"}, timeout : Time]
    BY <2>1 DEF SleepInv, IInv, TypeInv
  <2> QED BY <1>2, <2>1, <2>2, TableStep
<1>3. CASE \E b \in Possible : ExtSessionBind(c, b)
  BY <1>3, SocketInv
<1>4. CASE \E pw \in Passwords : Lock(c, pw) \/ Unlock(c, pw)
  <2>1. loop.pc = "handle" /\ UNCHANGED <<sock, loop, bound>> /\ last' = NoSignature /\ idtab' \in {idtab, Older(idtab)}
    BY <1>4 DEF Lock, Unlock, Handling
  <2>2. Timed(idtab')
    BY <1>1, <2>1, TableTimed
  <2>3. SleepInv' /\ loop' \in [pc : {"prepare", "poll", "handle"}, timeout : Time]
    BY <2>1 DEF SleepInv, IInv, TypeInv
  <2> QED BY <2>1, <2>2, <2>3, TableStep
<1>5. CASE \E key \in Keys, cs \in KeyConstraints : AddIdentity(c, key, cs)
  BY <1>1, <1>2, <1>5, TableTimed DEF AddIdentity
<1>6. CASE \E key \in Keys : RemoveIdentity(c, key)
  BY <1>1, <1>2, <1>6, TableTimed DEF RemoveIdentity
<1>7. CASE \E key \in Keys, d \in Data : SignRequest(c, key, d)
  BY <1>7, SignInv
<1>8. CASE RemoveAllIdentities(c)
  BY <1>1, <1>2, <1>8, TableTimed DEF RemoveAllIdentities
<1>9. CASE \E provider \in {"allowed", "other"}, cs \in KeyConstraints : AddSmartcardKey(c, provider, cs)
  BY <1>1, <1>2, <1>9, TableTimed DEF AddSmartcardKey
<1>10. CASE \E provider \in {"allowed", "other"} : RemoveSmartcardKey(c, provider)
  BY <1>1, <1>2, <1>10, TableTimed DEF RemoveSmartcardKey
<1> QED BY <1>3, <1>4, <1>5, <1>6, <1>7, <1>8, <1>9, <1>10 DEF Requests

\* Every step keeps the invariant.
LEMMA NextInv == IInv /\ [Next]_vars => IInv'
<1> SUFFICES ASSUME IInv, [Next]_vars PROVE IInv'
  OBVIOUS
<1>1. CASE Next
  BY <1>1, LoopInv, SocketInv, RequestInv DEF Next
<1>2. CASE UNCHANGED vars
  BY <1>2 DEF vars, IInv, TypeInv, Timed, BoundInv, SleepInv, DestinationHonoured
<1> QED BY <1>1, <1>2

\* The invariant holds in every state of every behaviour.
LEMMA Invariant == Spec => []IInv
<1>1. Init => IInv
  BY InitInv
<1>2. IInv /\ [Next]_vars => IInv'
  BY NextInv
<1> QED BY <1>1, <1>2, PTL DEF Spec

----------------------------------------------------------------------------
\* A destination-constrained key signs only a login to the host at the end of
\* a path of forwards that its constraints allow, whatever sequence of
\* bindings the connection sent.
THEOREM DestinationsAreHonoured == Spec => []DestinationHonoured
<1>1. IInv => DestinationHonoured
  BY DEF IInv
<1> QED BY <1>1, Invariant, PTL

\* identity_permitted never hides a key that one more session-bind would let
\* the connection use.
THEOREM HiddenKeysAreUnusable == Spec => []HiddenIsUnusable
<1>1. IInv => HiddenIsUnusable
  <2> SUFFICES ASSUME IInv, NEW c \in Conns, NEW k \in DOMAIN idtab, sock[c].ids # <<>>,
                      NEW b \in Possible, NEW d, Destined(idtab[k], k, process_ext_session_bind(sock[c], b).sock, d)
               PROVE  identity_permitted(idtab[k], sock[c], "")
    BY DEF HiddenIsUnusable
  <2>1. sock[c] \in Entry
    BY DEF IInv, TypeInv
  <2> QED BY <2>1, UsableWasVisible
<1> QED BY <1>1, Invariant, PTL

\* The poll of the main loop has ended when a key dies, for any lifetimes.
THEOREM NoKeyOutlivesItsTime == Spec => []KeysDieOnTime
<1>1. IInv => KeysDieOnTime
  <2> SUFFICES ASSUME IInv, loop.pc = "poll", NEW k \in DOMAIN idtab, idtab[k].left = 0 PROVE loop.timeout = 0
    BY DEF KeysDieOnTime
  <2>1. idtab[k].left # Forever
    BY DEF Forever
  <2>2. loop.timeout \in Nat /\ loop.timeout <= 0
    BY <2>1 DEF IInv, SleepInv
  <2> QED BY <2>2
<1> QED BY <1>1, Invariant, PTL
=============================================================================
