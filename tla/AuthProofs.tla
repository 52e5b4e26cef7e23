----------------------------- MODULE AuthProofs -----------------------------
(***************************************************************************)
(* Proofs about Auth, for any keys, configurations and number of requests: *)
(* a session only starts when the configuration justifies it, no key       *)
(* counts twice, MaxAuthTries bounds the guesses, and for straightforward  *)
(* users the two processes stay in step.                                   *)
(*                                                                         *)
(* The first two are kept by the monitor alone, whatever sshd-auth asks it *)
(* (MonitorInv): what is left of a list of methods is what remains after a *)
(* part of it that was verified in order.  The third needs both sides and  *)
(* the pipe between them (PipeInv, GuessInv): at most one question is      *)
(* under way, and a wrong guess whose answer sshd-auth has not yet counted *)
(* is found in one of a few places (Late).  The last one follows the two   *)
(* processes through every place where sshd-auth can wait (AgreeInv).      *)
(***************************************************************************)
EXTENDS Auth, SequenceTheorems, WellFoundedInduction, TLAPS

Pc == {"state", "sign", "idle", "pwnam", "banner", "password", "allowed", "verify", "init", "query",
       "respond", "stopping", "accepted", "refused", "account", "done", "gone"}

ReqType == MON_ONCE \cup MON_AUTH \cup {"PAM_QUERY", "PAM_ACCOUNT", "KEYEXPORT"}
Secret == {"", "good", "bad", "empty", "change", "nothing"}
KeyOrNone == Keys \cup {NoKey}
Kind == Method \cup {""}
Request == [type : ReqType, arg : Secret \cup {"none"}, key : KeyOrNone, kind : Kind]
PacketRec == {p \in [method : Method, user : {"same", "other"}, pw : Secret, key : KeyOrNone,
                     sig : {"none", "good", "bad"}] :
                p.method \in {"publickey", "hostbased"} => p.key \in Keys}
Lists == UNION {[D -> Seq(Entry)] : D \in SUBSET Nat}
ProofRec == [method : Kind \cup {"unknown"}, sub : {"", "pam"}, key : KeyOrNone]
Command == STRING \cup {"", "NULL"}

Child_ == [pc : Pc, attempt : Nat, failures : Nat, lists : Lists, prev_keys : SUBSET KeyOrNone,
           none_enabled : BOOLEAN, kbd : BOOLEAN, nreq : {0, 1}, postponed : BOOLEAN, valid : BOOLEAN,
           force_command : Command, packet : PacketRec, success : BOOLEAN,
           why : {"", "authenticated invalid user", "method not in AuthenticationMethods"},
           out : Seq(Request)]

Phase == {"preauth", "account", "export", "post", "fatal", "exit"}
Ctxt == {"none", "asking", "Again", "prompted", "Authenticated", "Error"}
Verdict == {"nothing", "good", "bad"}
Why == {"", "state error", "multiple attempts", "password authentication not enabled", "already called",
        "no context", "bad key, not previously allowed", "crash", "too many authentication attempts",
        "authenticated invalid user", "method not in AuthenticationMethods", "unexpected authentication",
        "unpermitted request", "read unexpected type"}
Reply == {"state", "signature", "yes", "no", "banner", "text", "prompt", "granted", "error", "ok", "again", "freed"}
Monitor_ == [phase : Phase, why : Why, permit : SUBSET (ReqType \ {"KEYEXPORT"}), compat_set : BOOLEAN,
             attempt : Nat, valid : BOOLEAN, failures : Nat, lists : Lists, prev_keys : SUBSET KeyOrNone,
             called : BOOLEAN, ctxt : Ctxt, told : Verdict, given_up : Nat, authok : BOOLEAN, key_blob : [kind : Kind, key : KeyOrNone],
             force_command : Command, pending : ReqType \cup {""}, out : Seq(Reply)]

TypeInv == /\ cf \in Config /\ c \in Child_ /\ m \in Monitor_
           /\ proven \in Seq(ProofRec) /\ guesses \in Nat

----------------------------------------------------------------------------
(* The monitor. *)

\* The first n methods of l were verified in order.
Verified(l, n, p) ==
    \E f \in [1..n -> 1..Len(p)] :
        /\ \A i, j \in 1..n : i < j => f[i] < f[j]
        /\ \A i \in 1..n : /\ p[f[i]].method = l[i].method
                           /\ l[i].sub # "" => p[f[i]].sub = l[i].sub

\* What is left of list l is rest; what is gone was verified.
Rest(l, rest, p) ==
    /\ Len(rest) <= Len(l)
    /\ \A j \in 1..Len(rest) : rest[j] = l[Len(l) - Len(rest) + j]
    /\ Verified(l, Len(l) - Len(rest), p)

ListsInv ==
    \A i \in DOMAIN m.lists :
        /\ i \in DOMAIN cf.lists /\ auth2_methods_valid(cf.lists[i])
        /\ Rest(cf.lists[i], m.lists[i], proven)

\* Once the monitor has decided, all but PAM's word on the account is there.
DecidedInv ==
    m.phase \in {"account", "export", "post"} =>
        /\ proven # <<>>
        /\ cf.root => auth_root_allowed(m, proven[Len(proven)].method)
        /\ Configured => \E i \in DOMAIN m.lists : m.lists[i] = <<>>

AllowedInv ==
    /\ m.valid => cf.valid
    /\ m.phase \in {"export", "post"} => m.valid /\ (cf.pam => cf.pam_account)
    /\ m.phase = "post" => c.success
    /\ \A i \in 1..Len(c.out) : c.out[i].type = "KEYEXPORT" => c.success

KeysInv ==
    /\ \A i \in 1..Len(proven) : proven[i].key # NoKey => proven[i].key \in m.prev_keys
    /\ m.key_blob.key # NoKey => m.key_blob.key \notin m.prev_keys

MonitorInv == ListsInv /\ DecidedInv /\ AllowedInv /\ KeysInv /\ KeysCountOnce

----------------------------------------------------------------------------
(* The pipe and the guesses. *)

Silent == {"SETCOMPAT", "PAM_START", "AUTHSERV"}
Awaits(pc, type) ==
    \/ pc = "state" /\ type = "STATE"
    \/ pc = "sign" /\ type = "SIGN"
    \/ pc = "pwnam" /\ type = "PWNAM"
    \/ pc = "banner" /\ type = "READ_BANNER"
    \/ pc = "password" /\ type = "AUTHPASSWORD"
    \/ pc = "allowed" /\ type = "KEYALLOWED"
    \/ pc = "verify" /\ type = "KEYVERIFY"
    \/ pc = "init" /\ type = "PAM_INIT_CTX"
    \/ pc = "query" /\ type = "PAM_QUERY"
    \/ pc = "respond" /\ type = "PAM_RESPOND"
    \/ pc \in {"stopping", "accepted", "refused"} /\ type = "PAM_FREE_CTX"
    \/ pc = "account" /\ type = "PAM_ACCOUNT"
    \/ pc = "done" /\ type = "KEYEXPORT"

\* The last request is the one whose answer is awaited, those before it have
\* none, and there is an answer only when no request is left.
PipeInv ==
    /\ c.pc = "gone" => c.out = <<>> \/ ~Alive
    /\ c.pc # "gone" => \A i \in 1..Len(c.out) :
         /\ i < Len(c.out) => c.out[i].type \in Silent
         /\ i = Len(c.out) => Awaits(c.pc, c.out[i].type)
    /\ m.out # <<>> => c.out = <<>> /\ Len(m.out) = 1
    /\ c.pc \in {"idle", "done"} => m.out = <<>>
    /\ c.pc = "respond" /\ m.out # <<>> => m.out[1] \in {"ok", "again", "error"}

\* A wrong guess that sshd-auth is going to count.
Late ==
    \/ c.pc \in {"password", "verify"} /\ m.out = <<"no">>
    \/ c.pc = "refused" /\ m.out # <<>>

\* Where sshd-auth is when PAM has ended a conversation: it is told so, and frees it.
EndedAt(pc, x, out) ==
    x = "Error" => \/ pc = "gone"
                   \/ pc = "refused" /\ out = <<>>
                   \/ pc = "query" /\ out = <<"error">>

Extra == IF cf.permit_empty_passwd THEN 1 ELSE 0
Asking == {"password", "allowed", "verify", "init", "query", "respond", "accepted", "refused"}

GuessInv ==
    /\ guesses <= cf.max_authtries + Extra
    /\ c.pc \notin {"gone", "done"} => guesses <= c.failures + Extra + (IF Late THEN 1 ELSE 0)
    /\ c.pc \in Asking => c.failures < cf.max_authtries /\ ~c.postponed
    /\ c.pc # "gone" /\ (c.kbd \/ c.failures > 0) => c.failures < cf.max_authtries
    /\ c.pc \in {"allowed", "verify"} => c.packet.method \in {"publickey", "hostbased"}
    /\ c.pc = "stopping" => c.attempt > 1
    /\ c.pc \in Asking \cup {"pwnam", "banner"} \/ c.kbd => c.attempt > 0
    /\ c.attempt = 0 \/ c.pc \in {"pwnam", "banner"} => guesses = 0
    /\ c.pc = "password" /\ c.packet.method = "none" =>
         /\ cf.permit_empty_passwd
         /\ c.attempt <= 1 => guesses <= (IF Late THEN 1 ELSE 0)
    /\ EndedAt(c.pc, m.ctxt, m.out)

----------------------------------------------------------------------------
(* What the processes compute. *)

\* A pipe that holds one message.
LEMMA OneElement ==
    ASSUME NEW S, NEW s \in Seq(S), Len(s) = 1
    PROVE  s = <<Head(s)>> /\ s[1] = Head(s) /\ Head(s) \in S /\ Tail(s) = <<>>
<1>1. s # <<>> /\ s[1] = Head(s)
  OBVIOUS
<1>2. Head(s) \in S /\ Tail(s) \in Seq(S) /\ Len(Tail(s)) = 0
  BY <1>1, HeadTailProperties
<1>3. Tail(s) = <<>>
  BY <1>2, EmptySeq
<1>4. <<Head(s)>> \in Seq(S) /\ Len(<<Head(s)>>) = 1 /\ <<Head(s)>>[1] = Head(s)
  BY <1>2
<1>5. \A i \in 1..Len(s) : s[i] = <<Head(s)>>[i]
  BY <1>1, <1>4
<1>6. s = <<Head(s)>>
  BY <1>4, <1>5, SeqEqual
<1> QED BY <1>1, <1>2, <1>3, <1>6

\* Two requests after a third.
LEMMA ThreeElements ==
    ASSUME NEW S, NEW u \in S, NEW v \in S, NEW w \in S
    PROVE  <<u>> \o <<v, w>> = <<u, v, w>>
<1> DEFINE s == <<u>>
           t == <<v, w>>
           e == <<u, v, w>>
<1>1. s \in Seq(S) /\ Len(s) = 1 /\ s[1] = u /\ t \in Seq(S) /\ Len(t) = 2 /\ t[1] = v /\ t[2] = w
      /\ e \in Seq(S) /\ Len(e) = 3 /\ e[1] = u /\ e[2] = v /\ e[3] = w
  OBVIOUS
<1> HIDE DEF s, t, e
<1>2. s \o t \in Seq(S) /\ Len(s \o t) = 3 /\ (s \o t)[1] = u /\ (s \o t)[2] = v /\ (s \o t)[3] = w
  <2>1. /\ s \o t \in Seq(S) /\ Len(s \o t) = Len(s) + Len(t)
        /\ \A i \in 1 .. Len(s) + Len(t) : (s \o t)[i] = IF i <= Len(s) THEN s[i] ELSE t[i - Len(s)]
    BY ONLY <1>1, ConcatProperties
  <2> DEFINE x == s \o t
  <2> HIDE DEF x
  <2>2. x \in Seq(S) /\ Len(x) = 3 /\ \A i \in 1..3 : x[i] = IF i <= 1 THEN s[i] ELSE t[i - 1]
    BY ONLY <1>1, <2>1 DEF x
  <2>3. x[1] = s[1] /\ x[2] = t[1] /\ x[3] = t[2]
    BY ONLY <2>2
  <2> QED BY <1>1, <2>2, <2>3 DEF x
<1>3. \A i \in 1..Len(e) : e[i] = (s \o t)[i]
  BY <1>1, <1>2
<1>4. s \o t = e
  BY <1>1, <1>2, <1>3, SeqEqual
<1> QED BY <1>4 DEF s, t, e

\* Updating the lists of methods leaves lists of methods, at the same places.
LEMMA UpdateLists ==
    ASSUME NEW l \in Lists, NEW method, NEW sub
    PROVE  /\ auth2_update_methods_lists(l, method, sub).lists \in Lists
           /\ DOMAIN auth2_update_methods_lists(l, method, sub).lists = DOMAIN l
<1>1. PICK D \in SUBSET Nat : l \in [D -> Seq(Entry)]
  BY DEF Lists
<1>2. ASSUME NEW i \in D, Removable(l[i], method, sub) PROVE Tail(l[i]) \in Seq(Entry)
  <2>1. l[i] # <<>>
    BY <1>2 DEF Removable, list_starts_with
  <2> QED BY <1>1, <2>1
<1>3. auth2_update_methods_lists(l, method, sub).lists \in [D -> Seq(Entry)]
  BY <1>1, <1>2 DEF auth2_update_methods_lists
<1> QED BY <1>1, <1>3 DEF Lists

\* The lists that sshd-auth and the monitor start with.
LEMMA SetupLists ==
    ASSUME cf \in Config
    PROVE  /\ auth2_setup_methods_lists \in Lists
           /\ NoLists \in Lists
<1>1. NoLists \in [{} -> Seq(Entry)]
  BY DEF NoLists
<1>2. DOMAIN cf.lists \subseteq Nat /\ \A i \in DOMAIN cf.lists : cf.lists[i] \in Seq(Entry)
  BY DEF Config
<1>3. auth2_setup_methods_lists \in [DOMAIN auth2_setup_methods_lists -> Seq(Entry)]
      /\ DOMAIN auth2_setup_methods_lists \subseteq Nat
  BY <1>2 DEF auth2_setup_methods_lists
<1> QED BY <1>1, <1>3 DEF Lists

\* d is r at another place, with another question.
Moved(r, d) ==
    /\ d \in Child_ /\ d.attempt = r.attempt /\ d.failures = r.failures /\ d.kbd = r.kbd
    /\ d.postponed = r.postponed /\ d.packet = r.packet /\ d.success = r.success

\* A question leaves everything else as it was.
LEMMA AskFacts ==
    ASSUME NEW r \in Child_, r.out = <<>>, NEW pc \in Pc, NEW q \in Seq(Request)
    PROVE  /\ Moved(r, Ask(r, pc, q))
           /\ Ask(r, pc, q).pc = pc /\ Ask(r, pc, q).out = q
<1>1. r.out \o q = q
  <2>1. r.out \in Seq(Request)
    BY DEF Child_
  <2> QED BY <2>1, ConcatEmptySeq
<1>2. Ask(r, pc, q) = [r EXCEPT !.pc = pc, !.out = q]
  BY <1>1 DEF Ask, Child_
<1> QED BY <1>2 DEF Child_, Moved

\* A request without arguments is a request.
LEMMA ReqType_ == ASSUME NEW t \in ReqType PROVE Req(t) \in Request /\ Req(t).type = t
BY DEF Req, Request, Secret, Kind, KeyOrNone

----------------------------------------------------------------------------
(* sshd-auth. *)

\* sshd-auth has asked one question, or none.
Posed(d) ==
    /\ d \in Child_
    /\ d.pc = "gone" => d.out = <<>>
    /\ d.pc # "gone" => \A i \in 1..Len(d.out) :
         /\ i < Len(d.out) => d.out[i].type \in Silent
         /\ i = Len(d.out) => Awaits(d.pc, d.out[i].type)
    /\ \A i \in 1..Len(d.out) : d.out[i].type = "KEYEXPORT" => d.success

\* Nothing is asked where the code goes back to its loop or exits.
LEMMA PosedNothing ==
    ASSUME NEW d \in Child_, d.out = <<>>
    PROVE  Posed(d)
BY DEF Posed

\* One question asked of the monitor.
LEMMA PosedOne ==
    ASSUME NEW r \in Child_, r.out = <<>>, NEW pc \in Pc, pc # "gone", NEW q \in Request,
           Awaits(pc, q.type), q.type = "KEYEXPORT" => r.success
    PROVE  /\ Posed(Ask(r, pc, <<q>>))
           /\ Moved(r, Ask(r, pc, <<q>>)) /\ Ask(r, pc, <<q>>).pc = pc
<1> DEFINE qs == <<q>>
<1>1. qs \in Seq(Request) /\ Len(qs) = 1 /\ qs[1] = q
  OBVIOUS
<1> HIDE DEF qs
<1>2. Moved(r, Ask(r, pc, qs)) /\ Ask(r, pc, qs).pc = pc /\ Ask(r, pc, qs).out = qs
  BY <1>1, AskFacts
<1>3. ASSUME NEW i \in 1..Len(qs) PROVE i = Len(qs) /\ qs[i] = q
  BY <1>1
<1>4. Posed(Ask(r, pc, qs))
  <2> DEFINE asked == Ask(r, pc, qs)
  <2> HIDE DEF asked
  <2>1. asked \in Child_ /\ asked.pc = pc /\ asked.out = qs /\ asked.success = r.success
    BY <1>2 DEF Moved, asked
  <2>2. \A i \in 1..Len(asked.out) : asked.out[i].type = "KEYEXPORT" => asked.success
    BY <1>3, <2>1
  <2>3. \A i \in 1..Len(asked.out) :
          /\ i < Len(asked.out) => asked.out[i].type \in Silent
          /\ i = Len(asked.out) => Awaits(asked.pc, asked.out[i].type)
    <3> TAKE i \in 1..Len(asked.out)
    <3>1. i = Len(asked.out) /\ asked.out[i] = q /\ Len(asked.out) = 1
      BY <1>1, <1>3, <2>1
    <3>2. Awaits(asked.pc, asked.out[i].type)
      BY <2>1, <3>1
    <3> QED BY <3>1, <3>2
  <2>4. asked \in Child_ /\ asked.pc # "gone"
    BY <2>1
  <2>5. Posed(asked)
    BY <2>2, <2>3, <2>4 DEF Posed
  <2> QED BY <2>5 DEF asked
<1> QED BY <1>2, <1>4 DEF qs

\* userauth_success: the session's keys are handed over.
LEMMA SuccessFacts ==
    ASSUME NEW r \in Child_, r.out = <<>>
    PROVE  /\ Posed(userauth_success(r)) /\ userauth_success(r).pc = "done"
           /\ userauth_success(r).kbd = r.kbd /\ userauth_success(r).attempt = r.attempt
           /\ userauth_success(r).packet = r.packet /\ userauth_success(r).success = TRUE
           /\ userauth_success(r).failures = r.failures
<1> DEFINE d == userauth_success(r)
           q == <<Req("KEYEXPORT")>>
<1>1. Req("KEYEXPORT") \in Request /\ Req("KEYEXPORT").type = "KEYEXPORT" /\ q \in Seq(Request)
  BY ReqType_ DEF ReqType
<1> HIDE DEF q
<1>2. Moved(r, Ask(r, "done", q)) /\ Ask(r, "done", q).pc = "done" /\ Ask(r, "done", q).out = q
  BY <1>1, AskFacts DEF Pc
<1>3. d = [Ask(r, "done", q) EXCEPT !.success = TRUE]
  BY DEF userauth_success, q
<1> SUFFICES /\ Posed(d) /\ d.pc = "done" /\ d.kbd = r.kbd /\ d.attempt = r.attempt
             /\ d.packet = r.packet /\ d.success = TRUE /\ d.failures = r.failures
  OBVIOUS
<1> HIDE DEF d
<1>4. d \in Child_ /\ d.pc = "done" /\ d.kbd = r.kbd /\ d.attempt = r.attempt /\ d.out = q
      /\ d.packet = r.packet /\ d.success = TRUE /\ d.failures = r.failures
  BY <1>2, <1>3 DEF Child_, Moved
<1>5. Posed(d)
  BY <1>1, <1>4 DEF Posed, Awaits, q
<1> QED BY <1>4, <1>5

\* userauth_finish: what becomes of a request that was or was not successful.
FinishOK(r, d, a, method) ==
    /\ Posed(d) /\ d.pc \in {"idle", "gone", "account", "done"}
    /\ d.kbd = r.kbd /\ d.attempt = r.attempt /\ d.packet = r.packet
    /\ r.success => d.success
    /\ d.pc \in {"account", "done"} => a /\ d.failures = r.failures
    /\ d.pc = "idle" => d.failures \in {r.failures, r.failures + 1}
    /\ d.pc = "idle" =>
         \/ r.postponed /\ d.failures = r.failures
         \/ /\ d.failures < cf.max_authtries
            /\ a \/ d.failures = r.failures + 1 \/ (method = "none" /\ r.attempt <= 1)

LEMMA FinishFacts ==
    ASSUME cf \in Config, NEW r \in Child_, r.out = <<>>, NEW a \in BOOLEAN, NEW method, NEW sub
    PROVE  FinishOK(r, userauth_finish(r, a, method, sub), a, method)
<1> DEFINE ok == a /\ (cf.root => auth_root_allowed(r, method))
           u == auth2_update_methods_lists(r.lists, method, sub)
           partial == ok /\ Configured /\ ~u.complete
           r1 == IF ok /\ Configured THEN [r EXCEPT !.lists = u.lists] ELSE r
           failures == r1.failures + (IF CountsFailure(r1, method, partial) THEN 1 ELSE 0)
           d == userauth_finish(r, a, method, sub)
<1> SUFFICES FinishOK(r, d, a, method)
  OBVIOUS
<1>1. u.lists \in Lists
  BY UpdateLists DEF Child_
<1>2. /\ r1 \in Child_ /\ r1.out = <<>> /\ r1.failures = r.failures /\ r1.attempt = r.attempt
      /\ r1.kbd = r.kbd /\ r1.packet = r.packet /\ r1.success = r.success /\ r1.postponed = r.postponed
  BY <1>1 DEF Child_
<1> HIDE DEF r1, u
<1>3. /\ failures \in {r.failures, r.failures + 1} /\ failures \in Nat
      /\ a \/ failures = r.failures + 1 \/ (method = "none" /\ r.attempt <= 1)
  <2>1. r.failures \in Nat /\ r.attempt \in Nat
    BY DEF Child_
  <2> QED BY <1>2, <2>1 DEF CountsFailure
<1>4. CASE d = Assertion(r, "authenticated invalid user") \/ d = Assertion(r, "method not in AuthenticationMethods")
  <2>1. d \in Child_ /\ d.out = <<>> /\ d.pc = "gone" /\ d.kbd = r.kbd /\ d.attempt = r.attempt
        /\ d.packet = r.packet /\ d.success = r.success
    BY <1>4 DEF Assertion, Child_, Pc
  <2> QED BY <2>1, PosedNothing DEF FinishOK
<1>5. CASE d = Gone(r) \/ d = Gone([r1 EXCEPT !.failures = failures])
  <2>0. failures \in Nat
    BY <1>3
  <2> HIDE DEF failures, d
  <2>1. CASE d = Gone(r)
    <3>1. d \in Child_ /\ d.out = <<>> /\ d.pc = "gone" /\ d.kbd = r.kbd /\ d.attempt = r.attempt
          /\ d.packet = r.packet /\ d.success = r.success
      BY <2>1 DEF Gone, Child_, Pc
    <3> QED BY <3>1, PosedNothing DEF FinishOK
  <2>2. CASE d = Gone([r1 EXCEPT !.failures = failures])
    <3>1. d \in Child_ /\ d.out = <<>> /\ d.pc = "gone" /\ d.kbd = r.kbd /\ d.attempt = r.attempt
          /\ d.packet = r.packet /\ d.success = r.success
      BY <1>2, <2>0, <2>2 DEF Gone, Child_, Pc
    <3> QED BY <3>1, PosedNothing DEF FinishOK
  <2> QED BY <1>5, <2>1, <2>2
<1>6. CASE r.postponed /\ d = [r1 EXCEPT !.pc = "idle"]
  <2>1. d \in Child_ /\ d.out = <<>> /\ d.pc = "idle" /\ d.kbd = r.kbd /\ d.attempt = r.attempt
        /\ d.packet = r.packet /\ d.success = r.success /\ d.failures = r.failures
    BY <1>2, <1>6, ZenonT(40) DEF Child_, Pc
  <2> QED BY <1>6, <2>1, PosedNothing DEF FinishOK
<1>7. CASE a /\ d = Ask(r1, "account", <<Req("PAM_ACCOUNT")>>)
  <2>1. Req("PAM_ACCOUNT") \in Request /\ Req("PAM_ACCOUNT").type = "PAM_ACCOUNT"
    BY ReqType_ DEF ReqType
  <2>2. "account" \in Pc /\ Awaits("account", "PAM_ACCOUNT")
    BY DEF Awaits, Pc
  <2> HIDE DEF d
  <2>3. Posed(d) /\ Moved(r1, d) /\ d.pc = "account"
    BY <1>2, <1>7, <2>1, <2>2, PosedOne
  <2> QED BY <1>2, <1>7, <2>3 DEF FinishOK, Moved
<1>8. CASE a /\ d = userauth_success(r1)
  <2> HIDE DEF d
  <2>1. Posed(d) /\ d.pc = "done" /\ d.kbd = r1.kbd /\ d.attempt = r1.attempt
        /\ d.packet = r1.packet /\ d.success = TRUE /\ d.failures = r1.failures
    BY <1>2, <1>8, SuccessFacts
  <2> QED BY <1>2, <1>8, <2>1 DEF FinishOK
<1>9. CASE ~(failures >= cf.max_authtries) /\ d = [r1 EXCEPT !.failures = failures, !.pc = "idle"]
  <2>0. cf.max_authtries \in Nat
    BY DEF Config
  <2> HIDE DEF failures, d
  <2>1. d \in Child_ /\ d.out = <<>> /\ d.pc = "idle" /\ d.kbd = r.kbd /\ d.attempt = r.attempt
        /\ d.packet = r.packet /\ d.success = r.success /\ d.failures = failures
    BY <1>2, <1>3, <1>9 DEF Child_, Pc
  <2>2. failures < cf.max_authtries
    BY <1>3, <1>9, <2>0
  <2>3. Posed(d)
    BY <2>1, PosedNothing
  <2> QED BY <1>3, <2>1, <2>2, <2>3 DEF FinishOK
<1>10. \/ d = Assertion(r, "authenticated invalid user") \/ d = Assertion(r, "method not in AuthenticationMethods")
       \/ d = Gone(r) \/ d = Gone([r1 EXCEPT !.failures = failures])
       \/ r.postponed /\ d = [r1 EXCEPT !.pc = "idle"]
       \/ a /\ d = Ask(r1, "account", <<Req("PAM_ACCOUNT")>>)
       \/ a /\ d = userauth_success(r1)
       \/ ~(failures >= cf.max_authtries) /\ d = [r1 EXCEPT !.failures = failures, !.pc = "idle"]
  BY DEF userauth_finish, r1, u
<1> HIDE DEF d, failures
<1> QED
  BY <1>4, <1>5, <1>6, <1>7, <1>8, <1>9, <1>10

----------------------------------------------------------------------------
(* The guesses, as sshd-auth moves. *)

\* GuessInv for sshd-auth at pc with no answer under way: g guesses, and the
\* PAM context in state x.
FairAt(r, pc, g, x) ==
    /\ pc \notin {"gone", "done"} => g <= r.failures + Extra
    /\ x = "Error" => pc \in {"gone", "refused"}
    /\ pc \in Asking => r.failures < cf.max_authtries /\ ~r.postponed
    /\ pc # "gone" /\ (r.kbd \/ r.failures > 0) => r.failures < cf.max_authtries
    /\ pc \in {"allowed", "verify"} => r.packet.method \in {"publickey", "hostbased"}
    /\ pc = "stopping" => r.attempt > 1
    /\ pc \in Asking \cup {"pwnam", "banner"} \/ r.kbd => r.attempt > 0
    /\ r.attempt = 0 \/ pc \in {"pwnam", "banner"} => g = 0
    /\ pc = "password" /\ r.packet.method = "none" => cf.permit_empty_passwd /\ (r.attempt <= 1 => g = 0)

\* A step of sshd-auth from r to d that the invariants survive.
Step(r, d, g, x) == Posed(d) /\ (r.success => d.success) /\ FairAt(d, d.pc, g, x)

\* A step is also one from an earlier version of the record.
LEMMA StepFrom ==
    ASSUME NEW r, NEW r1, NEW d, NEW g, NEW x, Step(r1, d, g, x), r1.success = r.success
    PROVE  Step(r, d, g, x)
BY DEF Step

\* Moving without a question.
LEMMA MoveStep ==
    ASSUME NEW r, NEW d, d.out = <<>>, Moved(r, d), NEW g, NEW x, FairAt(r, d.pc, g, x)
    PROVE  Step(r, d, g, x)
<1>1. Posed(d)
  BY PosedNothing DEF Moved
<1>2. FairAt(d, d.pc, g, x)
  BY DEF FairAt, Moved
<1> QED BY <1>1, <1>2 DEF Step, Moved

\* Asking one question.
LEMMA AskStep ==
    ASSUME NEW r \in Child_, r.out = <<>>, NEW pc \in Pc, pc # "gone", NEW q \in Request,
           Awaits(pc, q.type), q.type # "KEYEXPORT", NEW g, NEW x, FairAt(r, pc, g, x)
    PROVE  Step(r, Ask(r, pc, <<q>>), g, x)
<1> DEFINE d == Ask(r, pc, <<q>>)
<1>1. Posed(d) /\ Moved(r, d) /\ d.pc = pc
  BY PosedOne
<1> SUFFICES Step(r, d, g, x)
  OBVIOUS
<1> HIDE DEF d
<1>2. FairAt(d, d.pc, g, x)
  BY <1>1 DEF FairAt, Moved
<1> QED BY <1>1, <1>2 DEF Step, Moved

\* The monitor never gets an answer to the process that is gone.
LEMMA GoneStep ==
    ASSUME NEW r \in Child_, r.out = <<>>, NEW g, NEW x, r.attempt = 0 => g = 0, r.kbd => r.attempt > 0
    PROVE  Step(r, Gone(r), g, x)
<1> DEFINE d == Gone(r)
<1>1. d \in Child_ /\ d.pc = "gone" /\ d.out = <<>> /\ d.attempt = r.attempt /\ d.success = r.success
      /\ d.kbd = r.kbd
  BY DEF Gone, Child_, Pc
<1> SUFFICES Step(r, d, g, x)
  OBVIOUS
<1> HIDE DEF d
<1>2. Posed(d)
  BY <1>1, PosedNothing
<1>3. FairAt(d, d.pc, g, x)
  BY <1>1 DEF FairAt, Asking
<1> QED BY <1>1, <1>2, <1>3 DEF Step

\* userauth_finish counts the guess that is not yet counted.
LEMMA FinishStep ==
    ASSUME cf \in Config, NEW r \in Child_, r.out = <<>>, NEW a \in BOOLEAN, NEW method, NEW sub,
           NEW g \in Nat, NEW x,
           r.attempt = 0 => g = 0, r.kbd => r.attempt > 0,
           r.postponed \/ a => r.failures < cf.max_authtries /\ g <= r.failures + Extra,
           g <= r.failures + Extra + 1,
           method = "none" /\ r.attempt <= 1 => g <= r.failures + Extra, x # "Error"
    PROVE  Step(r, userauth_finish(r, a, method, sub), g, x)
<1> DEFINE d == userauth_finish(r, a, method, sub)
<1>1. FinishOK(r, d, a, method)
  BY FinishFacts
<1> SUFFICES Step(r, d, g, x)
  OBVIOUS
<1> HIDE DEF d
<1>2. /\ r.failures \in Nat /\ r.attempt \in Nat /\ d.failures \in Nat /\ cf.max_authtries \in Nat
      /\ Extra \in Nat
  BY <1>1 DEF FinishOK, Posed, Child_, Config, Extra
<1>3. /\ d.pc \in {"idle", "gone", "account", "done"} /\ d.attempt = r.attempt /\ d.kbd = r.kbd
      /\ Posed(d) /\ (r.success => d.success)
  BY <1>1 DEF FinishOK
<1>4. d.pc # "gone" => d.failures < cf.max_authtries
  BY <1>1, <1>2 DEF FinishOK
<1>5. d.pc \notin {"gone", "done"} => g <= d.failures + Extra
  BY <1>1, <1>2 DEF FinishOK
<1>6. FairAt(d, d.pc, g, x)
  BY <1>2, <1>3, <1>4, <1>5 DEF FairAt, Asking
<1> QED BY <1>3, <1>6 DEF Step

\* A request is about to be tried: no guess of an earlier one is uncounted.
Ready(r, g) ==
    /\ r \in Child_ /\ r.out = <<>> /\ g \in Nat
    /\ g <= r.failures + Extra
    /\ r.kbd \/ r.failures > 0 => r.failures < cf.max_authtries
    /\ r.attempt > 0 /\ (r.attempt = 1 => g = 0)

\* A request that is refused without a question.
LEMMA RefusedStep ==
    ASSUME cf \in Config, NEW r, NEW g, NEW x, x # "Error", Ready(r, g), ~r.postponed
    PROVE  Step(r, Refused(r), g, x)
<1>1. /\ r \in Child_ /\ r.out = <<>> /\ g \in Nat /\ r.attempt \in Nat /\ r.failures \in Nat
      /\ Extra \in Nat
  BY DEF Ready, Child_, Extra
<1>2. /\ r.attempt = 0 => g = 0
      /\ r.attempt > 0 /\ g <= r.failures + Extra /\ g <= r.failures + Extra + 1
  BY <1>1 DEF Ready
<1> QED BY <1>1, <1>2, FinishStep DEF Refused

\* One question is asked about a request that may be tried.
LEMMA TryAsk ==
    ASSUME cf \in Config, NEW r, NEW g, NEW x, x # "Error", Ready(r, g), ~r.postponed, r.failures < cf.max_authtries,
           NEW pc \in {"password", "allowed", "init"}, NEW q \in Request, Awaits(pc, q.type),
           pc = "password" /\ r.packet.method = "none" => cf.permit_empty_passwd,
           pc = "allowed" => r.packet.method \in {"publickey", "hostbased"}
    PROVE  Step(r, Ask(r, pc, <<q>>), g, x)
<1>1. /\ r \in Child_ /\ r.out = <<>> /\ g \in Nat /\ r.attempt \in Nat /\ r.failures \in Nat
      /\ Extra \in Nat
  BY DEF Ready, Child_, Extra
<1>2. pc \in Pc /\ pc # "gone" /\ q.type # "KEYEXPORT"
  BY DEF Pc, Awaits
<1>3. FairAt(r, pc, g, x)
  BY <1>1 DEF FairAt, Ready, Asking
<1> QED BY <1>1, <1>2, <1>3, AskStep

\* The requests to the monitor with arguments.
LEMMA Requests ==
    /\ \A w \in Secret : /\ [Req("AUTHPASSWORD") EXCEPT !.arg = w] \in Request
                         /\ [Req("AUTHPASSWORD") EXCEPT !.arg = w].type = "AUTHPASSWORD"
                         /\ [Req("PAM_RESPOND") EXCEPT !.arg = w] \in Request
                         /\ [Req("PAM_RESPOND") EXCEPT !.arg = w].type = "PAM_RESPOND"
    /\ \A pk \in PacketRec : /\ PubkeyReq(pk) \in Request /\ PubkeyReq(pk).type = "KEYALLOWED"
                             /\ [PubkeyReq(pk) EXCEPT !.type = "KEYVERIFY", !.arg = pk.sig] \in Request
                             /\ [PubkeyReq(pk) EXCEPT !.type = "KEYVERIFY", !.arg = pk.sig].type = "KEYVERIFY"
BY DEF Req, Request, PubkeyReq, PacketRec, Secret, Kind, KeyOrNone, ReqType, MON_ONCE, MON_AUTH, MON_AUTHDECIDE

\* Changing fields the guesses do not depend on.
LEMMA ReadyAfter ==
    ASSUME NEW r, NEW r1 \in Child_, NEW g, Ready(r, g), r1.out = r.out, r1.failures = r.failures,
           r1.kbd = r.kbd, r1.attempt = r.attempt
    PROVE  Ready(r1, g)
BY DEF Ready

\* Try: whatever the method, the invariants survive.
LEMMA TryStep ==
    ASSUME cf \in Config, NEW r0, NEW g, NEW x, x # "Error", Ready(r0, g)
    PROVE  Step(r0, Try(r0), g, x)
<1> DEFINE r == [r0 EXCEPT !.postponed = FALSE]
           method == r0.packet.method
<1>1. /\ r \in Child_ /\ r.out = r0.out /\ r.failures = r0.failures /\ r.kbd = r0.kbd /\ r.attempt = r0.attempt
      /\ r.packet = r0.packet /\ r.success = r0.success /\ ~r.postponed
  BY DEF Ready, Child_
<1>2. Ready(r, g)
  BY <1>1, ReadyAfter
<1>3. Try(r0) = IF ~authmethod_lookup(r, method) \/ r.failures >= cf.max_authtries THEN Refused(r)
                ELSE CASE method = "none"      -> userauth_none(r)
                       [] method = "password"  -> userauth_passwd(r)
                       [] method = "publickey" -> userauth_pubkey(r)
                       [] method = "hostbased" -> userauth_hostbased(r)
                       [] method = "kbdint"    -> userauth_kbdint(r)
  BY DEF Try
<1> HIDE DEF r
<1>4. r.packet \in PacketRec /\ method \in Method /\ r.packet.pw \in Secret /\ r.failures \in Nat
      /\ cf.max_authtries \in Nat /\ r.packet.method = method
  BY <1>1 DEF Child_, PacketRec, Config
<1>5. Step(r, Refused(r), g, x)
  BY <1>1, <1>2, RefusedStep
<1>6. SUFFICES Step(r, Try(r0), g, x)
  BY <1>1, StepFrom
<1>7. CASE ~authmethod_lookup(r, method) \/ r.failures >= cf.max_authtries
  BY <1>3, <1>5, <1>7
<1>8. CASE ~(~authmethod_lookup(r, method) \/ r.failures >= cf.max_authtries)
  <2>1. r.failures < cf.max_authtries
    BY <1>4, <1>8
  <2>2. CASE method = "none"
    <3> DEFINE r1 == [r EXCEPT !.none_enabled = FALSE]
               q == [Req("AUTHPASSWORD") EXCEPT !.arg = "empty"]
    <3>1. /\ r1 \in Child_ /\ r1.out = r.out /\ r1.failures = r.failures /\ r1.kbd = r.kbd
          /\ r1.attempt = r.attempt /\ r1.packet = r.packet /\ r1.success = r.success /\ ~r1.postponed
      BY <1>1 DEF Child_
    <3>2. Ready(r1, g)
      BY <1>2, <3>1, ReadyAfter
    <3>3. q \in Request /\ q.type = "AUTHPASSWORD"
      BY Requests DEF Secret
    <3>4. Try(r0) = IF cf.permit_empty_passwd /\ Enabled("password") THEN Ask(r1, "password", <<q>>) ELSE Refused(r1)
      BY <1>3, <1>8, <2>2 DEF userauth_none
    <3> HIDE DEF r1, q
    <3>5. Step(r1, Refused(r1), g, x)
      BY <3>1, <3>2, RefusedStep
    <3>6. cf.permit_empty_passwd => Step(r1, Ask(r1, "password", <<q>>), g, x)
      BY <2>1, <3>1, <3>2, <3>3, TryAsk DEF Awaits
    <3> QED BY <3>1, <3>4, <3>5, <3>6, StepFrom
  <2>3. CASE method = "password"
    <3> DEFINE q == [Req("AUTHPASSWORD") EXCEPT !.arg = r.packet.pw]
    <3>1. q \in Request /\ q.type = "AUTHPASSWORD"
      BY <1>4, Requests
    <3>2. Try(r0) = IF r.packet.pw = "change" THEN Refused(r) ELSE Ask(r, "password", <<q>>)
      BY <1>3, <1>8, <2>3 DEF userauth_passwd
    <3> HIDE DEF q
    <3>3. Step(r, Ask(r, "password", <<q>>), g, x)
      BY <1>1, <1>2, <1>4, <2>1, <2>3, <3>1, TryAsk DEF Awaits
    <3> QED BY <1>5, <3>2, <3>3
  <2>4. CASE method \in {"publickey", "hostbased"}
    <3> DEFINE q == PubkeyReq(r.packet)
    <3>1. q \in Request /\ q.type = "KEYALLOWED"
      BY <1>4, Requests
    <3>2. Try(r0) = Refused(r) \/ Try(r0) = Ask(r, "allowed", <<q>>)
      BY <1>3, <1>8, <2>4 DEF userauth_pubkey, userauth_hostbased
    <3> HIDE DEF q
    <3>3. Step(r, Ask(r, "allowed", <<q>>), g, x)
      BY <1>1, <1>2, <1>4, <2>1, <2>4, <3>1, TryAsk DEF Awaits
    <3> QED BY <1>5, <3>2, <3>3
  <2>5. CASE method = "kbdint"
    <3> DEFINE q == Req("PAM_INIT_CTX")
    <3>1. q \in Request /\ q.type = "PAM_INIT_CTX"
      BY ReqType_ DEF ReqType, MON_ONCE
    <3>2. Try(r0) = Refused(r) \/ Try(r0) = Ask(r, "init", <<q>>)
      BY <1>3, <1>8, <2>5 DEF userauth_kbdint
    <3> HIDE DEF q
    <3>3. Step(r, Ask(r, "init", <<q>>), g, x)
      BY <1>1, <1>2, <1>4, <2>1, <2>5, <3>1, TryAsk DEF Awaits
    <3> QED BY <1>5, <3>2, <3>3
  <2> QED BY <1>4, <2>2, <2>3, <2>4, <2>5 DEF Method
<1> QED BY <1>7, <1>8

\* The packets of the client.
LEMMA PacketFacts == Packet \subseteq PacketRec
BY DEF Packet, PacketRec, Method, Secret, KeyOrNone

\* auth2_challenge_stop, with or without a conversation to end.
LEMMA StopStep ==
    ASSUME NEW r \in Child_, r.out = <<>>, NEW pc \in {"stopping", "accepted", "refused"}, NEW g, NEW x,
           FairAt(r, pc, g, x)
    PROVE  Step(r, auth2_challenge_stop(r, pc), g, x)
<1>1. pc \in Pc /\ pc # "gone"
  BY DEF Pc
<1>2. CASE r.kbd
  <2> DEFINE r1 == [r EXCEPT !.kbd = FALSE]
             q == Req("PAM_FREE_CTX")
  <2>1. /\ r1 \in Child_ /\ r1.out = <<>> /\ r1.failures = r.failures /\ r1.kbd = FALSE /\ r1.attempt = r.attempt
        /\ r1.packet = r.packet /\ r1.success = r.success /\ r1.postponed = r.postponed
    BY DEF Child_
  <2>2. q \in Request /\ q.type = "PAM_FREE_CTX"
    BY ReqType_ DEF ReqType, MON_ONCE
  <2>3. auth2_challenge_stop(r, pc) = Ask(r1, pc, <<q>>)
    BY <1>2 DEF auth2_challenge_stop
  <2> HIDE DEF r1, q
  <2>4. FairAt(r1, pc, g, x)
    BY <1>2, <2>1 DEF FairAt
  <2>5. Step(r1, Ask(r1, pc, <<q>>), g, x)
    BY <1>1, <2>1, <2>2, <2>4, AskStep DEF Awaits
  <2> QED BY <2>1, <2>3, <2>5, StepFrom
<1>3. CASE ~r.kbd
  <2> DEFINE d == [r EXCEPT !.pc = pc]
  <2>1. auth2_challenge_stop(r, pc) = d
    BY <1>3 DEF auth2_challenge_stop
  <2>2. Moved(r, d) /\ d.pc = pc /\ d.out = <<>>
    BY <1>1 DEF Moved, Child_
  <2> HIDE DEF d
  <2>3. Step(r, d, g, x)
    BY <2>2, MoveStep
  <2> QED BY <2>1, <2>3
<1> QED BY <1>2, <1>3

\* input_userauth_request.
LEMMA RequestStep ==
    ASSUME cf \in Config, NEW r \in Child_, r.out = <<>>, NEW pk \in Packet, NEW g \in Nat, NEW x,
           FairAt(r, "idle", g, x)
    PROVE  Step(r, input_userauth_request(r, pk), g, x)
<1> DEFINE r1 == [r EXCEPT !.attempt = @ + 1, !.packet = pk]
           d == input_userauth_request(r, pk)
<1>1. /\ r.attempt \in Nat /\ r.failures \in Nat /\ cf.max_authtries \in Nat /\ pk \in PacketRec
      /\ Extra \in Nat
  BY PacketFacts DEF Child_, Config, Extra
<1>2. /\ r1 \in Child_ /\ r1.out = <<>> /\ r1.attempt = r.attempt + 1 /\ r1.failures = r.failures
      /\ r1.kbd = r.kbd /\ r1.success = r.success
  <2> DEFINE n == r.attempt + 1
  <2>0. n \in Nat
    BY <1>1
  <2>1. r1 = [r EXCEPT !.attempt = n, !.packet = pk]
    OBVIOUS
  <2> HIDE DEF n, r1
  <2>2. /\ r1 \in Child_ /\ r1.out = <<>> /\ r1.attempt = n /\ r1.failures = r.failures
        /\ r1.kbd = r.kbd /\ r1.success = r.success
    BY <1>1, <2>0, <2>1 DEF Child_
  <2> QED BY <2>2 DEF n, r1
<1>3. \/ d = Gone(r)
      \/ r.attempt = 0 /\ d = Ask(r1, "pwnam", <<Req("PWNAM")>>)
      \/ r.attempt # 0 /\ d = auth2_challenge_stop(r1, "stopping")
      \/ r.attempt # 0 /\ d = Try(r1)
  BY DEF input_userauth_request
<1> SUFFICES Step(r, d, g, x)
  OBVIOUS
<1> HIDE DEF r1, d
<1>4. CASE d = Gone(r)
  BY <1>4, GoneStep DEF FairAt
<1>5. CASE r.attempt = 0 /\ d = Ask(r1, "pwnam", <<Req("PWNAM")>>)
  <2>1. Req("PWNAM") \in Request /\ Req("PWNAM").type = "PWNAM" /\ "pwnam" \in Pc /\ Awaits("pwnam", "PWNAM")
    BY ReqType_ DEF ReqType, MON_ONCE, Pc, Awaits
  <2>2. FairAt(r1, "pwnam", g, x)
    BY <1>1, <1>2, <1>5 DEF FairAt, Asking
  <2>3. Step(r1, d, g, x)
    BY <1>2, <1>5, <2>1, <2>2, AskStep
  <2> QED BY <1>2, <2>3, StepFrom
<1>6. CASE r.attempt # 0 /\ d = auth2_challenge_stop(r1, "stopping")
  <2>1. FairAt(r1, "stopping", g, x)
    BY <1>1, <1>2, <1>6 DEF FairAt, Asking
  <2>2. Step(r1, d, g, x)
    BY <1>2, <1>6, <2>1, StopStep
  <2> QED BY <1>2, <2>2, StepFrom
<1>7. CASE r.attempt # 0 /\ d = Try(r1)
  <2>1. Ready(r1, g) /\ x # "Error"
    BY <1>1, <1>2, <1>7 DEF FairAt, Ready
  <2>2. Step(r1, d, g, x)
    BY <1>7, <2>1, TryStep
  <2> QED BY <1>2, <2>2, StepFrom
<1> QED BY <1>3, <1>4, <1>5, <1>6, <1>7

\* input_userauth_info_response.
LEMMA ResponseStep ==
    ASSUME cf \in Config, NEW r \in Child_, r.out = <<>>, NEW resp \in {"nothing", "good", "bad", "empty"},
           NEW g \in Nat, NEW x, FairAt(r, "idle", g, x)
    PROVE  Step(r, input_userauth_info_response(r, resp), g, x)
<1> DEFINE r1 == [r EXCEPT !.postponed = FALSE]
           q == [Req("PAM_RESPOND") EXCEPT !.arg = resp]
           d == input_userauth_info_response(r, resp)
<1>1. /\ r1 \in Child_ /\ r1.out = <<>> /\ r1.attempt = r.attempt /\ r1.failures = r.failures
      /\ r1.kbd = r.kbd /\ r1.success = r.success /\ r1.packet = r.packet /\ r1.postponed = FALSE
  BY DEF Child_
<1>2. q \in Request /\ q.type = "PAM_RESPOND"
  BY Requests DEF Secret
<1>3. d = Gone(r) \/ (r.kbd /\ d = Ask(r1, "respond", <<q>>))
  BY DEF input_userauth_info_response
<1> SUFFICES Step(r, d, g, x)
  OBVIOUS
<1> HIDE DEF r1, q, d
<1>4. CASE d = Gone(r)
  BY <1>4, GoneStep DEF FairAt
<1>5. CASE r.kbd /\ d = Ask(r1, "respond", <<q>>)
  <2>1. "respond" \in Pc /\ Awaits("respond", "PAM_RESPOND")
    BY DEF Pc, Awaits
  <2>2. FairAt(r1, "respond", g, x)
    BY <1>1, <1>5 DEF FairAt, Asking
  <2>3. Step(r1, d, g, x)
    BY <1>1, <1>2, <1>5, <2>1, <2>2, AskStep
  <2> QED BY <1>1, <2>3, StepFrom
<1> QED BY <1>3, <1>4, <1>5

\* Requests that need no answer, and then the question.
LEMMA AskManyStep ==
    ASSUME NEW r \in Child_, r.out = <<>>, NEW pc \in Pc, pc # "gone", NEW qs \in Seq(Request),
           \A i \in 1..Len(qs) : /\ i < Len(qs) => qs[i].type \in Silent
                                 /\ i = Len(qs) => Awaits(pc, qs[i].type)
                                 /\ qs[i].type # "KEYEXPORT",
           NEW g, NEW x, FairAt(r, pc, g, x)
    PROVE  Step(r, Ask(r, pc, qs), g, x)
<1> DEFINE d == Ask(r, pc, qs)
<1>1. Moved(r, d) /\ d.pc = pc /\ d.out = qs
  BY AskFacts
<1> SUFFICES Step(r, d, g, x)
  OBVIOUS
<1> HIDE DEF d
<1>2. FairAt(d, d.pc, g, x)
  BY <1>1 DEF FairAt, Moved
<1>3. Posed(d)
  BY <1>1 DEF Posed, Moved
<1> QED BY <1>1, <1>2, <1>3 DEF Step, Moved

\* The questions asked before the first request is tried.
LEMMA FirstSteps ==
    ASSUME NEW r \in Child_, r.out = <<>>, NEW g, NEW x
    PROVE  /\ FairAt(r, "sign", g, x) => Step(r, Ask(r, "sign", <<Req("SETCOMPAT"), Req("SIGN")>>), g, x)
           /\ FairAt(r, "banner", g, x) =>
                /\ Step(r, Ask(r, "banner", <<Req("AUTHSERV"), Req("READ_BANNER")>>), g, x)
                /\ Step(r, Ask(r, "banner", <<Req("PAM_START"), Req("AUTHSERV"), Req("READ_BANNER")>>), g, x)
<1> DEFINE a == <<Req("SETCOMPAT"), Req("SIGN")>>
           b == <<Req("AUTHSERV"), Req("READ_BANNER")>>
           e == <<Req("PAM_START"), Req("AUTHSERV"), Req("READ_BANNER")>>
<1>1. \A t \in {"SETCOMPAT", "SIGN", "AUTHSERV", "READ_BANNER", "PAM_START"} : Req(t) \in Request /\ Req(t).type = t
  BY ReqType_ DEF ReqType, MON_ONCE
<1>2. /\ a \in Seq(Request) /\ Len(a) = 2 /\ a[1].type = "SETCOMPAT" /\ a[2].type = "SIGN"
      /\ b \in Seq(Request) /\ Len(b) = 2 /\ b[1].type = "AUTHSERV" /\ b[2].type = "READ_BANNER"
      /\ e \in Seq(Request) /\ Len(e) = 3 /\ e[1].type = "PAM_START" /\ e[2].type = "AUTHSERV"
      /\ e[3].type = "READ_BANNER"
  BY <1>1
<1> HIDE DEF a, b, e
<1>3. /\ "sign" \in Pc /\ "banner" \in Pc /\ Awaits("sign", "SIGN") /\ Awaits("banner", "READ_BANNER")
      /\ {"SETCOMPAT", "AUTHSERV", "PAM_START"} \subseteq Silent
  BY DEF Pc, Awaits, Silent
<1>4. \A i \in 1..Len(a) : /\ i < Len(a) => a[i].type \in Silent
                           /\ i = Len(a) => Awaits("sign", a[i].type)
                           /\ a[i].type # "KEYEXPORT"
  BY <1>2, <1>3
<1>5. \A i \in 1..Len(b) : /\ i < Len(b) => b[i].type \in Silent
                           /\ i = Len(b) => Awaits("banner", b[i].type)
                           /\ b[i].type # "KEYEXPORT"
  BY <1>2, <1>3
<1>6. \A i \in 1..Len(e) : /\ i < Len(e) => e[i].type \in Silent
                           /\ i = Len(e) => Awaits("banner", e[i].type)
                           /\ e[i].type # "KEYEXPORT"
  BY <1>2, <1>3
<1>7. FairAt(r, "sign", g, x) => Step(r, Ask(r, "sign", a), g, x)
  BY <1>2, <1>3, <1>4, AskManyStep
<1>8. FairAt(r, "banner", g, x) => Step(r, Ask(r, "banner", b), g, x)
  BY <1>2, <1>3, <1>5, AskManyStep
<1>9. FairAt(r, "banner", g, x) => Step(r, Ask(r, "banner", e), g, x)
  BY <1>2, <1>3, <1>6, AskManyStep
<1> QED BY <1>7, <1>8, <1>9 DEF a, b, e

\* Resume, whatever sshd-auth waited for.
LEMMA ResumeStep ==
    ASSUME TypeInv, PipeInv, GuessInv, Waiting, m.out # <<>>
    PROVE  Step(c, Resume(c, Head(m.out)), guesses, m.ctxt)
<1> DEFINE ans == Head(m.out)
           d == Resume(c, ans)
           g == guesses
           x == m.ctxt
           pk == c.packet
<1>1. /\ cf \in Config /\ c \in Child_ /\ g \in Nat /\ m.out \in Seq(Reply)
      /\ c.out = <<>> /\ m.out = <<ans>> /\ ans \in Reply /\ m.out[1] = ans
  <2>1. cf \in Config /\ c \in Child_ /\ g \in Nat /\ m.out \in Seq(Reply)
    BY DEF TypeInv, Monitor_
  <2>2. c.out = <<>> /\ Len(m.out) = 1
    BY DEF PipeInv
  <2> QED BY <2>1, <2>2, OneElement
<1>2. /\ c.failures \in Nat /\ c.attempt \in Nat /\ cf.max_authtries \in Nat /\ Extra \in Nat /\ c.packet \in PacketRec
      /\ pk.method \in Method /\ pk.key \in KeyOrNone
  BY <1>1 DEF Child_, Config, Extra, PacketRec
<1>3. c.pc \in Pc \ {"gone", "done", "idle"}
  BY <1>1 DEF Waiting, Running, Child_
<1>4. /\ c.attempt = 0 \/ c.pc \in {"pwnam", "banner"} => g = 0
      /\ c.pc \in Asking \cup {"pwnam", "banner"} \/ c.kbd => c.attempt > 0
      /\ c.pc \in Asking => c.failures < cf.max_authtries /\ ~c.postponed
      /\ c.kbd \/ c.failures > 0 => c.failures < cf.max_authtries
      /\ c.pc \in {"allowed", "verify"} => pk.method \in {"publickey", "hostbased"}
      /\ c.pc = "stopping" => c.attempt > 1
      /\ c.pc = "password" /\ c.packet.method = "none" =>
           cf.permit_empty_passwd /\ (c.attempt <= 1 => g <= 1)
  <2>1. c.pc # "gone"
    BY <1>3
  <2>2. 0 <= 1 /\ g \in Nat
    BY <1>1
  <2> QED BY <1>2, <2>1, <2>2 DEF GuessInv
<1>5. g <= c.failures + Extra + (IF Late THEN 1 ELSE 0)
  BY <1>3 DEF GuessInv
<1>6. /\ g <= c.failures + Extra + 1
      /\ ~Late => g <= c.failures + Extra
  BY <1>1, <1>2, <1>5
<1>7. /\ c.pc \in {"state", "sign", "pwnam", "banner", "allowed", "init", "stopping", "accepted", "account"} => ~Late
      /\ c.pc \in {"password", "verify"} /\ ans # "no" => ~Late
      /\ c.pc \in {"query", "respond"} => ~Late
  BY <1>1 DEF Late, GuessInv
<1>8. x = "Error" => c.pc = "query" /\ ans = "error"
  BY <1>1, <1>3 DEF GuessInv, EndedAt
<1> SUFFICES Step(c, d, g, x)
  OBVIOUS
<1>a. ASSUME NEW pc \in {"sign", "idle"}, c.pc \in {"state", "sign"} PROVE FairAt(c, pc, g, x)
  BY <1>2, <1>4, <1>6, <1>7, <1>8, <1>a DEF FairAt, Asking
<1>b. CASE c.pc = "state"
  <2>1. d = Ask(c, "sign", <<Req("SETCOMPAT"), Req("SIGN")>>)
    BY <1>b DEF Resume
  <2> QED BY <1>1, <1>a, <1>b, <2>1, FirstSteps
<1>c. CASE c.pc = "sign"
  <2>1. d = [c EXCEPT !.pc = "idle"]
    BY <1>c DEF Resume
  <2> HIDE DEF d
  <2>2. Moved(c, d) /\ d.pc = "idle" /\ d.out = <<>>
    BY <1>1, <2>1 DEF Moved, Child_, Pc
  <2> QED BY <1>a, <1>c, <2>2, MoveStep
<1>d. CASE c.pc = "pwnam"
  <2> DEFINE r == [c EXCEPT !.valid = cf.valid /\ cf.ssh_connection]
  <2>1. r \in Child_ /\ r.out = <<>> /\ r.failures = c.failures /\ r.attempt = c.attempt /\ r.kbd = c.kbd
        /\ r.success = c.success
    BY <1>1 DEF Child_, Config
  <2>2. d = mm_getpwnamallow(c)
    BY <1>d DEF Resume
  <2>3. \/ d = Ask(r, "banner", <<Req("AUTHSERV"), Req("READ_BANNER")>>)
        \/ d = Ask(r, "banner", <<Req("PAM_START"), Req("AUTHSERV"), Req("READ_BANNER")>>)
    <3> DEFINE b == <<Req("AUTHSERV"), Req("READ_BANNER")>>
    <3>1. \A t \in {"AUTHSERV", "READ_BANNER", "PAM_START"} : Req(t) \in Request
      BY ReqType_ DEF ReqType, MON_ONCE
    <3>2. <<>> \o b = b
      BY <3>1, ConcatEmptySeq
    <3>3. <<Req("PAM_START")>> \o b = <<Req("PAM_START"), Req("AUTHSERV"), Req("READ_BANNER")>>
      BY <3>1, ThreeElements
    <3> QED BY <2>2, <3>2, <3>3 DEF mm_getpwnamallow
  <2> HIDE DEF r, d
  <2>4. FairAt(r, "banner", g, x)
    BY <1>2, <1>4, <1>6, <1>7, <1>8, <1>d, <2>1 DEF FairAt, Asking
  <2>5. Step(r, d, g, x)
    BY <2>1, <2>3, <2>4, FirstSteps
  <2> QED BY <2>1, <2>5, StepFrom
<1>e. CASE c.pc = "banner"
  <2> DEFINE r == [c EXCEPT !.lists = auth2_setup_methods_lists]
  <2>1. r \in Child_ /\ r.out = <<>> /\ r.failures = c.failures /\ r.attempt = c.attempt /\ r.kbd = c.kbd
        /\ r.success = c.success
    BY <1>1, SetupLists DEF Child_
  <2>2. d = Gone(c) \/ d = Try(r)
    BY <1>e DEF Resume, SetupDone
  <2> HIDE DEF r, d
  <2>3. Ready(r, g)
    BY <1>1, <1>2, <1>4, <1>e, <2>1 DEF Ready
  <2>4. Step(r, Try(r), g, x)
    BY <1>1, <1>8, <1>e, <2>3, TryStep
  <2>5. Step(c, Gone(c), g, x)
    BY <1>1, <1>4, GoneStep
  <2> QED BY <2>1, <2>2, <2>4, <2>5, StepFrom
<1>f. CASE c.pc = "password"
  <2>1. d = userauth_finish(c, ans = "yes", pk.method, "")
    BY <1>f DEF Resume, mm_auth_password
  <2>2. c.failures < cf.max_authtries /\ ~c.postponed
    BY <1>4, <1>f DEF Asking
  <2>3. ans = "yes" => g <= c.failures + Extra
    BY <1>6, <1>7, <1>f
  <2>4. pk.method = "none" /\ c.attempt <= 1 => g <= c.failures + Extra
    BY <1>1, <1>2, <1>4, <1>f DEF Extra
  <2> DEFINE a == ans = "yes"
  <2>5. a \in BOOLEAN
    OBVIOUS
  <2>6. a => g <= c.failures + Extra
    BY <2>3
  <2>7. d = userauth_finish(c, a, pk.method, "")
    BY <2>1
  <2> HIDE DEF d, a
  <2> QED BY <1>1, <1>4, <1>6, <1>8, <1>f, <2>2, <2>4, <2>5, <2>6, <2>7, FinishStep
<1>g. ASSUME c.pc \in Asking PROVE c.failures < cf.max_authtries /\ c.postponed = FALSE
  BY <1>1, <1>4, <1>g DEF Child_
<1>h. CASE c.pc = "allowed"
  <2> DEFINE r == [c EXCEPT !.postponed = TRUE]
             q == [PubkeyReq(pk) EXCEPT !.type = "KEYVERIFY", !.arg = pk.sig]
  <2>1. \/ d = userauth_finish(c, FALSE, pk.method, "")
        \/ d = userauth_finish(r, FALSE, pk.method, "")
        \/ d = Ask(c, "verify", <<q>>)
    BY <1>h DEF Resume, KeyAllowed
  <2>2. r \in Child_ /\ r.out = <<>> /\ r.failures = c.failures /\ r.attempt = c.attempt /\ r.success = c.success
        /\ r.kbd = c.kbd
    BY <1>1 DEF Child_
  <2>3. c.failures < cf.max_authtries /\ c.postponed = FALSE /\ g <= c.failures + Extra
    BY <1>6, <1>7, <1>g, <1>h DEF Asking
  <2>4. q \in Request /\ q.type = "KEYVERIFY"
    BY <1>2, Requests
  <2> HIDE DEF d, r, q
  <2>5. Step(c, userauth_finish(c, FALSE, pk.method, ""), g, x)
    BY <1>1, <1>4, <1>6, <1>8, <1>h, <2>3, FinishStep
  <2>6. Step(r, userauth_finish(r, FALSE, pk.method, ""), g, x)
    BY <1>1, <1>4, <1>6, <1>8, <1>h, <2>2, <2>3, FinishStep
  <2>7. FairAt(c, "verify", g, x)
    BY <1>2, <1>4, <1>8, <1>h, <2>3 DEF FairAt, Asking
  <2>8. Step(c, Ask(c, "verify", <<q>>), g, x)
    <3>1. "verify" \in Pc /\ Awaits("verify", "KEYVERIFY")
      BY DEF Pc, Awaits
    <3> QED BY <1>1, <2>4, <2>7, <3>1, AskStep
  <2> QED BY <2>1, <2>2, <2>5, <2>6, <2>8, StepFrom
<1>i. CASE c.pc = "verify"
  <2> DEFINE ok == ans = "yes"
             r1 == auth2_record_key(c, ok, pk.key)
             r2 == IF ok /\ pk.method = "publickey" THEN auth_activate_options(r1, pk.key) ELSE r1
             a == ok /\ (pk.method = "publickey" => r2.force_command # "NULL")
  <2>1. d = Gone(c) \/ d = userauth_finish(r2, a, pk.method, "")
    BY <1>i DEF Resume, mm_sshkey_verify
  <2>2. r1 \in Child_ /\ r1.out = <<>> /\ r1.failures = c.failures /\ r1.attempt = c.attempt
        /\ r1.success = c.success /\ r1.postponed = c.postponed /\ r1.kbd = c.kbd
    BY <1>1, <1>2 DEF Child_, auth2_record_key
  <2> HIDE DEF r1
  <2>3. pk.key \in Keys /\ cf.force[pk.key] \in STRING
    BY <1>1, <1>2, <1>4, <1>i DEF PacketRec, Config
  <2>4. r2 \in Child_ /\ r2.out = <<>> /\ r2.failures = c.failures /\ r2.attempt = c.attempt
        /\ r2.success = c.success /\ r2.postponed = c.postponed /\ r2.kbd = c.kbd
    <3>1. CASE r2 = r1
      BY <2>2, <3>1
    <3>2. CASE r2 = auth_activate_options(r1, pk.key)
      <4> DEFINE f == IF r1.force_command # "" /\ cf.force[pk.key] # "" /\ r1.force_command # cf.force[pk.key]
                      THEN "NULL" ELSE IF r1.force_command = "" THEN cf.force[pk.key] ELSE r1.force_command
      <4>1. f \in Command
        BY <2>2, <2>3 DEF Command, Child_
      <4>2. r2 = [r1 EXCEPT !.force_command = f]
        BY <3>2 DEF auth_activate_options
      <4> HIDE DEF f, r2
      <4> QED BY <2>2, <4>1, <4>2 DEF Child_
    <3> QED BY <3>1, <3>2
  <2>5. a \in BOOLEAN /\ (a => g <= c.failures + Extra)
    BY <1>6, <1>7, <1>i
  <2>6. c.failures < cf.max_authtries /\ c.postponed = FALSE /\ pk.method # "none"
    BY <1>4, <1>g, <1>i DEF Asking
  <2> HIDE DEF d, r2, a
  <2>7. Step(r2, userauth_finish(r2, a, pk.method, ""), g, x)
    BY <1>1, <1>4, <1>6, <1>8, <1>i, <2>4, <2>5, <2>6, FinishStep
  <2>8. Step(c, Gone(c), g, x)
    BY <1>1, <1>4, GoneStep
  <2> QED BY <2>1, <2>4, <2>7, <2>8, StepFrom
<1>j. ASSUME NEW sub, c.pc \in Asking, x # "Error", g <= c.failures + Extra + 1
      PROVE  Step(c, userauth_finish(c, FALSE, "kbdint", sub), g, x)
  BY <1>1, <1>4, <1>g, <1>j, FinishStep
<1>k. CASE c.pc = "init"
  <2> DEFINE r == [c EXCEPT !.kbd = TRUE]
  <2>1. d = userauth_finish(c, FALSE, "kbdint", "") \/ d = Ask(r, "query", <<Req("PAM_QUERY")>>)
    BY <1>k DEF Resume, mm_sshpam_init_ctx
  <2>2. r \in Child_ /\ r.out = <<>> /\ r.failures = c.failures /\ r.attempt = c.attempt /\ r.success = c.success
        /\ r.postponed = c.postponed
    BY <1>1 DEF Child_
  <2>3. c.failures < cf.max_authtries /\ c.postponed = FALSE /\ g <= c.failures + Extra /\ c.pc \in Asking
    BY <1>6, <1>7, <1>g, <1>k DEF Asking
  <2>4. Req("PAM_QUERY") \in Request /\ Req("PAM_QUERY").type = "PAM_QUERY"
    BY ReqType_ DEF ReqType
  <2>5. "query" \in Pc /\ Awaits("query", "PAM_QUERY")
    BY DEF Pc, Awaits
  <2> HIDE DEF d, r
  <2>6. FairAt(r, "query", g, x)
    BY <1>1, <1>2, <1>4, <1>8, <1>k, <2>2, <2>3 DEF FairAt, Asking
  <2>7. Step(r, Ask(r, "query", <<Req("PAM_QUERY")>>), g, x)
    BY <2>2, <2>4, <2>5, <2>6, AskStep
  <2> QED BY <1>6, <1>8, <1>j, <1>k, <2>1, <2>2, <2>3, <2>7, StepFrom
<1>l. CASE c.pc = "query"
  <2>1. CASE ans # "error"
    <3> DEFINE n == IF ans = "prompt" THEN 1 ELSE 0
               r == [c EXCEPT !.nreq = n, !.postponed = TRUE, !.pc = "idle"]
    <3>1. d = r
      BY <1>l, <2>1 DEF Resume, mm_sshpam_query
    <3>2. n \in {0, 1}
      OBVIOUS
    <3> HIDE DEF n
    <3>3. r \in Child_ /\ r.out = <<>> /\ r.failures = c.failures /\ r.attempt = c.attempt /\ r.success = c.success
          /\ r.pc = "idle" /\ r.kbd = c.kbd
      BY <1>1, <3>2 DEF Child_, Pc
    <3>4. c.failures < cf.max_authtries /\ g <= c.failures + Extra
      BY <1>6, <1>7, <1>g, <1>l, <2>1 DEF Asking
    <3> HIDE DEF r, d
    <3>5. Posed(r)
      BY <3>3, PosedNothing
    <3>6. FairAt(r, r.pc, g, x)
      BY <1>1, <1>2, <1>4, <1>8, <2>1, <3>3, <3>4 DEF FairAt, Asking
    <3> QED BY <3>1, <3>3, <3>5, <3>6 DEF Step
  <2>2. CASE ans = "error"
    <3>1. d = auth2_challenge_stop(c, "refused")
      BY <1>l, <2>2 DEF Resume, mm_sshpam_query
    <3>2. FairAt(c, "refused", g, x)
      BY <1>1, <1>2, <1>4, <1>6, <1>7, <1>l DEF FairAt, Asking
    <3> HIDE DEF d
    <3> QED BY <1>1, <3>1, <3>2, StopStep
  <2> QED BY <2>1, <2>2
<1>m. CASE c.pc = "respond"
  <2>1. ans \in {"ok", "again", "error"}
    BY <1>1, <1>m DEF PipeInv
  <2>2. FairAt(c, "refused", g, x)
    BY <1>1, <1>2, <1>4, <1>6, <1>7, <1>8, <1>m DEF FairAt, Asking
  <2>3. CASE ans = "again"
    <3>1. d = Ask(c, "query", <<Req("PAM_QUERY")>>)
      BY <1>m, <2>3 DEF Resume, mm_sshpam_respond
    <3>2. Req("PAM_QUERY") \in Request /\ Req("PAM_QUERY").type = "PAM_QUERY"
      BY ReqType_ DEF ReqType
    <3>3. "query" \in Pc /\ Awaits("query", "PAM_QUERY")
      BY DEF Pc, Awaits
    <3>4. FairAt(c, "query", g, x)
      BY <1>1, <1>2, <1>4, <1>6, <1>7, <1>8, <1>m DEF FairAt, Asking
    <3> HIDE DEF d
    <3> QED BY <1>1, <3>1, <3>2, <3>3, <3>4, AskStep
  <2>4. CASE ans # "again"
    <3>1. d = auth2_challenge_stop(c, "refused") \/ (ans = "ok" /\ d = auth2_challenge_stop(c, "accepted"))
      BY <1>m, <2>1, <2>4 DEF Resume, mm_sshpam_respond
    <3>2. ans = "ok" => FairAt(c, "accepted", g, x)
      BY <1>1, <1>2, <1>4, <1>6, <1>7, <1>8, <1>m DEF FairAt, Asking
    <3> HIDE DEF d
    <3> QED BY <1>1, <2>2, <3>1, <3>2, StopStep
  <2> QED BY <2>3, <2>4
<1>n. CASE c.pc = "stopping"
  <2>1. d = Try(c)
    BY <1>n DEF Resume
  <2>2. Ready(c, g)
    BY <1>1, <1>2, <1>4, <1>6, <1>7, <1>n DEF Ready
  <2> QED BY <1>1, <1>8, <1>n, <2>1, <2>2, TryStep
<1>o. CASE c.pc = "accepted"
  <2>1. d = userauth_finish(c, TRUE, "kbdint", "pam")
    BY <1>o DEF Resume
  <2>2. c.failures < cf.max_authtries /\ g <= c.failures + Extra
    BY <1>6, <1>7, <1>g, <1>o DEF Asking
  <2> HIDE DEF d
  <2> QED BY <1>1, <1>4, <1>6, <1>8, <1>o, <2>1, <2>2, FinishStep
<1>p. CASE c.pc = "refused"
  <2>1. d = userauth_finish(c, FALSE, "kbdint", "pam")
    BY <1>p DEF Resume
  <2>2. c.pc \in Asking
    BY <1>p DEF Asking
  <2> HIDE DEF d
  <2> QED BY <1>6, <1>8, <1>j, <1>p, <2>1, <2>2
<1>q. CASE c.pc = "account"
  <2> DEFINE e == userauth_success(c)
  <2>1. d = Gone(c) \/ d = e
    BY <1>q DEF Resume, mm_do_pam_account
  <2>2. Step(c, Gone(c), g, x)
    BY <1>1, <1>4, GoneStep
  <2>3. Posed(e) /\ e.pc = "done" /\ e.kbd = c.kbd /\ e.attempt = c.attempt
        /\ e.packet = c.packet /\ e.success = TRUE /\ e.failures = c.failures
    BY <1>1, SuccessFacts
  <2> HIDE DEF d, e
  <2>4. Step(c, e, g, x)
    BY <1>4, <1>8, <1>q, <2>3 DEF Step, FairAt, Asking
  <2> QED BY <2>1, <2>2, <2>4
<1> QED BY <1>3, <1>b, <1>c, <1>d, <1>e, <1>f, <1>h, <1>i, <1>k, <1>l, <1>m, <1>n, <1>o, <1>p, <1>q DEF Pc

----------------------------------------------------------------------------
(* The monitor. *)

\* An answer on the pipe.
LEMMA AnswerSeq ==
    ASSUME NEW s \in Monitor_, NEW a \in Reply
    PROVE  /\ Append(s.out, a) \in Seq(Reply)
           /\ s.out = <<>> => Append(s.out, a) = <<a>>
<1>1. s.out \in Seq(Reply)
  BY DEF Monitor_
<1>2. <<a>> \in Seq(Reply) /\ <<>> \o <<a>> = <<a>>
  BY ConcatEmptySeq
<1>3. Append(s.out, a) \in Seq(Reply) /\ Append(s.out, a) = s.out \o <<a>>
  BY <1>1, AppendProperties, AppendIsConcat
<1> QED BY <1>2, <1>3

\* What one request does to the monitor before it is judged: to its lists and
\* the user, to the keys, to the answers and the guesses.
HandleLists(s, r) ==
    /\ r.m \in Monitor_ /\ r.m.phase \in {"preauth", "fatal"}
    /\ r.proof = <<>> \/ \E p \in ProofRec : r.proof = <<p>>
    /\ r.m.phase = "fatal" => r.proof = <<>>
    /\ r.m.lists \in {s.lists, auth2_setup_methods_lists}
    /\ r.m.valid => s.valid \/ cf.valid

HandleKeys(s, r) ==
    /\ s.prev_keys \subseteq r.m.prev_keys
    /\ \/ r.m.key_blob.key = NoKey
       \/ r.m.key_blob = s.key_blob /\ r.m.prev_keys = s.prev_keys
       \/ r.m.key_blob.key \notin s.prev_keys /\ r.m.prev_keys = s.prev_keys
    /\ r.proof # <<>> /\ r.proof[1].key # NoKey =>
         r.proof[1].key = s.key_blob.key /\ r.proof[1].key \in r.m.prev_keys

HandlePipe(s, q, r) ==
    /\ q.type \in Silent \/ r.m.phase = "fatal" => r.m.out = s.out /\ r.m.ctxt = s.ctxt
    /\ s.out = <<>> /\ r.m.out # <<>> =>
         \E a \in Reply : /\ r.m.out = <<a>>
                          /\ q.type = "PAM_RESPOND" => a \in {"ok", "again", "error"}
    /\ r.m.ctxt = "Error" =>
         \/ s.ctxt = "Error" /\ (q.type = "PAM_FREE_CTX" => r.m.out = s.out)
         \/ s.out = <<>> => q.type = "PAM_QUERY" /\ r.m.out = <<"error">>
    /\ s.out = <<>> /\ Wrong(s, q, r) =>
         \/ q.type \in {"AUTHPASSWORD", "KEYVERIFY"} /\ r.m.out = <<"no">>
         \/ q.type = "PAM_FREE_CTX" /\ s.ctxt = "Error" /\ r.m.out # <<>>

HandleOK(s, q, r) == HandleLists(s, r) /\ HandleKeys(s, r) /\ HandlePipe(s, q, r)

\* A handler that ends the monitor.
LEMMA FatalOK ==
    ASSUME NEW s \in Monitor_, NEW q, NEW why \in Why, q.type \in ReqType,
           q.type = "PAM_FREE_CTX" => s.ctxt # "Error"
    PROVE  HandleOK(s, q, Plain(Fatal(s, why)))
<1> DEFINE t == Fatal(s, why)
           r == Plain(t)
<1>1. /\ t \in Monitor_ /\ t.phase = "fatal" /\ t.out = s.out /\ t.ctxt = s.ctxt /\ t.lists = s.lists
      /\ t.valid = s.valid /\ t.prev_keys = s.prev_keys /\ t.key_blob = s.key_blob
  BY DEF Fatal, Monitor_, Phase
<1>2. r.m = t /\ r.proof = <<>>
  BY DEF Plain
<1> SUFFICES HandleOK(s, q, r)
  OBVIOUS
<1> HIDE DEF t, r
<1>3. HandleLists(s, r) /\ HandleKeys(s, r)
  BY <1>1, <1>2 DEF HandleLists, HandleKeys
<1>4. ~Wrong(s, q, r)
  BY <1>1, <1>2 DEF Wrong
<1>5. HandlePipe(s, q, r)
  BY <1>1, <1>2, <1>4 DEF HandlePipe
<1> QED BY <1>3, <1>5 DEF HandleOK

\* The handlers that verify nothing: most fields stay, there may be an answer.
LEMMA PlainOK ==
    ASSUME NEW s \in Monitor_, s.phase = "preauth", NEW q, NEW r, r.proof = <<>>, r.m \in Monitor_,
           r.m.phase = "preauth", r.m.lists \in {s.lists, auth2_setup_methods_lists},
           r.m.valid => s.valid \/ cf.valid, r.m.prev_keys = s.prev_keys, r.m.key_blob = s.key_blob,
           q.type \in Silent => r.m.out = s.out, r.m.ctxt = s.ctxt,
           q.type \notin {"AUTHPASSWORD", "KEYVERIFY", "PAM_QUERY", "PAM_RESPOND", "PAM_FREE_CTX"},
           NEW a \in Reply, a # "ok", r.m.out \in {s.out, Append(s.out, a)}
    PROVE  HandleOK(s, q, r)
<1>1. HandleLists(s, r) /\ HandleKeys(s, r)
  BY DEF HandleLists, HandleKeys
<1>2. ~Wrong(s, q, r)
  BY DEF Wrong
<1>3. s.out = <<>> => r.m.out \in {<<>>, <<a>>}
  BY AnswerSeq
<1>4. HandlePipe(s, q, r)
  BY <1>2, <1>3 DEF HandlePipe
<1> QED BY <1>1, <1>4 DEF HandleOK

\* The requests before the first method is tried.
LEMMA HandleStart ==
    ASSUME cf \in Config, NEW s \in Monitor_, s.phase = "preauth", NEW q \in Request, NEW word,
           q.type \in {"STATE", "SETCOMPAT", "SIGN", "PWNAM", "AUTHSERV", "READ_BANNER", "PAM_START"}
    PROVE  HandleOK(s, q, Handle(s, q, word))
<1> DEFINE r == Handle(s, q, word)
<1> SUFFICES HandleOK(s, q, r)
  OBVIOUS
<1>0. q.type \in ReqType
  BY DEF Request
<1>1. CASE q.type \in {"STATE", "READ_BANNER"}
  <2> PICK a \in {"state", "banner"} : r = Plain(Answer(s, a))
    BY <1>1 DEF Handle, mm_answer_state, mm_answer_auth2_read_banner
  <2>1. a \in Reply /\ a # "ok" /\ q.type \notin Silent
    BY <1>1 DEF Reply, Silent
  <2> DEFINE o == Append(s.out, a)
             t == [s EXCEPT !.out = o]
  <2>2. o \in Seq(Reply)
    BY <2>1, AnswerSeq
  <2>3. r.m = t /\ r.proof = <<>>
    BY DEF Plain, Answer
  <2> HIDE DEF o, r
  <2>4. /\ t \in Monitor_ /\ t.phase = s.phase /\ t.out = o /\ t.ctxt = s.ctxt /\ t.lists = s.lists
        /\ t.valid = s.valid /\ t.prev_keys = s.prev_keys /\ t.key_blob = s.key_blob
    BY <2>2 DEF Monitor_
  <2>5. r.m.out \in {s.out, Append(s.out, a)}
    BY <2>3, <2>4 DEF o
  <2> HIDE DEF t
  <2> QED BY <1>1, <2>1, <2>3, <2>4, <2>5, PlainOK
<1>2. CASE q.type = "SETCOMPAT"
  <2> DEFINE t == [s EXCEPT !.compat_set = TRUE]
  <2>1. r.m = t /\ r.proof = <<>>
    BY <1>2 DEF Handle, mm_answer_setcompat, Plain
  <2>2. /\ t \in Monitor_ /\ t.phase = s.phase /\ t.out = s.out /\ t.ctxt = s.ctxt /\ t.lists = s.lists
        /\ t.valid = s.valid /\ t.prev_keys = s.prev_keys /\ t.key_blob = s.key_blob
    BY DEF Monitor_
  <2>3. "state" \in Reply
    BY DEF Reply
  <2> HIDE DEF t, r
  <2> QED BY <1>2, <2>1, <2>2, <2>3, PlainOK
<1>3. CASE q.type \in {"AUTHSERV", "PAM_START"}
  <2> PICK types \in SUBSET (ReqType \ {"KEYEXPORT"}) : r = Plain(Permit(s, types))
    <3> DEFINE more == {"PAM_ACCOUNT"} \cup (IF Enabled("kbdint") THEN {"PAM_INIT_CTX"} ELSE {})
    <3>1. MON_AUTH \in SUBSET (ReqType \ {"KEYEXPORT"}) /\ more \in SUBSET (ReqType \ {"KEYEXPORT"})
      BY DEF ReqType, MON_AUTH, MON_AUTHDECIDE, MON_ONCE
    <3>2. r = Plain(Permit(s, MON_AUTH)) \/ r = Plain(Permit(s, more))
      BY <1>3 DEF Handle, mm_answer_authserv, mm_answer_pam_start
    <3> HIDE DEF r, more
    <3> QED BY <3>1, <3>2
  <2> DEFINE t == [s EXCEPT !.permit = @ \cup types]
  <2>1. r.m = t /\ r.proof = <<>>
    BY DEF Plain, Permit
  <2>2. /\ t \in Monitor_ /\ t.phase = s.phase /\ t.out = s.out /\ t.ctxt = s.ctxt /\ t.lists = s.lists
        /\ t.valid = s.valid /\ t.prev_keys = s.prev_keys /\ t.key_blob = s.key_blob
    BY DEF Monitor_
  <2>3. "state" \in Reply
    BY DEF Reply
  <2> HIDE DEF t, r
  <2> QED BY <1>3, <2>1, <2>2, <2>3, PlainOK
<1>4. CASE q.type \in {"SIGN", "PWNAM"} /\ \E why \in Why : r = Plain(Fatal(s, why))
  BY <1>0, <1>4, FatalOK
<1>5. CASE q.type = "SIGN" /\ r = Plain(Permit(Answer(s, "signature"), {"PWNAM"}))
  <2> DEFINE o == Append(s.out, "signature")
             types == s.permit \cup {"PWNAM"}
             t == [s EXCEPT !.out = o, !.permit = types]
  <2>1. "signature" \in Reply /\ o \in Seq(Reply) /\ types \in SUBSET (ReqType \ {"KEYEXPORT"}) /\ q.type \notin Silent
    BY <1>5, AnswerSeq DEF Reply, Monitor_, ReqType, MON_ONCE, Silent
  <2>2. r.m = t /\ r.proof = <<>>
    <3> HIDE DEF r
    <3> QED BY <1>5 DEF Plain, Answer, Permit, Monitor_
  <2> HIDE DEF o, types, r
  <2>3. /\ t \in Monitor_ /\ t.phase = s.phase /\ t.out = o /\ t.ctxt = s.ctxt /\ t.lists = s.lists
        /\ t.valid = s.valid /\ t.prev_keys = s.prev_keys /\ t.key_blob = s.key_blob
    BY <2>1 DEF Monitor_
  <2>4. r.m.out \in {s.out, Append(s.out, "signature")}
    BY <2>2, <2>3 DEF o
  <2> HIDE DEF t
  <2> QED BY <1>5, <2>1, <2>2, <2>3, <2>4, PlainOK
<1>6. CASE q.type = "PWNAM" /\ r \notin {Plain(Fatal(s, "state error")), Plain(Fatal(s, "multiple attempts"))}
  <2> DEFINE a == Said(cf.valid)
             o == Append(s.out, a)
             types == s.permit \cup ({"AUTHSERV", "READ_BANNER"} \cup (IF cf.pam THEN {"PAM_START"} ELSE {}))
             t == [s EXCEPT !.attempt = 1, !.valid = cf.valid, !.lists = auth2_setup_methods_lists,
                            !.out = o, !.permit = types]
  <2>1. /\ a \in Reply /\ a # "ok" /\ cf.valid \in BOOLEAN /\ auth2_setup_methods_lists \in Lists /\ q.type \notin Silent
        /\ types \in SUBSET (ReqType \ {"KEYEXPORT"})
    BY <1>6, SetupLists DEF Said, Reply, Config, Monitor_, ReqType, MON_ONCE, Silent
  <2>2. o \in Seq(Reply)
    BY <2>1, AnswerSeq
  <2>3. r.m = t /\ r.proof = <<>>
    BY <1>6 DEF Handle, mm_answer_pwnamallow, Plain, Answer, Permit, Monitor_
  <2> HIDE DEF a, o, types, r
  <2>4. /\ t \in Monitor_ /\ t.phase = s.phase /\ t.out = o /\ t.ctxt = s.ctxt /\ t.lists = auth2_setup_methods_lists
        /\ t.valid = cf.valid /\ t.prev_keys = s.prev_keys /\ t.key_blob = s.key_blob
    BY <2>1, <2>2 DEF Monitor_
  <2>5. r.m.out \in {s.out, Append(s.out, a)}
    BY <2>3, <2>4 DEF o
  <2> HIDE DEF t
  <2> QED BY <1>6, <2>1, <2>3, <2>4, <2>5, PlainOK
<1>7. q.type = "SIGN" => r \in {Plain(Fatal(s, "state error")), Plain(Permit(Answer(s, "signature"), {"PWNAM"}))}
  BY DEF Handle, mm_answer_sign
<1>8. "state error" \in Why /\ "multiple attempts" \in Why
  BY DEF Why
<1> QED BY <1>1, <1>2, <1>3, <1>4, <1>5, <1>6, <1>7, <1>8

\* A password, or PAM's word on an account: an answer, and perhaps a proof
\* without a key.
LEMMA HandlePassword ==
    ASSUME cf \in Config, NEW s \in Monitor_, s.phase = "preauth", NEW q \in Request, NEW word,
           q.type \in {"AUTHPASSWORD", "PAM_ACCOUNT"}
    PROVE  HandleOK(s, q, Handle(s, q, word))
<1> DEFINE r == Handle(s, q, word)
<1> SUFFICES HandleOK(s, q, r)
  OBVIOUS
<1>1. CASE r = Plain(Fatal(s, "password authentication not enabled"))
  <2>1. "password authentication not enabled" \in Why /\ q.type \in ReqType
    BY DEF Why, Request
  <2> HIDE DEF r
  <2> QED BY <1>1, <2>1, FatalOK
<1>2. CASE r # Plain(Fatal(s, "password authentication not enabled"))
  <2>1. PICK ok \in BOOLEAN, b \in BOOLEAN, method \in {"none", "password", "unknown"} :
          r = Result(Answer([s EXCEPT !.called = b], Said(ok)), ok, Proof(method, "", NoKey))
    <3>1. CASE q.type = "AUTHPASSWORD"
      <4> DEFINE ok == auth_password(s, q.arg)
                 method == IF q.arg = "empty" /\ ~s.called THEN "none" ELSE "password"
      <4>1. ok \in BOOLEAN
        BY DEF auth_password
      <4>2. r = Result(Answer([s EXCEPT !.called = TRUE], Said(ok)), ok, Proof(method, "", NoKey))
        BY <1>2, <3>1 DEF Handle, mm_answer_authpassword
      <4>3. method \in {"none", "password", "unknown"}
        OBVIOUS
      <4> HIDE DEF ok, method, r
      <4> QED BY <4>1, <4>2, <4>3
    <3>2. CASE q.type = "PAM_ACCOUNT"
      <4>1. cf.pam_account \in BOOLEAN /\ s.called \in BOOLEAN /\ s = [s EXCEPT !.called = s.called]
        BY DEF Config, Monitor_
      <4>2. r = Result(Answer(s, Said(cf.pam_account)), cf.pam_account, Proof("unknown", "", NoKey))
        BY <3>2 DEF Handle, mm_answer_pam_account
      <4> HIDE DEF r
      <4> QED BY <4>1, <4>2
    <3> QED BY <3>1, <3>2
  <2> DEFINE a == Said(ok)
             o == Append(s.out, a)
             pf == Proof(method, "", NoKey)
             t == [s EXCEPT !.called = b, !.out = o]
  <2>2. a \in Reply /\ a = (IF ok THEN "yes" ELSE "no")
    BY DEF Said, Reply
  <2>3. o \in Seq(Reply) /\ (s.out = <<>> => o = <<a>>)
    BY <2>2, AnswerSeq
  <2>4. pf \in ProofRec /\ pf.key = NoKey
    BY DEF Proof, ProofRec, KeyOrNone, Kind, Method
  <2> HIDE DEF r
  <2>5. r.m = t /\ r.proof = (IF ok THEN <<pf>> ELSE <<>>)
    BY <2>1 DEF Result, Answer, Monitor_
  <2> HIDE DEF a, o, pf
  <2>6. /\ t \in Monitor_ /\ t.phase = s.phase /\ t.out = o /\ t.ctxt = s.ctxt /\ t.lists = s.lists
        /\ t.valid = s.valid /\ t.prev_keys = s.prev_keys /\ t.key_blob = s.key_blob
    BY <2>3 DEF Monitor_
  <2> HIDE DEF t
  <2>7. r.proof = <<>> \/ r.proof = <<pf>>
    BY <2>5
  <2>8. HandleLists(s, r)
    BY <2>4, <2>5, <2>6, <2>7 DEF HandleLists
  <2>9. HandleKeys(s, r)
    BY <2>4, <2>5, <2>6, <2>7 DEF HandleKeys
  <2>10. HandlePipe(s, q, r)
    <3>1. q.type \notin Silent /\ r.m.phase # "fatal" /\ a # "ok"
      BY <2>2, <2>5, <2>6 DEF Silent
    <3>2. Wrong(s, q, r) => q.type \in {"AUTHPASSWORD", "KEYVERIFY"} /\ ~ok
      BY <2>5 DEF Wrong
    <3> QED BY <2>2, <2>3, <2>5, <2>6, <3>1, <3>2 DEF HandlePipe
  <2> QED BY <2>8, <2>9, <2>10 DEF HandleOK
<1> QED BY <1>1, <1>2

\* A new PAM context, or one that is freed; the thread's verdict counts then.
LEMMA HandleContext ==
    ASSUME cf \in Config, NEW s \in Monitor_, s.phase = "preauth", NEW q \in Request, NEW word \in PamWord,
           q.type \in {"PAM_INIT_CTX", "PAM_FREE_CTX"}
    PROVE  HandleOK(s, q, Handle(s, q, word))
<1> DEFINE r == Handle(s, q, word)
<1> SUFFICES HandleOK(s, q, r)
  OBVIOUS
<1>1. CASE \E why \in {"already called", "no context"} : r = Plain(Fatal(s, why))
  <2>1. {"already called", "no context"} \subseteq Why /\ q.type \in ReqType
    BY DEF Why, Request
  <2>2. q.type = "PAM_FREE_CTX" => s.ctxt # "Error"
    <3> SUFFICES ASSUME q.type = "PAM_FREE_CTX", s.ctxt = "Error" PROVE FALSE
      OBVIOUS
    <3> DEFINE n == s.given_up + (IF GivenUp(s) THEN 1 ELSE 0)
               t == Permit(Answer([s EXCEPT !.ctxt = "none", !.authok = FALSE, !.given_up = n], "freed"), {"PAM_INIT_CTX"})
    <3>1. r.m = t
      BY DEF Handle, mm_answer_pam_free_ctx, Result
    <3>2. t.phase = s.phase
      BY DEF Permit, Answer, Monitor_
    <3>3. r.m.phase = "fatal"
      <4>1. \A why : Plain(Fatal(s, why)).m.phase = "fatal"
        BY DEF Plain, Fatal, Monitor_
      <4> HIDE DEF r
      <4> QED BY <1>1, <4>1
    <3> QED BY <3>1, <3>2, <3>3
  <2> HIDE DEF r
  <2> QED BY <1>1, <2>1, <2>2, FatalOK
<1>2. CASE ~ \E why \in {"already called", "no context"} : r = Plain(Fatal(s, why))
  <2> DEFINE pf == Proof("kbdint", "pam", NoKey)
  <2>1. PICK ok \in BOOLEAN, x \in {s.ctxt, "asking", "none"}, y \in Verdict, n \in Nat, a \in {"yes", "no", "freed"},
             types \in SUBSET (ReqType \ {"KEYEXPORT"}) :
          /\ r = Result(Permit(Answer([s EXCEPT !.ctxt = x, !.told = y, !.given_up = n, !.authok = FALSE], a), types), ok, pf)
          /\ q.type = "PAM_FREE_CTX" => x = "none"
          /\ x # "Error"
    <3>1. /\ {"PAM_FREE_CTX", "PAM_QUERY"} \in SUBSET (ReqType \ {"KEYEXPORT"}) /\ {} \in SUBSET (ReqType \ {"KEYEXPORT"})
          /\ {"PAM_INIT_CTX"} \in SUBSET (ReqType \ {"KEYEXPORT"}) /\ s.authok \in BOOLEAN
          /\ s.told \in Verdict /\ s.given_up \in Nat /\ "nothing" \in Verdict
      BY DEF ReqType, MON_ONCE, Monitor_, Verdict
    <3>0. \A t : Plain(t) = Result(t, FALSE, pf)
      BY DEF Plain, Result
    <3>2. CASE q.type = "PAM_INIT_CTX" /\ word # "error"
      <4>0. s.ctxt = "none"
        BY <1>2, <3>2 DEF Handle, mm_answer_pam_init_ctx
      <4>1. r = Plain(Permit(Answer([s EXCEPT !.ctxt = "asking", !.told = "nothing", !.authok = FALSE], "yes"), {"PAM_FREE_CTX", "PAM_QUERY"}))
        BY <3>2, <4>0 DEF Handle, mm_answer_pam_init_ctx
      <4>2. [s EXCEPT !.ctxt = "asking", !.told = "nothing", !.authok = FALSE]
              = [s EXCEPT !.ctxt = "asking", !.told = "nothing", !.given_up = s.given_up, !.authok = FALSE]
        BY DEF Monitor_
      <4> HIDE DEF r, pf
      <4> DEFINE z == [s EXCEPT !.ctxt = "asking", !.told = "nothing", !.given_up = s.given_up, !.authok = FALSE]
      <4>3. r = Result(Permit(Answer(z, "yes"), {"PAM_FREE_CTX", "PAM_QUERY"}), FALSE, pf)
        BY <3>0, <4>1, <4>2
      <4> QED BY <3>1, <3>2, <4>3
    <3>3. CASE q.type = "PAM_INIT_CTX" /\ word = "error"
      <4>0. s.ctxt = "none"
        BY <1>2, <3>3 DEF Handle, mm_answer_pam_init_ctx
      <4>1. r = Plain(Answer([s EXCEPT !.authok = FALSE], "no"))
        BY <3>3, <4>0 DEF Handle, mm_answer_pam_init_ctx
      <4> DEFINE t == [s EXCEPT !.ctxt = s.ctxt, !.told = s.told, !.given_up = s.given_up, !.authok = FALSE]
      <4>2. [s EXCEPT !.authok = FALSE] = t /\ t \in Monitor_
        BY DEF Monitor_
      <4>3. Permit(Answer(t, "no"), {}) = Answer(t, "no")
        <5>1. Append(t.out, "no") \in Seq(Reply)
          BY <4>2, AnswerSeq DEF Reply
        <5>2. Answer(t, "no") \in Monitor_
          <6> HIDE DEF t
          <6> QED BY <4>2, <5>1 DEF Answer, Monitor_
        <5> HIDE DEF t
        <5> QED BY <5>2 DEF Permit, Monitor_
      <4> HIDE DEF r, pf
      <4>4. r = Result(Permit(Answer(t, "no"), {}), FALSE, pf)
        BY <3>0, <4>1, <4>2, <4>3
      <4> QED BY <3>1, <3>3, <4>0, <4>4
    <3>4. CASE q.type = "PAM_FREE_CTX"
      <4> DEFINE n == s.given_up + (IF GivenUp(s) THEN 1 ELSE 0)
      <4>0. n \in Nat
        BY <3>1
      <4>1. r = Result(Permit(Answer([s EXCEPT !.ctxt = "none", !.authok = FALSE, !.given_up = n], "freed"), {"PAM_INIT_CTX"}), s.authok, pf)
        BY <1>2, <3>4 DEF Handle, mm_answer_pam_free_ctx
      <4> HIDE DEF n
      <4>2. [s EXCEPT !.ctxt = "none", !.authok = FALSE, !.given_up = n]
              = [s EXCEPT !.ctxt = "none", !.told = s.told, !.given_up = n, !.authok = FALSE]
        BY DEF Monitor_
      <4> HIDE DEF r, pf
      <4> QED BY <3>1, <3>4, <4>0, <4>1, <4>2
    <3> QED BY <3>2, <3>3, <3>4
  <2> DEFINE o == Append(s.out, a)
             permit == s.permit \cup types
             t == [s EXCEPT !.ctxt = x, !.told = y, !.given_up = n, !.authok = FALSE, !.out = o, !.permit = permit]
  <2>2. a \in Reply /\ x \in Ctxt /\ permit \in SUBSET (ReqType \ {"KEYEXPORT"})
    BY DEF Reply, Ctxt, Monitor_
  <2>3. o \in Seq(Reply) /\ (s.out = <<>> => o = <<a>>)
    BY <2>2, AnswerSeq
  <2>4. pf \in ProofRec /\ pf.key = NoKey
    BY DEF Proof, ProofRec, KeyOrNone, Kind, Method
  <2> HIDE DEF r
  <2>5. r.m = t /\ r.proof = (IF ok THEN <<pf>> ELSE <<>>)
    BY <2>1 DEF Result, Answer, Permit, Monitor_
  <2> HIDE DEF o, pf, permit
  <2>6. /\ t \in Monitor_ /\ t.phase = s.phase /\ t.out = o /\ t.lists = s.lists /\ t.ctxt = x
        /\ t.valid = s.valid /\ t.prev_keys = s.prev_keys /\ t.key_blob = s.key_blob
    BY <2>2, <2>3 DEF Monitor_
  <2> HIDE DEF t
  <2>7. r.proof = <<>> \/ r.proof = <<pf>>
    BY <2>5
  <2>8. HandleLists(s, r)
    BY <2>4, <2>5, <2>6, <2>7 DEF HandleLists
  <2>9. HandleKeys(s, r)
    BY <2>4, <2>5, <2>6, <2>7 DEF HandleKeys
  <2>10. HandlePipe(s, q, r)
    <3>1. q.type \notin Silent /\ r.m.phase # "fatal" /\ r.m.ctxt # "Error"
      BY <2>1, <2>5, <2>6 DEF Silent
    <3>2. Wrong(s, q, r) => q.type = "PAM_FREE_CTX" /\ s.ctxt = "Error"
      BY DEF Wrong
    <3>3. s.out = <<>> => r.m.out = <<a>> /\ r.m.out # <<>>
      <4>1. <<a>> # <<>>
        OBVIOUS
      <4> QED BY <2>3, <2>5, <2>6, <4>1
    <3> QED BY <2>2, <2>5, <2>6, <3>1, <3>2, <3>3 DEF HandlePipe
  <2> QED BY <2>8, <2>9, <2>10 DEF HandleOK
<1> QED BY <1>1, <1>2

\* The conversation with the PAM thread.
LEMMA HandleConversation ==
    ASSUME cf \in Config, NEW s \in Monitor_, s.phase = "preauth", NEW q \in Request, NEW word \in PamWord,
           q.type \in {"PAM_QUERY", "PAM_RESPOND"}
    PROVE  HandleOK(s, q, Handle(s, q, word))
<1> DEFINE r == Handle(s, q, word)
<1> SUFFICES HandleOK(s, q, r)
  OBVIOUS
<1>1. CASE s.ctxt = "none"
  <2>1. r = Plain(Fatal(s, "no context"))
    BY <1>1 DEF Handle, mm_answer_pam_query, mm_answer_pam_respond
  <2>2. "no context" \in Why /\ q.type \in ReqType
    BY DEF Why, Request
  <2> HIDE DEF r
  <2> QED BY <1>1, <2>1, <2>2, FatalOK
<1>2. CASE s.ctxt # "none"
  <2>1. PICK a \in Reply, x \in Ctxt, y \in Verdict, b \in BOOLEAN, types \in SUBSET (ReqType \ {"KEYEXPORT"}) :
          /\ r = Plain(Permit(Answer([s EXCEPT !.ctxt = x, !.told = y, !.authok = b], a), types))
          /\ q.type = "PAM_RESPOND" => a \in {"ok", "again", "error"} /\ (x = "Error" => s.ctxt = "Error")
          /\ q.type = "PAM_QUERY" => (x = "Error" => a = "error")
    <3>0. s.told \in Verdict
      BY DEF Monitor_
    <3>1. CASE q.type = "PAM_QUERY"
      <4> DEFINE said == IF s.ctxt \notin {"asking", "Again"} \/ (word = "granted" /\ s.told # "good") THEN "error"
                         ELSE word
                 x == CASE said = "text" -> "Again" [] said = "prompt" -> "prompted"
                        [] said = "granted" -> "Authenticated" [] OTHER -> "Error"
                 b == said = "granted"
      <4>1. said \in {"text", "prompt", "granted", "error"}
        BY DEF PamWord
      <4>2. r = Plain(Permit(Answer([s EXCEPT !.ctxt = x, !.told = s.told, !.authok = b], said), {"PAM_RESPOND"}))
        <5>1. [s EXCEPT !.ctxt = x, !.authok = b] = [s EXCEPT !.ctxt = x, !.told = s.told, !.authok = b]
          BY DEF Monitor_
        <5>2. r = Plain(Permit(Answer([s EXCEPT !.ctxt = x, !.authok = b], said), {"PAM_RESPOND"}))
          BY <1>2, <3>1 DEF Handle, mm_answer_pam_query
        <5> HIDE DEF r, x, b, said
        <5> QED BY <5>1, <5>2
      <4> HIDE DEF said
      <4>3. x \in Ctxt /\ said \in Reply /\ b \in BOOLEAN /\ {"PAM_RESPOND"} \in SUBSET (ReqType \ {"KEYEXPORT"})
            /\ (x = "Error" => said = "error")
        BY <4>1 DEF Ctxt, Reply, ReqType, MON_ONCE
      <4> HIDE DEF x, b, r
      <4> QED BY <3>0, <3>1, <4>1, <4>2, <4>3
    <3>2. CASE q.type = "PAM_RESPOND"
      <4> DEFINE good == q.arg = cf.password /\ s.valid /\ PasswordRootOk
                 said == CASE s.ctxt = "Authenticated" -> "ok" [] s.ctxt = "Again" -> "again"
                           [] s.ctxt = "prompted" -> IF q.arg = "nothing" THEN "error" ELSE "again"
                           [] OTHER -> "error"
                 x == IF s.ctxt = "prompted" /\ said = "again" THEN "asking" ELSE s.ctxt
                 y == IF s.ctxt = "prompted" /\ said = "again" THEN (IF good THEN "good" ELSE "bad") ELSE s.told
                 b == said = "ok"
                 s1 == [s EXCEPT !.ctxt = x, !.told = y, !.authok = b]
      <4>1. said \in {"ok", "again", "error"}
        OBVIOUS
      <4>2. r = Plain(Answer([s EXCEPT !.ctxt = x, !.told = y, !.authok = b], said))
        BY <1>2, <3>2 DEF Handle, mm_answer_pam_respond, Monitor_
      <4> HIDE DEF said, good
      <4>3. /\ x \in Ctxt /\ said \in Reply /\ b \in BOOLEAN /\ y \in Verdict
            /\ x = "Error" => s.ctxt = "Error"
        BY <4>1, <3>0 DEF Ctxt, Reply, Monitor_, Verdict
      <4> HIDE DEF x, b, y
      <4>4. Answer(s1, said) = [s1 EXCEPT !.out = Append(s1.out, said)]
            /\ s1 \in Monitor_
        BY <4>3 DEF Answer, Monitor_
      <4>5. Append(s1.out, said) \in Seq(Reply)
        BY <4>3, <4>4, AnswerSeq
      <4> HIDE DEF s1
      <4>6. Answer(s1, said) \in Monitor_
        BY <4>4, <4>5 DEF Monitor_
      <4>7. Permit(Answer(s1, said), {}) = Answer(s1, said)
        BY <4>6 DEF Permit, Monitor_
      <4>8. r = Plain(Permit(Answer([s EXCEPT !.ctxt = x, !.told = y, !.authok = b], said), {}))
        BY <4>2, <4>7 DEF s1
      <4>9. {} \in SUBSET (ReqType \ {"KEYEXPORT"})
        OBVIOUS
      <4> HIDE DEF r
      <4> QED BY <3>2, <4>1, <4>3, <4>8, <4>9
    <3> QED BY <3>1, <3>2
  <2> DEFINE o == Append(s.out, a)
             permit == s.permit \cup types
             t == [s EXCEPT !.ctxt = x, !.told = y, !.authok = b, !.out = o, !.permit = permit]
  <2>2. permit \in SUBSET (ReqType \ {"KEYEXPORT"})
    BY DEF Monitor_
  <2>3. o \in Seq(Reply) /\ (s.out = <<>> => o = <<a>>)
    BY AnswerSeq
  <2> HIDE DEF r
  <2>4. r.m = t /\ r.proof = <<>>
    BY <2>1 DEF Plain, Answer, Permit, Monitor_
  <2> HIDE DEF o, permit
  <2>5. /\ t \in Monitor_ /\ t.phase = s.phase /\ t.out = o /\ t.lists = s.lists /\ t.ctxt = x
        /\ t.valid = s.valid /\ t.prev_keys = s.prev_keys /\ t.key_blob = s.key_blob
    BY <2>2, <2>3 DEF Monitor_
  <2> HIDE DEF t
  <2>6. HandleLists(s, r)
    BY <2>4, <2>5 DEF HandleLists
  <2>7. HandleKeys(s, r)
    BY <2>4, <2>5 DEF HandleKeys
  <2>8. HandlePipe(s, q, r)
    <3>1. q.type \notin Silent /\ r.m.phase # "fatal"
      BY <2>4, <2>5 DEF Silent
    <3>2. ~Wrong(s, q, r)
      BY DEF Wrong
    <3>3. s.out = <<>> => r.m.out = <<a>> /\ r.m.out # <<>>
      <4>1. <<a>> # <<>>
        OBVIOUS
      <4> QED BY <2>3, <2>4, <2>5, <4>1
    <3> QED BY <2>1, <2>4, <2>5, <3>1, <3>2, <3>3 DEF HandlePipe
  <2> QED BY <2>6, <2>7, <2>8 DEF HandleOK
<1> QED BY <1>1, <1>2

\* Whether a key is allowed, and the signature made with the key that was.
LEMMA HandleKey ==
    ASSUME cf \in Config, NEW s \in Monitor_, s.phase = "preauth", NEW q \in Request, NEW word,
           q.type \in {"KEYALLOWED", "KEYVERIFY"}
    PROVE  HandleOK(s, q, Handle(s, q, word))
<1> DEFINE r == Handle(s, q, word)
           none == [kind |-> "", key |-> NoKey]
<1> SUFFICES HandleOK(s, q, r)
  OBVIOUS
<1>1. CASE q.type = "KEYALLOWED"
  <2> DEFINE allowed == /\ s.valid /\ Enabled(q.kind)
                        /\ ~auth2_key_already_used(s, q.key)
                        /\ q.key \in cf.authorized
             blob == IF allowed THEN [kind |-> q.kind, key |-> q.key] ELSE none
             a == Said(allowed)
             o == Append(s.out, a)
             t == [s EXCEPT !.key_blob = blob, !.out = o]
  <2>1. /\ blob \in [kind : Kind, key : KeyOrNone] /\ a \in {"yes", "no"} /\ a \in Reply
        /\ blob.key = NoKey \/ blob.key \notin s.prev_keys
    BY DEF Said, Reply, Kind, KeyOrNone, Request, auth2_key_already_used
  <2>2. o \in Seq(Reply) /\ (s.out = <<>> => o = <<a>>)
    BY <2>1, AnswerSeq
  <2>3. r.m = t /\ r.proof = <<>>
    BY <1>1 DEF Handle, mm_answer_keyallowed, Plain, Answer, Monitor_
  <2> HIDE DEF o, a, blob, allowed, r
  <2>4. /\ t \in Monitor_ /\ t.phase = s.phase /\ t.out = o /\ t.lists = s.lists /\ t.ctxt = s.ctxt
        /\ t.valid = s.valid /\ t.prev_keys = s.prev_keys /\ t.key_blob = blob
    BY <2>1, <2>2 DEF Monitor_
  <2> HIDE DEF t
  <2>5. HandleLists(s, r)
    BY <2>3, <2>4 DEF HandleLists
  <2>6. HandleKeys(s, r)
    BY <2>1, <2>3, <2>4 DEF HandleKeys
  <2>7. HandlePipe(s, q, r)
    <3>1. q.type \notin Silent /\ r.m.phase # "fatal" /\ ~Wrong(s, q, r)
      BY <1>1, <2>3, <2>4 DEF Silent, Wrong
    <3> QED BY <1>1, <2>1, <2>2, <2>3, <2>4, <3>1 DEF HandlePipe
  <2> QED BY <2>5, <2>6, <2>7 DEF HandleOK
<1>2. CASE q.type = "KEYVERIFY" /\ \E why \in {"bad key, not previously allowed", "crash"} : r = Plain(Fatal(s, why))
  <2>1. {"bad key, not previously allowed", "crash"} \subseteq Why /\ q.type \in ReqType
    BY DEF Why, Request
  <2> HIDE DEF r
  <2> QED BY <1>2, <2>1, FatalOK
<1>3. CASE q.type = "KEYVERIFY" /\ ~ \E why \in {"bad key, not previously allowed", "crash"} : r = Plain(Fatal(s, why))
  <2> DEFINE ok == q.arg = "good"
             s0 == [s EXCEPT !.key_blob = none]
             s1 == auth2_record_key(s0, ok, q.key)
             s2 == IF ok /\ s.key_blob.kind = "publickey" THEN auth_activate_options(s1, q.key) ELSE s1
             a == Said(ok)
             o == Append(s2.out, a)
             t == [s2 EXCEPT !.out = o]
             pf == Proof(s.key_blob.kind, "", q.key)
  <2>1. q.key # NoKey /\ q.key = s.key_blob.key /\ r = Result(Answer(s2, a), ok, pf)
    BY <1>3 DEF Handle, mm_answer_keyverify
  <2>2. q.key \in Keys /\ cf.force[q.key] \in STRING /\ s.key_blob.kind \in Kind /\ none \in [kind : Kind, key : KeyOrNone]
    BY <2>1 DEF Request, KeyOrNone, Config, Monitor_, Kind
  <2>3. s0 \in Monitor_ /\ s0.key_blob = none
        /\ s0.phase = s.phase /\ s0.out = s.out /\ s0.lists = s.lists /\ s0.ctxt = s.ctxt
        /\ s0.valid = s.valid /\ s0.prev_keys = s.prev_keys
    BY <2>2 DEF Monitor_
  <2> HIDE DEF s0, none
  <2>4. s1 \in Monitor_ /\ s1.key_blob = none /\ s1.phase = s.phase /\ s1.out = s.out /\ s1.lists = s.lists
        /\ s1.ctxt = s.ctxt /\ s1.valid = s.valid /\ s1.prev_keys = (IF ok THEN s.prev_keys \cup {q.key} ELSE s.prev_keys)
    <3>1. s0.prev_keys \cup {q.key} \in SUBSET KeyOrNone
      BY <2>2, <2>3 DEF Monitor_, KeyOrNone
    <3> QED BY <2>3, <3>1 DEF Monitor_, auth2_record_key
  <2> HIDE DEF s1
  <2>5. s2 \in Monitor_ /\ s2.key_blob = none /\ s2.phase = s.phase /\ s2.out = s.out /\ s2.lists = s.lists
        /\ s2.ctxt = s.ctxt /\ s2.valid = s.valid /\ s2.prev_keys = s1.prev_keys
    <3>1. CASE s2 = s1
      BY <2>4, <3>1
    <3>2. CASE s2 = auth_activate_options(s1, q.key)
      <4> DEFINE f == IF s1.force_command # "" /\ cf.force[q.key] # "" /\ s1.force_command # cf.force[q.key]
                      THEN "NULL" ELSE IF s1.force_command = "" THEN cf.force[q.key] ELSE s1.force_command
      <4>1. f \in Command
        BY <2>2, <2>4 DEF Command, Monitor_
      <4>2. s2 = [s1 EXCEPT !.force_command = f]
        BY <3>2 DEF auth_activate_options
      <4> HIDE DEF f, s2
      <4> QED BY <2>4, <4>1, <4>2 DEF Monitor_
    <3> QED BY <3>1, <3>2
  <2> HIDE DEF s2
  <2>6. a \in Reply /\ a = (IF ok THEN "yes" ELSE "no")
    BY DEF Said, Reply
  <2>7. o \in Seq(Reply) /\ (s.out = <<>> => o = <<a>>)
    BY <2>5, <2>6, AnswerSeq
  <2>8. pf \in ProofRec /\ pf.key = q.key
    BY <2>2 DEF Proof, ProofRec, KeyOrNone
  <2> HIDE DEF r
  <2>9. r.m = t /\ r.proof = (IF ok THEN <<pf>> ELSE <<>>)
    BY <2>1 DEF Result, Answer
  <2> HIDE DEF a, o, pf
  <2>10. /\ t \in Monitor_ /\ t.phase = s.phase /\ t.out = o /\ t.ctxt = s.ctxt /\ t.lists = s.lists
         /\ t.valid = s.valid /\ t.prev_keys = s1.prev_keys /\ t.key_blob = none
    BY <2>5, <2>7 DEF Monitor_
  <2> HIDE DEF t
  <2>11. r.proof = <<>> \/ (ok /\ r.proof = <<pf>>)
    BY <2>9
  <2>12. HandleLists(s, r)
    BY <2>8, <2>9, <2>10, <2>11 DEF HandleLists
  <2>13. none.key = NoKey
    BY DEF none
  <2>14. HandleKeys(s, r)
    BY <2>1, <2>4, <2>8, <2>9, <2>10, <2>11, <2>13 DEF HandleKeys
  <2>15. HandlePipe(s, q, r)
    <3>1. q.type \notin Silent /\ r.m.phase # "fatal" /\ a # "ok"
      BY <1>3, <2>6, <2>9, <2>10 DEF Silent
    <3>2. Wrong(s, q, r) => ~ok
      <4>1. <<pf>> # <<>>
        OBVIOUS
      <4> QED BY <1>3, <2>9, <4>1 DEF Wrong
    <3> QED BY <1>3, <2>6, <2>7, <2>9, <2>10, <3>1, <3>2 DEF HandlePipe
  <2> QED BY <2>12, <2>14, <2>15 DEF HandleOK
<1> QED BY <1>1, <1>2, <1>3

\* Every request that is permitted.
LEMMA HandleFacts ==
    ASSUME cf \in Config, NEW s \in Monitor_, s.phase = "preauth", NEW q \in Request, NEW word \in PamWord,
           q.type \in s.permit
    PROVE  HandleOK(s, q, Handle(s, q, word))
<1>1. q.type \in ReqType \ {"KEYEXPORT"}
  BY DEF Monitor_
<1>2. \/ q.type \in {"STATE", "SETCOMPAT", "SIGN", "PWNAM", "AUTHSERV", "READ_BANNER", "PAM_START"}
      \/ q.type \in {"AUTHPASSWORD", "PAM_ACCOUNT"} \/ q.type \in {"PAM_INIT_CTX", "PAM_FREE_CTX"}
      \/ q.type \in {"PAM_QUERY", "PAM_RESPOND"} \/ q.type \in {"KEYALLOWED", "KEYVERIFY"}
  BY <1>1 DEF ReqType, MON_ONCE, MON_AUTH, MON_AUTHDECIDE
<1> QED BY <1>2, HandleStart, HandlePassword, HandleContext, HandleConversation, HandleKey

\* The fields of the monitor that its judgement leaves alone.
Kept(s, d) ==
    /\ d \in Monitor_ /\ d.out = s.out /\ d.ctxt = s.ctxt /\ d.valid = s.valid /\ d.prev_keys = s.prev_keys
    /\ d.key_blob = s.key_blob /\ d.force_command = s.force_command

\* Fatal keeps everything but the phase.
LEMMA FatalFacts ==
    ASSUME NEW s \in Monitor_, NEW why \in Why
    PROVE  Kept(s, Fatal(s, why)) /\ Fatal(s, why).lists = s.lists /\ Fatal(s, why).phase = "fatal"
BY DEF Fatal, Kept, Monitor_, Phase

\* Decide: the end of a turn.
LEMMA DecideFacts ==
    ASSUME cf \in Config, NEW s \in Monitor_, NEW type, NEW a \in BOOLEAN, NEW partial \in BOOLEAN
    PROVE  /\ Kept(s, Decide(s, type, a, partial)) /\ Decide(s, type, a, partial).lists = s.lists
           /\ Decide(s, type, a, partial).phase \in {"preauth", "export", "fatal"}
           /\ Decide(s, type, a, partial).phase = "export" => a /\ s.valid
<1> DEFINE n == s.failures + 1
           s1 == IF type \in MON_AUTHDECIDE /\ ~partial /\ ~a THEN [s EXCEPT !.failures = n] ELSE s
           d == Decide(s, type, a, partial)
<1>0. s.failures \in Nat
  BY DEF Monitor_
<1>1. n \in Nat
  BY <1>0
<1>2. \/ d = Fatal(s1, "too many authentication attempts") \/ d = Fatal(s1, "authenticated invalid user")
      \/ d = [s1 EXCEPT !.phase = "preauth"]
      \/ a /\ s1.valid /\ d = [s1 EXCEPT !.phase = "export"]
  BY DEF Decide
<1> HIDE DEF n
<1>3. Kept(s, s1) /\ s1.lists = s.lists
  BY <1>1 DEF Kept, Monitor_
<1> HIDE DEF s1, d
<1>4. {"too many authentication attempts", "authenticated invalid user"} \subseteq Why
  BY DEF Why
<1>5. CASE d = Fatal(s1, "too many authentication attempts") \/ d = Fatal(s1, "authenticated invalid user")
  <2>0. s1 \in Monitor_
    BY <1>3 DEF Kept
  <2>1. Kept(s1, d) /\ d.lists = s1.lists /\ d.phase = "fatal"
    BY <1>4, <1>5, <2>0, FatalFacts
  <2>2. Kept(s, d) /\ d.lists = s.lists
    BY <1>3, <2>1 DEF Kept
  <2> QED BY <2>1, <2>2 DEF d
<1>6. CASE d = [s1 EXCEPT !.phase = "preauth"] \/ (a /\ s1.valid /\ d = [s1 EXCEPT !.phase = "export"])
  <2>1. Kept(s, d) /\ d.lists = s.lists /\ d.phase \in {"preauth", "export"} /\ (d.phase = "export" => a /\ s.valid)
    <3>1. CASE d = [s1 EXCEPT !.phase = "preauth"]
      BY <1>3, <3>1 DEF Kept, Monitor_, Phase
    <3>2. CASE a /\ s1.valid /\ d = [s1 EXCEPT !.phase = "export"]
      BY <1>3, <3>2 DEF Kept, Monitor_, Phase
    <3> QED BY <1>6, <3>1, <3>2
  <2> QED BY <2>1 DEF d
<1> QED BY <1>2, <1>5, <1>6

\* Judge: what a proof changes, and when it is enough.
JudgeOK(s, proof, d) ==
    /\ Kept(s, d) /\ d.phase \in {"preauth", "account", "export", "fatal"}
    /\ \/ d.lists = s.lists
       \/ proof # <<>> /\ d.lists = auth2_update_methods_lists(s.lists, proof[1].method, proof[1].sub).lists
    /\ d.phase \in {"account", "export"} =>
         /\ proof # <<>> /\ (cf.root => auth_root_allowed(s, proof[1].method))
         /\ Configured => LET u == auth2_update_methods_lists(s.lists, proof[1].method, proof[1].sub)
                          IN  u.complete /\ d.lists = u.lists
    /\ d.phase = "export" => s.valid /\ ~cf.pam

LEMMA JudgeFacts ==
    ASSUME cf \in Config, NEW s \in Monitor_, NEW type \in ReqType, NEW proof
    PROVE  JudgeOK(s, proof, Judge(s, type, proof))
<1> DEFINE u == auth2_update_methods_lists(s.lists, proof[1].method, proof[1].sub)
           s1 == IF Configured THEN [s EXCEPT !.lists = u.lists] ELSE s
           partial == Configured /\ ~u.complete
           ok == ~partial /\ (cf.root => auth_root_allowed(s, proof[1].method))
           d == Judge(s, type, proof)
<1>1. \/ proof = <<>> /\ d = Decide(s, type, FALSE, FALSE)
      \/ d = Fatal(s, "method not in AuthenticationMethods") \/ d = Fatal(s, "unexpected authentication")
      \/ d = Fatal(s, "crash")
      \/ proof # <<>> /\ ok /\ d = [s1 EXCEPT !.phase = "account", !.pending = type]
      \/ proof # <<>> /\ ~(ok /\ cf.pam) /\ d = Decide(s1, type, ok, partial)
  BY DEF Judge
<1>2. u.lists \in Lists /\ u.complete \in BOOLEAN
  <2>1. s.lists \in Lists
    BY DEF Monitor_
  <2>2. u.complete \in BOOLEAN
    BY DEF auth2_update_methods_lists
  <2> QED BY <2>1, <2>2, UpdateLists
<1> SUFFICES JudgeOK(s, proof, d)
  OBVIOUS
<1>3. ok \in BOOLEAN /\ partial \in BOOLEAN
  OBVIOUS
<1>4. ok => (Configured => u.complete) /\ (cf.root => auth_root_allowed(s, proof[1].method))
  OBVIOUS
<1> HIDE DEF d, ok, partial
<1>5. Kept(s, s1) /\ (Configured => s1.lists = u.lists) /\ (~Configured => s1.lists = s.lists) /\ s1 \in Monitor_
  <2> HIDE DEF u
  <2> QED BY <1>2 DEF Kept, Monitor_
<1> HIDE DEF s1
<1>6. CASE proof = <<>> /\ d = Decide(s, type, FALSE, FALSE)
  <2>1. Kept(s, d) /\ d.lists = s.lists /\ d.phase \in {"preauth", "export", "fatal"} /\ d.phase # "export"
    BY <1>6, DecideFacts
  <2> QED BY <2>1 DEF JudgeOK
<1>7. CASE \/ d = Fatal(s, "method not in AuthenticationMethods") \/ d = Fatal(s, "unexpected authentication")
           \/ d = Fatal(s, "crash")
  <2>1. {"method not in AuthenticationMethods", "unexpected authentication", "crash"} \subseteq Why
    BY DEF Why
  <2>2. Kept(s, d) /\ d.lists = s.lists /\ d.phase = "fatal"
    BY <1>7, <2>1, FatalFacts
  <2> QED BY <2>2 DEF JudgeOK
<1>8. CASE proof # <<>> /\ ok /\ d = [s1 EXCEPT !.phase = "account", !.pending = type]
  <2>1. Kept(s1, d) /\ d.lists = s1.lists /\ d.phase = "account"
    BY <1>5, <1>8 DEF Kept, Monitor_, Phase
  <2>2. Kept(s, d)
    BY <1>5, <2>1 DEF Kept
  <2> QED BY <1>4, <1>5, <1>8, <2>1, <2>2 DEF JudgeOK
<1>9. CASE proof # <<>> /\ ~(ok /\ cf.pam) /\ d = Decide(s1, type, ok, partial)
  <2>1. Kept(s1, d) /\ d.lists = s1.lists /\ d.phase \in {"preauth", "export", "fatal"}
        /\ (d.phase = "export" => ok /\ s1.valid)
    BY <1>3, <1>5, <1>9, DecideFacts
  <2>2. Kept(s, d)
    BY <1>5, <2>1 DEF Kept
  <2>3. s1.valid = s.valid
    BY <1>5 DEF Kept
  <2> QED BY <1>4, <1>5, <1>9, <2>1, <2>2, <2>3 DEF JudgeOK
<1> QED BY <1>1, <1>6, <1>7, <1>8, <1>9

----------------------------------------------------------------------------
(* What is left of the lists, and what was verified. *)

\* Nothing of a list is used at first.
LEMMA RestFull ==
    ASSUME NEW l \in Seq(Entry), NEW p \in Seq(ProofRec)
    PROVE  Rest(l, l, p)
<1>1. Len(l) \in Nat /\ Len(l) - Len(l) = 0
  OBVIOUS
<1>2. \A j \in 1..Len(l) : l[j] = l[Len(l) - Len(l) + j]
  BY <1>1
<1>3. Verified(l, 0, p)
  <2> DEFINE f == [i \in 1..0 |-> 1]
  <2>1. 1..0 = {}
    OBVIOUS
  <2>2. f \in [1..0 -> 1..Len(p)]
    BY <2>1
  <2>3. \A i \in 1..0 : FALSE
    BY <2>1
  <2> HIDE DEF f
  <2> QED BY <2>2, <2>3 DEF Verified
<1> QED BY <1>1, <1>2, <1>3 DEF Rest

\* Another proof takes nothing away.
LEMMA RestKept ==
    ASSUME NEW l \in Seq(Entry), NEW rest \in Seq(Entry), NEW p \in Seq(ProofRec), NEW z \in Seq(ProofRec),
           Rest(l, rest, p)
    PROVE  Rest(l, rest, p \o z)
<1> DEFINE n == Len(l) - Len(rest)
<1>1. /\ Len(p) \in Nat /\ Len(z) \in Nat /\ Len(p \o z) = Len(p) + Len(z)
      /\ \A i \in 1..Len(p) : (p \o z)[i] = p[i]
  BY ConcatProperties
<1>2. PICK f \in [1..n -> 1..Len(p)] :
        /\ \A i, j \in 1..n : i < j => f[i] < f[j]
        /\ \A i \in 1..n : /\ p[f[i]].method = l[i].method
                           /\ l[i].sub # "" => p[f[i]].sub = l[i].sub
  BY DEF Rest, Verified
<1> HIDE DEF n
<1>3. f \in [1..n -> 1..Len(p \o z)]
  BY <1>1
<1>4. \A i \in 1..n : (p \o z)[f[i]] = p[f[i]]
  BY <1>1
<1>5. Verified(l, n, p \o z)
  BY <1>2, <1>3, <1>4, ZenonT(40) DEF Verified
<1> QED BY <1>5 DEF Rest, n

\* A method that was verified leaves the head of the list.
LEMMA RestShrinks ==
    ASSUME NEW l \in Seq(Entry), NEW rest \in Seq(Entry), NEW p \in Seq(ProofRec), NEW pf \in ProofRec,
           Rest(l, rest, p), Removable(rest, pf.method, pf.sub)
    PROVE  Rest(l, Tail(rest), p \o <<pf>>)
<1> DEFINE n == Len(l) - Len(rest)
           q == p \o <<pf>>
<1>1. /\ rest # <<>> /\ Head(rest).method = pf.method
      /\ Head(rest).sub # "" => pf.sub = Head(rest).sub
  BY DEF Removable, list_starts_with
<1>2. /\ Len(p) \in Nat /\ Len(l) \in Nat /\ Len(rest) \in Nat /\ Len(rest) > 0
      /\ Len(rest) <= Len(l) /\ Head(rest) = rest[1]
  <2>1. Len(rest) \in Nat \ {0}
    BY <1>1, EmptySeq
  <2>2. Len(p) \in Nat /\ Len(l) \in Nat
    BY LenProperties
  <2>4. Head(rest) = rest[1]
    OBVIOUS
  <2>3. Len(rest) <= Len(l)
    BY DEF Rest
  <2> QED BY <2>1, <2>2, <2>3, <2>4
<1>3. n \in Nat /\ n + 1 = Len(l) - (Len(rest) - 1) /\ l[n + 1] = rest[1] /\ n + 1 \in 1..Len(l)
  BY <1>2 DEF Rest
<1>4. /\ Len(q) = Len(p) + 1 /\ q[Len(p) + 1] = pf
      /\ \A i \in 1..Len(p) : q[i] = p[i]
  <2>1. <<pf>> \in Seq(ProofRec) /\ Len(<<pf>>) = 1 /\ <<pf>>[1] = pf
    OBVIOUS
  <2> QED BY <1>2, <2>1, ConcatProperties
<1>5. PICK f \in [1..n -> 1..Len(p)] :
        /\ \A i, j \in 1..n : i < j => f[i] < f[j]
        /\ \A i \in 1..n : /\ p[f[i]].method = l[i].method
                           /\ l[i].sub # "" => p[f[i]].sub = l[i].sub
  BY DEF Rest, Verified
<1> HIDE DEF n, q
<1> DEFINE g == [i \in 1..(n + 1) |-> IF i = n + 1 THEN Len(p) + 1 ELSE f[i]]
<1>6. \A i \in 1..(n + 1) : i = n + 1 \/ i \in 1..n
  BY <1>3
<1>7. g \in [1..(n + 1) -> 1..Len(q)]
  BY <1>2, <1>3, <1>4, <1>6
<1>8. g[n + 1] = Len(p) + 1 /\ \A i \in 1..n : g[i] = f[i] /\ i < n + 1 /\ i \in 1..(n + 1) /\ f[i] \in 1..Len(p)
  BY <1>3
<1> HIDE DEF g
<1>9. \A i, j \in 1..(n + 1) : i < j => g[i] < g[j]
  <2> TAKE i, j \in 1..(n + 1)
  <2> HAVE i < j
  <2>1. i \in 1..n
    BY <1>3
  <2>2. CASE j = n + 1
    BY <1>2, <1>8, <2>1, <2>2
  <2>3. CASE j \in 1..n
    BY <1>5, <1>8, <2>1, <2>3
  <2> QED BY <1>6, <2>2, <2>3
<1>10. \A i \in 1..(n + 1) : /\ q[g[i]].method = l[i].method
                             /\ l[i].sub # "" => q[g[i]].sub = l[i].sub
  <2> TAKE i \in 1..(n + 1)
  <2>1. CASE i = n + 1
    BY <1>1, <1>2, <1>3, <1>4, <1>8, <2>1
  <2>2. CASE i \in 1..n
    <3>1. q[g[i]] = p[f[i]]
      BY <1>4, <1>8, <2>2
    <3> QED BY <1>5, <2>2, <3>1
  <2> QED BY <1>6, <2>1, <2>2
<1>11. Verified(l, n + 1, q)
  BY <1>7, <1>9, <1>10 DEF Verified
<1> DEFINE t == Tail(rest)
<1>12. /\ Len(t) = Len(rest) - 1
       /\ \A j \in 1..Len(t) : t[j] = rest[j + 1]
  BY <1>1, HeadTailProperties
<1> HIDE DEF t
<1>13. \A j \in 1..Len(t) : t[j] = l[Len(l) - Len(t) + j]
  <2> TAKE j \in 1..Len(t)
  <2>1. j + 1 \in 1..Len(rest) /\ Len(l) - Len(rest) + (j + 1) = Len(l) - Len(t) + j
    BY <1>2, <1>12
  <2> QED BY <1>12, <2>1 DEF Rest
<1>14. Len(t) <= Len(l) /\ Len(l) - Len(t) = n + 1
  BY <1>2, <1>3, <1>12
<1>15. Rest(l, t, q)
  BY <1>11, <1>13, <1>14 DEF Rest
<1> QED BY <1>15 DEF t, q

\* A set of natural numbers has a least element.
LEMMA NatMin ==
    ASSUME NEW T, T \subseteq Nat, T # {}
    PROVE  \E x \in T : \A y \in T : x <= y
<1>1. PICK x \in T : \A y \in T : ~ (<<y, x>> \in OpToRel(<, Nat))
  BY WFMin, NatLessThanWellFounded
<1>2. \A y \in T : ~ (y < x)
  BY <1>1 DEF OpToRel
<1> QED BY <1>2

\* auth2_update_methods_lists keeps every list what is left of it, and when it
\* says that one is complete, one is empty.
LEMMA UpdateRest ==
    ASSUME cf \in Config, NEW l \in Lists, NEW p \in Seq(ProofRec), NEW pf \in ProofRec,
           \A i \in DOMAIN l : i \in DOMAIN cf.lists /\ Rest(cf.lists[i], l[i], p)
    PROVE  LET u == auth2_update_methods_lists(l, pf.method, pf.sub)
           IN  /\ \A i \in DOMAIN u.lists : Rest(cf.lists[i], u.lists[i], p \o <<pf>>)
               /\ u.complete => \E i \in DOMAIN u.lists : u.lists[i] = <<>>
<1> DEFINE hits == {i \in DOMAIN l : Removable(l[i], pf.method, pf.sub)}
           full == {i \in hits : Len(l[i]) = 1}
           u == auth2_update_methods_lists(l, pf.method, pf.sub)
<1>1. /\ u.complete = (full # {}) /\ DOMAIN u.lists = DOMAIN l
      /\ \A i \in DOMAIN l : u.lists[i] = IF i \in hits /\ \A j \in full : i <= j THEN Tail(l[i]) ELSE l[i]
  BY DEF auth2_update_methods_lists
<1>2. DOMAIN l \subseteq Nat /\ \A i \in DOMAIN l : l[i] \in Seq(Entry)
  BY DEF Lists
<1>3. \A i \in DOMAIN cf.lists : cf.lists[i] \in Seq(Entry)
  BY DEF Config
<1>4. <<pf>> \in Seq(ProofRec)
  OBVIOUS
<1> SUFFICES /\ \A i \in DOMAIN u.lists : Rest(cf.lists[i], u.lists[i], p \o <<pf>>)
             /\ u.complete => \E i \in DOMAIN u.lists : u.lists[i] = <<>>
  OBVIOUS
<1> HIDE DEF u
<1>5. ASSUME NEW i \in DOMAIN u.lists PROVE Rest(cf.lists[i], u.lists[i], p \o <<pf>>)
  <2>1. i \in DOMAIN l /\ l[i] \in Seq(Entry) /\ cf.lists[i] \in Seq(Entry) /\ Rest(cf.lists[i], l[i], p)
    BY <1>1, <1>2, <1>3
  <2>2. CASE u.lists[i] = l[i]
    BY <1>4, <2>1, <2>2, RestKept
  <2>3. CASE i \in hits /\ u.lists[i] = Tail(l[i])
    BY <2>1, <2>3, RestShrinks
  <2> QED BY <1>1, <2>1, <2>2, <2>3
<1>6. ASSUME u.complete PROVE \E i \in DOMAIN u.lists : u.lists[i] = <<>>
  <2>1. full # {} /\ full \subseteq Nat
    BY <1>1, <1>2, <1>6
  <2>2. PICK i \in full : \A j \in full : i <= j
    BY <2>1, NatMin
  <2>3. i \in DOMAIN l /\ u.lists[i] = Tail(l[i]) /\ Len(l[i]) = 1 /\ l[i] \in Seq(Entry)
    BY <1>1, <1>2, <2>2
  <2>4. Tail(l[i]) = <<>>
    BY <2>3, OneElement
  <2> QED BY <1>1, <2>3, <2>4
<1> QED BY <1>5, <1>6

----------------------------------------------------------------------------
(* The invariant. *)

IInv == TypeInv /\ MonitorInv /\ PipeInv /\ GuessInv

\* The invariant holds when a connection starts.
LEMMA InitInv == Init => IInv
<1> SUFFICES ASSUME Init PROVE IInv
  OBVIOUS
<1>1. cf \in Config
  BY AuthAssumption DEF Init
<1> DEFINE pk == CHOOSE p \in Packet : p.method = "none" /\ p.user = "same"
           first == [method |-> "none", user |-> "same", pw |-> "", key |-> NoKey, sig |-> "none"]
<1>2. pk \in PacketRec
  <2>1. first \in Packet /\ first.method = "none" /\ first.user = "same"
    BY DEF Packet
  <2>2. pk \in Packet
    BY <2>1
  <2> QED BY <2>2, PacketFacts
<1>3. Req("STATE") \in Request /\ Req("STATE").type = "STATE"
  BY ReqType_ DEF ReqType, MON_ONCE
<1> DEFINE st == <<Req("STATE")>>
<1>4. st \in Seq(Request) /\ Len(st) = 1 /\ st[1].type = "STATE" /\ st # <<>>
  BY <1>3
<1>5. NoLists \in Lists /\ DOMAIN NoLists = {}
  BY <1>1, SetupLists DEF NoLists
<1>6. /\ c = [pc |-> "state", attempt |-> 0, failures |-> 0, lists |-> NoLists, prev_keys |-> {},
            none_enabled |-> TRUE, kbd |-> FALSE, nreq |-> 0, postponed |-> FALSE, valid |-> FALSE,
            force_command |-> "", packet |-> pk, success |-> FALSE, why |-> "", out |-> st]
      /\ m = [phase |-> "preauth", why |-> "", permit |-> {"STATE", "SETCOMPAT", "SIGN"}, compat_set |-> FALSE,
            attempt |-> 0, valid |-> FALSE, failures |-> 0, lists |-> NoLists, prev_keys |-> {}, called |-> FALSE,
            ctxt |-> "none", told |-> "nothing", given_up |-> 0, authok |-> FALSE, key_blob |-> [kind |-> "", key |-> NoKey],
            force_command |-> "", pending |-> "", out |-> <<>>]
      /\ proven = <<>> /\ guesses = 0
  BY DEF Init
<1> HIDE DEF pk, st
<1>7. c \in Child_
  BY <1>2, <1>4, <1>5, <1>6 DEF Child_, Pc, Command
<1>8. m \in Monitor_
  <2>1. {"STATE", "SETCOMPAT", "SIGN"} \in SUBSET (ReqType \ {"KEYEXPORT"}) /\ {} \in SUBSET KeyOrNone
    BY DEF ReqType, MON_ONCE
  <2>2. [kind |-> "", key |-> NoKey] \in [kind : Kind, key : KeyOrNone] /\ <<>> \in Seq(Reply)
    BY DEF Kind, KeyOrNone
  <2>3. "preauth" \in Phase /\ "" \in Why /\ "" \in Command /\ "none" \in Ctxt /\ "nothing" \in Verdict
    BY DEF Phase, Why, Command, Ctxt, Verdict
  <2> QED BY <1>5, <1>6, <2>1, <2>2, <2>3 DEF Monitor_
<1>9. TypeInv
  <2>0. proven = <<>> /\ guesses = 0
    BY DEF Init
  <2>1. proven \in Seq(ProofRec) /\ guesses \in Nat
    BY <2>0
  <2> QED BY <1>1, <1>7, <1>8, <2>1 DEF TypeInv
<1>10. /\ c.pc = "state" /\ c.attempt = 0 /\ c.failures = 0 /\ c.kbd = FALSE /\ c.out = st
       /\ m.phase = "preauth" /\ m.valid = FALSE /\ m.lists = NoLists /\ m.key_blob.key = NoKey
       /\ m.out = <<>> /\ guesses = 0 /\ proven = <<>> /\ Len(proven) = 0
  BY <1>6
<1>a. \A i \in 1..Len(c.out) : i = Len(c.out) /\ ~(i < Len(c.out)) /\ c.out[i].type = "STATE"
  <2>1. c.out = st
    BY <1>6
  <2>2. \A i \in 1..Len(st) : i = Len(st) /\ ~(i < Len(st)) /\ st[i].type = "STATE"
    BY <1>4
  <2> QED BY <2>1, <2>2
<1>11. ListsInv /\ DecidedInv /\ AllowedInv /\ KeysInv /\ KeysCountOnce
  <2>1. ListsInv
    BY <1>5, <1>10 DEF ListsInv
  <2>2. DecidedInv
    BY <1>10 DEF DecidedInv
  <2>3. AllowedInv
    BY <1>10, <1>a DEF AllowedInv
  <2>4. KeysInv /\ KeysCountOnce
    BY <1>10 DEF KeysInv, KeysCountOnce
  <2> QED BY <2>1, <2>2, <2>3, <2>4
<1>12. PipeInv
  BY <1>10, <1>a DEF PipeInv, Awaits
<1>13. GuessInv
  <2>1. cf.max_authtries \in Nat /\ Extra \in Nat /\ ~Late /\ EndedAt(c.pc, m.ctxt, m.out)
    BY <1>1, <1>6, <1>10 DEF Config, Extra, Late, EndedAt
  <2> QED BY <1>10, <2>1 DEF GuessInv, Asking
<1> QED BY <1>9, <1>11, <1>12, <1>13 DEF IInv, MonitorInv

\* A step of sshd-auth with no answer left on the pipe keeps the invariant.
LEMMA ChildKeeps ==
    ASSUME IInv, Step(c, c', guesses, m.ctxt), m' \in Monitor_, m'.out = <<>>, m'.phase = m.phase,
           m'.lists = m.lists, m'.valid = m.valid, m'.prev_keys = m.prev_keys, m'.key_blob = m.key_blob,
           m'.force_command = m.force_command, m'.ctxt = m.ctxt, UNCHANGED <<cf, proven, guesses>>
    PROVE  IInv'
<1>1. cf' = cf /\ proven' = proven /\ guesses' = guesses
  OBVIOUS
<1>2. Posed(c') /\ (c.success => c'.success) /\ FairAt(c', c'.pc, guesses, m.ctxt)
  BY DEF Step
<1>3. TypeInv'
  BY <1>1, <1>2 DEF IInv, TypeInv, Posed
<1>4. ListsInv'
  BY <1>1 DEF IInv, MonitorInv, ListsInv, auth2_methods_valid, Enabled
<1>5. DecidedInv'
  BY <1>1 DEF IInv, MonitorInv, DecidedInv, auth_root_allowed, Configured
<1>6. AllowedInv'
  BY <1>1, <1>2 DEF IInv, MonitorInv, AllowedInv, Posed
<1>7. KeysInv' /\ KeysCountOnce'
  BY <1>1 DEF IInv, MonitorInv, KeysInv, KeysCountOnce
<1>8. PipeInv'
  BY <1>2 DEF PipeInv, Posed
<1>9. GuessInv'
  <2>1. Extra' = Extra /\ guesses <= cf.max_authtries + Extra
    BY <1>1 DEF Extra, IInv, GuessInv
  <2>2. ~Late' /\ EndedAt(c'.pc, m'.ctxt, m'.out)
    <3>1. \A a : <<>> # <<a>>
      OBVIOUS
    <3> QED BY <1>2, <3>1 DEF Late, EndedAt, FairAt
  <2>3. guesses \in Nat
    BY DEF IInv, TypeInv
  <2>4. EndedAt(c.pc, m.ctxt, m.out)'
    BY <2>2 DEF EndedAt
  <2>5. c'.failures \in Nat /\ Extra \in Nat /\ (IF Late' THEN 1 ELSE 0) = 0
    BY <1>2, <2>2 DEF Posed, Child_, Extra
  <2> QED BY <1>1, <1>2, <2>1, <2>2, <2>3, <2>4, <2>5 DEF FairAt, GuessInv
<1> QED BY <1>3, <1>4, <1>5, <1>6, <1>7, <1>8, <1>9 DEF IInv, MonitorInv

\* Between two requests of the client nothing is asked and nothing owed.
LEMMA IdleFacts ==
    ASSUME IInv, c.pc = "idle"
    PROVE  c.out = <<>> /\ m.out = <<>> /\ FairAt(c, "idle", guesses, m.ctxt)
<1>1. c.out \in Seq(Request) /\ m.out = <<>>
  BY DEF IInv, TypeInv, Child_, PipeInv
<1>2. c.out = <<>>
  <2> SUFFICES ASSUME c.out # <<>> PROVE FALSE
    OBVIOUS
  <2>1. Len(c.out) \in Nat \ {0}
    BY <1>1, EmptySeq
  <2>2. Len(c.out) \in 1..Len(c.out)
    BY <2>1
  <2>3. Awaits("idle", c.out[Len(c.out)].type)
    BY <2>2 DEF IInv, PipeInv
  <2> QED BY <2>3 DEF Awaits
<1>3. ~Late
  BY DEF Late
<1>4. FairAt(c, "idle", guesses, m.ctxt)
  <2>1. guesses \in Nat /\ c.failures \in Nat /\ Extra \in Nat
    BY DEF IInv, TypeInv, Child_, Extra
  <2>2. m.ctxt # "Error"
    BY DEF IInv, GuessInv, EndedAt
  <2> QED BY <1>3, <2>1, <2>2 DEF IInv, GuessInv, FairAt, Asking
<1> QED BY <1>1, <1>2, <1>4

\* What the client sends keeps the invariant.
LEMMA ClientInv == IInv /\ (ClientRequest \/ ClientResponse \/ ClientClose) => IInv'
<1> SUFFICES ASSUME IInv, ClientRequest \/ ClientResponse \/ ClientClose PROVE IInv'
  OBVIOUS
<1>1. c.pc = "idle" /\ UNCHANGED <<cf, m, proven, guesses>>
  BY DEF ClientRequest, ClientResponse, ClientClose
<1>2. c.out = <<>> /\ m.out = <<>> /\ FairAt(c, "idle", guesses, m.ctxt)
  BY <1>1, IdleFacts
<1>3. cf \in Config /\ c \in Child_ /\ m \in Monitor_ /\ guesses \in Nat
  BY DEF IInv, TypeInv
<1>4. CASE ClientRequest
  <2>1. PICK pk \in Packet : c' = input_userauth_request(c, pk)
    BY <1>4 DEF ClientRequest
  <2>2. Step(c, c', guesses, m.ctxt)
    BY <1>2, <1>3, <2>1, RequestStep
  <2> QED BY <1>1, <1>2, <1>3, <2>2, ChildKeeps
<1>5. CASE ClientResponse
  <2>1. PICK resp \in {"nothing", "good", "bad", "empty"} : c' = input_userauth_info_response(c, resp)
    BY <1>5 DEF ClientResponse
  <2>2. Step(c, c', guesses, m.ctxt)
    BY <1>2, <1>3, <2>1, ResponseStep
  <2> QED BY <1>1, <1>2, <1>3, <2>2, ChildKeeps
<1>6. CASE ClientClose
  <2>1. c' = Gone(c)
    BY <1>6 DEF ClientClose
  <2>2. (c.attempt = 0 => guesses = 0) /\ (c.kbd => c.attempt > 0)
    BY <1>2 DEF FairAt
  <2>3. Step(c, c', guesses, m.ctxt)
    BY <1>2, <1>3, <2>1, <2>2, GoneStep
  <2> QED BY <1>1, <1>2, <1>3, <2>3, ChildKeeps
<1> QED BY <1>4, <1>5, <1>6

\* sshd-auth going on with an answer, or finding the pipe closed, keeps the
\* invariant.
LEMMA ChildInv == IInv /\ Child => IInv'
<1> SUFFICES ASSUME IInv, Child PROVE IInv'
  OBVIOUS
<1>1. cf \in Config /\ c \in Child_ /\ m \in Monitor_ /\ guesses \in Nat
  BY DEF IInv, TypeInv
<1>2. CASE ChildResume
  <2>1. Waiting /\ m.out # <<>> /\ c' = Resume(c, Head(m.out)) /\ m' = [m EXCEPT !.out = Tail(@)]
        /\ UNCHANGED <<cf, proven, guesses>>
    BY <1>2 DEF ChildResume
  <2>2. Step(c, c', guesses, m.ctxt)
    BY <2>1, ResumeStep DEF IInv
  <2>3. Tail(m.out) = <<>> /\ <<>> \in Seq(Reply)
    <3>1. m.out \in Seq(Reply) /\ Len(m.out) = 1
      BY <1>1, <2>1 DEF IInv, PipeInv, Monitor_
    <3> QED BY <3>1, OneElement
  <2>4. m' = [m EXCEPT !.out = <<>>]
    BY <2>1, <2>3
  <2>5. /\ m' \in Monitor_ /\ m'.out = <<>> /\ m'.phase = m.phase
        /\ m'.lists = m.lists /\ m'.valid = m.valid /\ m'.prev_keys = m.prev_keys /\ m'.key_blob = m.key_blob
        /\ m'.force_command = m.force_command /\ m'.ctxt = m.ctxt
    BY <1>1, <2>3, <2>4 DEF Monitor_
  <2> QED BY <2>1, <2>2, <2>5, ChildKeeps
<1>3. CASE ChildEOF
  <2>1. m.out = <<>> /\ ~Alive /\ c' = Gone(c) /\ UNCHANGED <<cf, m, proven, guesses>>
    BY <1>3 DEF ChildEOF
  <2>2. /\ c' \in Child_ /\ c'.pc = "gone" /\ c'.out = c.out /\ c'.success = c.success /\ c'.attempt = c.attempt
        /\ c'.kbd = c.kbd /\ c'.packet = c.packet
    BY <1>1, <2>1 DEF Gone, Child_, Pc
  <2>3. TypeInv'
    BY <2>1, <2>2 DEF IInv, TypeInv
  <2>4. ListsInv'
    BY <2>1 DEF IInv, MonitorInv, ListsInv, auth2_methods_valid, Enabled
  <2>5. DecidedInv'
    BY <2>1 DEF IInv, MonitorInv, DecidedInv, auth_root_allowed, Configured
  <2>6. AllowedInv'
    BY <2>1, <2>2 DEF IInv, MonitorInv, AllowedInv
  <2>7. KeysInv' /\ KeysCountOnce'
    BY <2>1 DEF IInv, MonitorInv, KeysInv, KeysCountOnce
  <2>8. PipeInv'
    BY <2>1, <2>2 DEF PipeInv, Alive
  <2>9. GuessInv'
    <3>1. Extra' = Extra /\ guesses' = guesses /\ cf' = cf
      BY <2>1 DEF Extra
    <3>2. EndedAt(c'.pc, m'.ctxt, m'.out)
      BY <2>2 DEF EndedAt
    <3> QED BY <2>1, <2>2, <3>1, <3>2 DEF IInv, GuessInv, Asking
  <2> QED BY <2>3, <2>4, <2>5, <2>6, <2>7, <2>8, <2>9 DEF IInv, MonitorInv
<1> QED BY <1>2, <1>3 DEF Child

\* The monitor takes a request off the pipe.
PopOK ==
    /\ c' \in Child_ /\ c'.pc = c.pc /\ c'.attempt = c.attempt /\ c'.failures = c.failures /\ c'.kbd = c.kbd
    /\ c'.postponed = c.postponed /\ c'.packet = c.packet /\ c'.success = c.success
    /\ Head(c.out) \in Request /\ m.out = <<>> /\ c.pc # "gone"
    /\ Head(c.out).type \in Silent \/ (c'.out = <<>> /\ Awaits(c.pc, Head(c.out).type))
    /\ \A i \in 1..Len(c'.out) : /\ i < Len(c'.out) => c'.out[i].type \in Silent
                                 /\ i = Len(c'.out) => Awaits(c.pc, c'.out[i].type)
    /\ Head(c.out).type = "KEYEXPORT" => c.success
    /\ \A i \in 1..Len(c'.out) : c'.out[i].type = "KEYEXPORT" => c.success

LEMMA PopFacts ==
    ASSUME IInv, Alive, c.out # <<>>, c' = [c EXCEPT !.out = Tail(@)]
    PROVE  PopOK
<1> DEFINE o == c.out
           t == Tail(c.out)
<1>1. c \in Child_ /\ o \in Seq(Request) /\ o # <<>>
  BY DEF IInv, TypeInv, Child_
<1>2. /\ Head(o) \in Request /\ t \in Seq(Request) /\ Len(t) = Len(o) - 1 /\ Len(o) \in Nat \ {0}
      /\ \A i \in 1..Len(t) : t[i] = o[i + 1]
  BY <1>1, HeadTailProperties, EmptySeq
<1>3. Head(o) = o[1] /\ 1 \in 1..Len(o)
  BY <1>1, <1>2
<1>4. \A i \in 1..Len(t) : i + 1 \in 1..Len(o) /\ (i < Len(t) <=> i + 1 < Len(o)) /\ (i = Len(t) <=> i + 1 = Len(o))
  BY <1>2, SMTT(30)
<1>5. c.pc # "gone" /\ m.out = <<>>
  BY DEF IInv, PipeInv
<1>6. \A i \in 1..Len(o) : /\ i < Len(o) => o[i].type \in Silent
                           /\ i = Len(o) => Awaits(c.pc, o[i].type)
  BY <1>5 DEF IInv, PipeInv
<1>7. \A i \in 1..Len(o) : o[i].type = "KEYEXPORT" => c.success
  BY DEF IInv, MonitorInv, AllowedInv
<1>8. /\ c' \in Child_ /\ c'.pc = c.pc /\ c'.attempt = c.attempt /\ c'.failures = c.failures /\ c'.kbd = c.kbd
      /\ c'.postponed = c.postponed /\ c'.packet = c.packet /\ c'.success = c.success /\ c'.out = t
  <2> HIDE DEF t
  <2>1. c' = [c EXCEPT !.out = t]
    BY DEF t
  <2> QED BY <1>1, <1>2, <2>1 DEF Child_
<1> HIDE DEF o, t
<1>9. Head(o).type \in Silent \/ (t = <<>> /\ Awaits(c.pc, Head(o).type))
  <2>1. CASE Len(o) = 1
    <3>1. Len(t) = 0
      BY <1>2, <2>1
    <3>2. t = <<>>
      BY <1>2, <3>1, EmptySeq
    <3> QED BY <1>3, <1>6, <2>1, <3>2
  <2>2. CASE Len(o) # 1
    BY <1>2, <1>3, <1>6, <2>2
  <2> QED BY <2>1, <2>2
<1>10. \A i \in 1..Len(t) : /\ i < Len(t) => t[i].type \in Silent
                            /\ i = Len(t) => Awaits(c.pc, t[i].type)
  BY <1>2, <1>4, <1>6
<1>11. Head(o).type = "KEYEXPORT" => c.success
  BY <1>3, <1>7
<1>12. \A i \in 1..Len(t) : t[i].type = "KEYEXPORT" => c.success
  BY <1>2, <1>4, <1>7
<1> QED BY <1>2, <1>5, <1>8, <1>9, <1>10, <1>11, <1>12 DEF PopOK, o

\* A request that leaves the answers, the PAM context and the guesses alone.
LEMMA QuietPop ==
    ASSUME IInv, PopOK, m'.out = m.out, m'.ctxt = m.ctxt, UNCHANGED <<cf, guesses>>
    PROVE  PipeInv' /\ GuessInv'
<1>1. PipeInv'
  BY DEF PopOK, PipeInv
<1>2. Late' <=> Late
  BY DEF Late, PopOK
<1>3. Extra' = Extra
  BY DEF Extra
<1>4. GuessInv'
  BY <1>2, <1>3 DEF IInv, GuessInv, PopOK
<1> QED BY <1>1, <1>4

\* A request that is handled: its answer, and the guess it may be.
LEMMA TurnPipe ==
    ASSUME IInv, PopOK, NEW r, HandleOK(m, Head(c.out), r), Head(c.out).type # "KEYEXPORT",
           m'.out = r.m.out, m'.ctxt = r.m.ctxt, cf' = cf,
           guesses' = IF Wrong(m, Head(c.out), r) THEN guesses + 1 ELSE guesses
    PROVE  PipeInv' /\ GuessInv'
<1> DEFINE q == Head(c.out)
<1>1. /\ m.out = <<>> /\ c.pc # "gone" /\ c'.pc = c.pc /\ c'.attempt = c.attempt /\ c'.failures = c.failures
      /\ c'.kbd = c.kbd /\ c'.postponed = c.postponed /\ c'.packet = c.packet
      /\ q.type \in Silent \/ (c'.out = <<>> /\ Awaits(c.pc, q.type))
  BY DEF PopOK
<1>2. HandlePipe(m, q, r)
  BY DEF HandleOK
<1>3. /\ c.failures \in Nat /\ c.attempt \in Nat /\ guesses \in Nat /\ cf.max_authtries \in Nat /\ Extra \in Nat
      /\ Extra' = Extra
  BY DEF IInv, TypeInv, Child_, Config, Extra
<1>4. CASE q.type \in Silent
  <2>1. m'.out = m.out /\ m'.ctxt = m.ctxt
    BY <1>2, <1>4 DEF HandlePipe
  <2>2. ~Wrong(m, q, r)
    BY <1>4 DEF Wrong, Silent
  <2>3. guesses' = guesses
    BY <2>2
  <2> QED BY <2>1, <2>3, QuietPop
<1>5. CASE q.type \notin Silent
  <2>1. c'.out = <<>> /\ Awaits(c.pc, q.type)
    BY <1>1, <1>5
  <2>2. m'.out = <<>> \/ \E a \in Reply : m'.out = <<a>> /\ Len(m'.out) = 1 /\ m'.out[1] = a
    <3> SUFFICES ASSUME m'.out # <<>>
                 PROVE  \E a \in Reply : m'.out = <<a>> /\ Len(m'.out) = 1 /\ m'.out[1] = a
      OBVIOUS
    <3>1. PICK a \in Reply : m'.out = <<a>>
      BY <1>1, <1>2 DEF HandlePipe
    <3>2. Len(m'.out) = 1 /\ m'.out[1] = a
      BY <3>1
    <3> QED BY <3>1, <3>2
  <2>3. c.pc \notin {"idle", "done"}
    BY <2>1 DEF Awaits
  <2>4. c.pc = "respond" => q.type = "PAM_RESPOND"
    BY <2>1 DEF Awaits
  <2>5. c.pc = "respond" /\ m'.out # <<>> => m'.out[1] \in {"ok", "again", "error"}
    <3> SUFFICES ASSUME c.pc = "respond", m'.out # <<>> PROVE m'.out[1] \in {"ok", "again", "error"}
      OBVIOUS
    <3>1. PICK a \in Reply : m'.out = <<a>> /\ a \in {"ok", "again", "error"}
      BY <1>1, <1>2, <2>4 DEF HandlePipe
    <3>2. m'.out[1] = a
      BY <3>1
    <3> QED BY <3>1, <3>2
  <2>6. PipeInv'
    <3>1. \A i \in 1..Len(c'.out) : FALSE
      BY <2>1
    <3> QED BY <1>1, <2>1, <2>2, <2>3, <2>5, <3>1 DEF PipeInv
  <2>7. EndedAt(c'.pc, m'.ctxt, m'.out)
    <3> SUFFICES ASSUME m'.ctxt = "Error"
                 PROVE  \/ c.pc = "refused" /\ m'.out = <<>>
                        \/ c.pc = "query" /\ m'.out = <<"error">>
      BY <1>1 DEF EndedAt
    <3>1. CASE q.type = "PAM_QUERY" /\ m'.out = <<"error">>
      BY <2>1, <3>1 DEF Awaits
    <3>2. CASE m.ctxt = "Error" /\ (q.type = "PAM_FREE_CTX" => m'.out = m.out)
      <4>1. <<>> # <<"error">>
        OBVIOUS
      <4>2. c.pc = "refused"
        BY <1>1, <3>2, <4>1 DEF IInv, GuessInv, EndedAt
      <4>3. q.type = "PAM_FREE_CTX"
        BY <2>1, <4>2 DEF Awaits
      <4> QED BY <1>1, <3>2, <4>2, <4>3
    <3> QED BY <1>1, <1>2, <3>1, <3>2 DEF HandlePipe
  <2>8. Wrong(m, q, r) => Late' /\ c.pc \in {"password", "verify", "refused"}
    <3> SUFFICES ASSUME Wrong(m, q, r) PROVE Late' /\ c.pc \in {"password", "verify", "refused"}
      OBVIOUS
    <3>1. CASE q.type \in {"AUTHPASSWORD", "KEYVERIFY"} /\ m'.out = <<"no">>
      <4>1. c.pc \in {"password", "verify"}
        BY <2>1, <3>1 DEF Awaits
      <4> QED BY <1>1, <3>1, <4>1 DEF Late
    <3>2. CASE q.type = "PAM_FREE_CTX" /\ m.ctxt = "Error" /\ m'.out # <<>>
      <4>1. <<>> # <<"error">>
        OBVIOUS
      <4>2. c.pc = "refused"
        BY <1>1, <3>2, <4>1 DEF IInv, GuessInv, EndedAt
      <4> QED BY <1>1, <3>2, <4>2 DEF Late
    <3> QED BY <1>1, <1>2, <3>1, <3>2 DEF HandlePipe
  <2>9. ~Late
    <3>1. <<>> # <<"no">>
      OBVIOUS
    <3> QED BY <1>1, <3>1 DEF Late
  <2>10. GuessInv'
    <3>1. CASE Wrong(m, q, r)
      <4>1. /\ ~Late /\ Late' /\ c.pc \in Asking /\ guesses' = guesses + 1 /\ c.pc \notin {"pwnam", "banner"}
        BY <2>8, <2>9, <3>1 DEF Asking
      <4>2. guesses <= c.failures + Extra /\ c.failures < cf.max_authtries /\ c.attempt > 0
        BY <1>3, <4>1 DEF IInv, GuessInv, Asking
      <4>3. guesses' <= cf.max_authtries + Extra /\ guesses' <= c.failures + Extra + 1
        BY <1>3, <4>1, <4>2
      <4>4. c.pc = "password" /\ c.packet.method = "none" =>
              cf.permit_empty_passwd /\ (c.attempt <= 1 => guesses' <= 1)
        BY <1>3, <4>1 DEF IInv, GuessInv
      <4> QED BY <1>1, <1>3, <2>7, <4>1, <4>2, <4>3, <4>4 DEF IInv, GuessInv
    <3>2. CASE ~Wrong(m, q, r)
      <4>1. guesses' = guesses
        BY <3>2
      <4>2. (IF Late THEN 1 ELSE 0) \in {0, 1} /\ (IF Late' THEN 1 ELSE 0) \in {0, 1}
            /\ (IF Late THEN 1 ELSE 0) <= (IF Late' THEN 1 ELSE 0)
        BY <2>9
      <4>3. c.pc \notin {"gone", "done"} => guesses <= c.failures + Extra + (IF Late' THEN 1 ELSE 0)
        BY <1>3, <4>2 DEF IInv, GuessInv
      <4>4. c.pc = "password" /\ c.packet.method = "none" =>
              cf.permit_empty_passwd /\ (c.attempt <= 1 => guesses <= (IF Late' THEN 1 ELSE 0))
        BY <1>3, <4>2 DEF IInv, GuessInv
      <4> QED BY <1>1, <1>3, <2>7, <4>1, <4>3, <4>4 DEF IInv, GuessInv
    <3> QED BY <3>1, <3>2
  <2> QED BY <2>6, <2>10
<1> QED BY <1>4, <1>5

\* A request that is handled and judged: lists, keys and the decision.
LEMMA TurnMonitor ==
    ASSUME IInv, PopOK, NEW r, HandleOK(m, Head(c.out), r), NEW s, s \in Monitor_,
           s.lists = r.m.lists, s.valid = r.m.valid, s.prev_keys = r.m.prev_keys, s.key_blob = r.m.key_blob,
           JudgeOK(s, r.proof, m'), m.phase = "preauth",
           cf' = cf, proven' = proven \o r.proof, guesses' \in Nat
    PROVE  TypeInv' /\ MonitorInv'
<1>1. /\ cf \in Config /\ m \in Monitor_ /\ proven \in Seq(ProofRec) /\ c' \in Child_ /\ m' \in Monitor_
      /\ ListsInv /\ AllowedInv /\ KeysInv /\ KeysCountOnce
  BY DEF IInv, TypeInv, MonitorInv, PopOK, JudgeOK, Kept
<1>2. HandleLists(m, r) /\ HandleKeys(m, r)
  BY DEF HandleOK
<1>3. r.proof = <<>> \/ \E p \in ProofRec : r.proof = <<p>>
  BY <1>2 DEF HandleLists
<1>4. r.proof \in Seq(ProofRec)
  <2>1. \A p \in ProofRec : <<p>> \in Seq(ProofRec)
    OBVIOUS
  <2> QED BY <1>3, <2>1, EmptySeq
<1>5. proven' \in Seq(ProofRec)
  BY <1>1, <1>4, ConcatProperties
<1>6. /\ Len(proven) \in Nat /\ Len(proven') = Len(proven) + Len(r.proof)
      /\ \A i \in 1..Len(proven) : proven'[i] = proven[i] /\ i \in 1..Len(proven')
  BY <1>1, <1>4, ConcatProperties
<1>7. TypeInv'
  BY <1>1, <1>5 DEF TypeInv
<1>8. \A i \in DOMAIN s.lists : /\ i \in DOMAIN cf.lists /\ auth2_methods_valid(cf.lists[i])
                                /\ Rest(cf.lists[i], s.lists[i], proven)
  <2>1. CASE s.lists = m.lists
    BY <1>1, <2>1 DEF ListsInv
  <2>2. CASE s.lists = auth2_setup_methods_lists
    <3>1. \A i \in DOMAIN cf.lists : cf.lists[i] \in Seq(Entry)
      BY <1>1 DEF Config
    <3>2. \A i \in DOMAIN s.lists : i \in DOMAIN cf.lists /\ auth2_methods_valid(cf.lists[i]) /\ s.lists[i] = cf.lists[i]
      BY <2>2 DEF auth2_setup_methods_lists
    <3> QED BY <1>1, <3>1, <3>2, RestFull
  <2> QED BY <1>2, <2>1, <2>2 DEF HandleLists
<1>9. s.lists \in Lists /\ \A i \in DOMAIN s.lists : s.lists[i] \in Seq(Entry)
  <2>1. s.lists \in Lists
    BY DEF Monitor_
  <2> QED BY <2>1 DEF Lists
<1> DEFINE pf == r.proof[1]
           u == auth2_update_methods_lists(s.lists, pf.method, pf.sub)
<1>10. r.proof # <<>> => /\ pf \in ProofRec /\ r.proof = <<pf>> /\ Len(r.proof) = 1
                         /\ DOMAIN u.lists = DOMAIN s.lists
                         /\ \A i \in DOMAIN u.lists : Rest(cf.lists[i], u.lists[i], proven')
                         /\ u.complete => \E i \in DOMAIN u.lists : u.lists[i] = <<>>
  <2> SUFFICES ASSUME r.proof # <<>>
               PROVE  /\ pf \in ProofRec /\ r.proof = <<pf>> /\ Len(r.proof) = 1
                      /\ DOMAIN u.lists = DOMAIN s.lists
                      /\ \A i \in DOMAIN u.lists : Rest(cf.lists[i], u.lists[i], proven')
                      /\ u.complete => \E i \in DOMAIN u.lists : u.lists[i] = <<>>
    OBVIOUS
  <2>1. PICK p \in ProofRec : r.proof = <<p>>
    BY <1>3
  <2>2. pf = p /\ Len(r.proof) = 1
    BY <2>1
  <2> HIDE DEF pf
  <2>3. DOMAIN u.lists = DOMAIN s.lists
    BY <1>9, UpdateLists
  <2>4. /\ \A i \in DOMAIN u.lists : Rest(cf.lists[i], u.lists[i], proven \o <<pf>>)
        /\ u.complete => \E i \in DOMAIN u.lists : u.lists[i] = <<>>
    BY <1>1, <1>8, <1>9, <2>2, UpdateRest, SMTT(30)
  <2> QED BY <2>1, <2>2, <2>3, <2>4
<1> HIDE DEF pf, u
<1>11. ListsInv'
  <2>1. CASE m'.lists = s.lists
    <3>1. \A i \in DOMAIN s.lists : Rest(cf.lists[i], s.lists[i], proven')
      <4> TAKE i \in DOMAIN s.lists
      <4>1. cf.lists[i] \in Seq(Entry)
        BY <1>1, <1>8 DEF Config
      <4> QED BY <1>1, <1>4, <1>8, <1>9, <4>1, RestKept
    <3> QED BY <1>8, <2>1, <3>1 DEF ListsInv, auth2_methods_valid, Enabled
  <2>2. CASE r.proof # <<>> /\ m'.lists = u.lists
    BY <1>8, <1>10, <2>2 DEF ListsInv, auth2_methods_valid, Enabled
  <2> QED BY <2>1, <2>2 DEF JudgeOK, u, pf
<1>12. DecidedInv'
  <2> SUFFICES ASSUME m'.phase \in {"account", "export", "post"}
               PROVE  /\ proven' # <<>>
                      /\ cf.root => auth_root_allowed(m, proven[Len(proven)].method)'
                      /\ Configured => \E i \in DOMAIN m'.lists : m'.lists[i] = <<>>
    BY DEF DecidedInv, Configured
  <2>1. /\ r.proof # <<>> /\ (cf.root => auth_root_allowed(s, pf.method))
        /\ Configured => u.complete /\ m'.lists = u.lists
    BY DEF JudgeOK, u, pf
  <2>2. proven'[Len(proven')] = pf /\ proven' # <<>>
    BY <1>1, <1>4, <1>6, <1>10, <2>1, ConcatProperties
  <2>3. m'.force_command = s.force_command
    BY DEF JudgeOK, Kept
  <2> QED BY <1>10, <2>1, <2>2, <2>3 DEF auth_root_allowed
<1>13. AllowedInv'
  <2>1. m'.valid = s.valid /\ m'.phase # "post" /\ (m'.phase = "export" => s.valid /\ ~cf.pam)
    BY DEF JudgeOK, Kept
  <2>2. s.valid => cf.valid
    BY <1>1, <1>2 DEF HandleLists, AllowedInv
  <2>3. \A i \in 1..Len(c'.out) : c'.out[i].type = "KEYEXPORT" => c'.success
    BY DEF PopOK
  <2> QED BY <2>1, <2>2, <2>3 DEF AllowedInv
<1>14. m'.prev_keys = r.m.prev_keys /\ m'.key_blob = r.m.key_blob /\ m.prev_keys \subseteq m'.prev_keys
  BY <1>2 DEF JudgeOK, Kept, HandleKeys
<1>15. \A i \in 1..Len(proven') : i \in 1..Len(proven) \/ (r.proof # <<>> /\ i = Len(proven) + 1 /\ proven'[i] = pf)
  <2>1. CASE r.proof = <<>>
    BY <1>6, <2>1
  <2>2. CASE r.proof # <<>>
    <3>1. proven'[Len(proven) + 1] = pf
      BY <1>1, <1>4, <1>6, <1>10, <2>2, ConcatProperties
    <3> QED BY <1>6, <1>10, <2>2, <3>1
  <2> QED BY <2>1, <2>2
<1>16. r.proof # <<>> /\ pf.key # NoKey =>
         /\ pf.key \in m'.prev_keys
         /\ \A i \in 1..Len(proven) : proven[i].key # pf.key
  <2> SUFFICES ASSUME r.proof # <<>>, pf.key # NoKey
               PROVE  /\ pf.key \in m'.prev_keys
                      /\ \A i \in 1..Len(proven) : proven[i].key # pf.key
    OBVIOUS
  <2>1. pf.key = m.key_blob.key /\ pf.key \in r.m.prev_keys
    BY <1>2 DEF HandleKeys, pf
  <2>2. pf.key \notin m.prev_keys
    BY <1>1, <2>1 DEF KeysInv
  <2> QED BY <1>1, <1>14, <2>1, <2>2 DEF KeysInv
<1>17. KeysInv'
  <2>1. \A i \in 1..Len(proven') : proven'[i].key # NoKey => proven'[i].key \in m'.prev_keys
    BY <1>1, <1>6, <1>14, <1>15, <1>16 DEF KeysInv
  <2>2. m'.key_blob.key # NoKey => m'.key_blob.key \notin m'.prev_keys
    BY <1>1, <1>2, <1>14 DEF KeysInv, HandleKeys
  <2> QED BY <2>1, <2>2 DEF KeysInv
<1>18. KeysCountOnce'
  <2> SUFFICES ASSUME NEW i \in 1..Len(proven'), NEW j \in 1..Len(proven'), i # j, proven'[i].key # NoKey
               PROVE  proven'[i].key # proven'[j].key
    BY DEF KeysCountOnce
  <2>1. CASE i \in 1..Len(proven) /\ j \in 1..Len(proven)
    BY <1>1, <1>6, <2>1 DEF KeysCountOnce
  <2>2. CASE i \in 1..Len(proven) /\ j \notin 1..Len(proven)
    BY <1>6, <1>15, <1>16, <2>2
  <2>3. CASE i \notin 1..Len(proven) /\ j \in 1..Len(proven)
    BY <1>6, <1>15, <1>16, <2>3
  <2>4. CASE i \notin 1..Len(proven) /\ j \notin 1..Len(proven)
    BY <1>15, <2>4
  <2> QED BY <2>1, <2>2, <2>3, <2>4
<1> QED BY <1>7, <1>11, <1>12, <1>13, <1>17, <1>18 DEF MonitorInv

\* A step that verifies nothing and keeps what the monitor knows.
LEMMA KnowledgeKept ==
    ASSUME IInv, c' \in Child_, Kept(m, m'), m'.lists = m.lists, UNCHANGED <<cf, proven, guesses>>,
           m'.phase \in {"account", "export", "post"} => m.phase \in {"account", "export", "post"},
           m'.phase \in {"export", "post"} => m.valid /\ (cf.pam => cf.pam_account),
           m'.phase = "post" => c'.success,
           \A i \in 1..Len(c'.out) : c'.out[i].type = "KEYEXPORT" => c'.success
    PROVE  TypeInv' /\ MonitorInv'
<1>1. /\ cf' = cf /\ proven' = proven /\ guesses' = guesses /\ m' \in Monitor_ /\ m'.valid = m.valid
      /\ m'.prev_keys = m.prev_keys /\ m'.key_blob = m.key_blob /\ m'.force_command = m.force_command
  BY DEF Kept
<1>2. TypeInv'
  BY <1>1 DEF IInv, TypeInv
<1>3. ListsInv'
  BY <1>1 DEF IInv, MonitorInv, ListsInv, auth2_methods_valid, Enabled
<1>4. DecidedInv'
  BY <1>1 DEF IInv, MonitorInv, DecidedInv, auth_root_allowed, Configured
<1>5. AllowedInv'
  BY <1>1 DEF IInv, MonitorInv, AllowedInv
<1>6. KeysInv' /\ KeysCountOnce'
  BY <1>1 DEF IInv, MonitorInv, KeysInv, KeysCountOnce
<1> QED BY <1>2, <1>3, <1>4, <1>5, <1>6 DEF MonitorInv

\* monitor_read and the turn of monitor_child_preauth it belongs to keep the
\* invariant.
LEMMA ReadInv == ASSUME IInv, NEW word \in PamWord, MonitorRead(word) PROVE IInv'
<1> DEFINE q == Head(c.out)
           r == Handle(m, q, word)
           perm == IF q.type \in MON_ONCE THEN r.m.permit \ {q.type} ELSE r.m.permit
           s == [r.m EXCEPT !.permit = perm]
<1>1. /\ m.phase = "preauth" /\ c.out # <<>> /\ c' = [c EXCEPT !.out = Tail(@)] /\ cf' = cf
      /\ cf \in Config /\ m \in Monitor_ /\ guesses \in Nat
  BY DEF MonitorRead, IInv, TypeInv
<1>2. PopOK
  BY <1>1, PopFacts DEF Alive
<1>3. q \in Request /\ c' \in Child_ /\ \A i \in 1..Len(c'.out) : c'.out[i].type = "KEYEXPORT" => c'.success
  BY <1>2 DEF PopOK
<1>4. CASE Unpermitted(m, q)
  <2>1. m' = Fatal(m, "unpermitted request") /\ UNCHANGED <<proven, guesses>>
    BY <1>4 DEF MonitorRead
  <2>2. Kept(m, m') /\ m'.lists = m.lists /\ m'.phase = "fatal"
    <3>1. "unpermitted request" \in Why
      BY DEF Why
    <3> QED BY <1>1, <2>1, <3>1, FatalFacts
  <2>3. TypeInv' /\ MonitorInv'
    BY <1>1, <1>3, <2>1, <2>2, KnowledgeKept
  <2>4. PipeInv' /\ GuessInv'
    BY <1>1, <1>2, <2>1, <2>2, QuietPop DEF Kept
  <2> QED BY <2>3, <2>4 DEF IInv
<1>5. CASE ~Unpermitted(m, q)
  <2>1. /\ m' = IF s.phase = "fatal" THEN s ELSE Judge(s, q.type, r.proof)
        /\ proven' = proven \o r.proof
        /\ guesses' = IF Wrong(m, q, r) THEN guesses + 1 ELSE guesses
    BY <1>5 DEF MonitorRead
  <2>2. HandleOK(m, q, r) /\ q.type # "KEYEXPORT" /\ q.type \in ReqType
    <3>1. q.type \in m.permit
      BY <1>5 DEF Unpermitted
    <3>2. q.type \in ReqType \ {"KEYEXPORT"}
      BY <1>1, <3>1 DEF Monitor_
    <3> QED BY <1>1, <1>3, <3>1, <3>2, HandleFacts
  <2> HIDE DEF q, r
  <2>3. r.m \in Monitor_ /\ (r.m.phase = "fatal" => r.proof = <<>>)
    BY <2>2 DEF HandleOK, HandleLists
  <2>4. perm \in SUBSET (ReqType \ {"KEYEXPORT"})
    BY <2>3 DEF Monitor_
  <2>5. /\ s \in Monitor_ /\ s.phase = r.m.phase /\ s.lists = r.m.lists /\ s.valid = r.m.valid
        /\ s.prev_keys = r.m.prev_keys /\ s.key_blob = r.m.key_blob /\ s.out = r.m.out /\ s.ctxt = r.m.ctxt
    <3> HIDE DEF perm
    <3> QED BY <2>3, <2>4 DEF Monitor_
  <2> HIDE DEF s
  <2>6. JudgeOK(s, r.proof, m')
    <3>1. CASE s.phase = "fatal"
      <4>1. m' = s /\ Kept(s, s)
        BY <2>1, <2>5, <3>1 DEF Kept
      <4> QED BY <3>1, <4>1 DEF JudgeOK
    <3>2. CASE s.phase # "fatal"
      BY <1>1, <2>1, <2>2, <2>5, <3>2, JudgeFacts
    <3> QED BY <3>1, <3>2
  <2>7. m'.out = r.m.out /\ m'.ctxt = r.m.ctxt
    BY <2>5, <2>6 DEF JudgeOK, Kept
  <2>8. PipeInv' /\ GuessInv'
    BY <1>1, <1>2, <2>1, <2>2, <2>7, TurnPipe DEF q
  <2>9. guesses' \in Nat
    BY <1>1, <2>1
  <2>10. TypeInv' /\ MonitorInv'
    BY <1>1, <1>2, <2>1, <2>2, <2>5, <2>6, <2>9, TurnMonitor DEF q
  <2> QED BY <2>8, <2>10 DEF IInv
<1> QED BY <1>4, <1>5

\* The request for PAM's word on the account keeps the invariant.
LEMMA AccountInv == IInv /\ MonitorAccount => IInv'
<1> SUFFICES ASSUME IInv, MonitorAccount PROVE IInv'
  OBVIOUS
<1> DEFINE q == Head(c.out)
           a == Said(cf.pam_account)
           s == mm_answer_pam_account(m)
<1>1. /\ m.phase = "account" /\ c.out # <<>> /\ c' = [c EXCEPT !.out = Tail(@)]
      /\ m' = IF q.type = "PAM_ACCOUNT" THEN Decide(s, m.pending, cf.pam_account, FALSE)
              ELSE Fatal(m, "read unexpected type")
      /\ UNCHANGED <<cf, proven, guesses>> /\ cf \in Config /\ m \in Monitor_
  BY DEF MonitorAccount, IInv, TypeInv
<1>2. PopOK
  BY <1>1, PopFacts DEF Alive
<1>3. c' \in Child_ /\ m.out = <<>> /\ \A i \in 1..Len(c'.out) : c'.out[i].type = "KEYEXPORT" => c'.success
  BY <1>2 DEF PopOK
<1>4. CASE q.type # "PAM_ACCOUNT"
  <2>1. Kept(m, m') /\ m'.lists = m.lists /\ m'.phase = "fatal"
    <3>1. "read unexpected type" \in Why
      BY DEF Why
    <3> QED BY <1>1, <1>4, <3>1, FatalFacts
  <2>2. TypeInv' /\ MonitorInv'
    BY <1>1, <1>3, <2>1, KnowledgeKept
  <2>3. PipeInv' /\ GuessInv'
    BY <1>1, <1>2, <2>1, QuietPop DEF Kept
  <2> QED BY <2>2, <2>3 DEF IInv
<1>5. CASE q.type = "PAM_ACCOUNT"
  <2>1. a \in {"yes", "no"} /\ a \in Reply /\ cf.pam_account \in BOOLEAN
    BY <1>1 DEF Said, Reply, Config
  <2> DEFINE o == Append(m.out, a)
  <2>2. o \in Seq(Reply) /\ o = <<a>>
    BY <1>1, <1>3, <2>1, AnswerSeq
  <2>3. /\ s \in Monitor_ /\ s.out = o /\ s.ctxt = m.ctxt /\ s.valid = m.valid /\ s.prev_keys = m.prev_keys
        /\ s.key_blob = m.key_blob /\ s.force_command = m.force_command /\ s.lists = m.lists
    <3>1. s = [m EXCEPT !.out = o]
      BY DEF mm_answer_pam_account, Answer
    <3> HIDE DEF o, s
    <3> QED BY <1>1, <2>2, <3>1 DEF Monitor_
  <2> HIDE DEF s, a, o
  <2>4. /\ Kept(s, m') /\ m'.lists = s.lists /\ m'.phase \in {"preauth", "export", "fatal"}
        /\ m'.phase = "export" => cf.pam_account /\ s.valid
    BY <1>1, <1>5, <2>1, <2>3, DecideFacts
  <2>5. /\ m' \in Monitor_ /\ m'.out = <<a>> /\ m'.ctxt = m.ctxt /\ m'.valid = m.valid /\ m'.prev_keys = m.prev_keys
        /\ m'.key_blob = m.key_blob /\ m'.force_command = m.force_command /\ m'.lists = m.lists
    BY <2>2, <2>3, <2>4 DEF Kept
  <2>6. TypeInv'
    BY <1>1, <1>3, <2>5 DEF IInv, TypeInv
  <2>7. ListsInv'
    BY <1>1, <2>5 DEF IInv, MonitorInv, ListsInv, auth2_methods_valid, Enabled
  <2>8. DecidedInv'
    BY <1>1, <2>5 DEF IInv, MonitorInv, DecidedInv, auth_root_allowed, Configured
  <2>9. AllowedInv'
    BY <1>1, <1>3, <2>3, <2>4, <2>5 DEF IInv, MonitorInv, AllowedInv
  <2>10. KeysInv' /\ KeysCountOnce'
    BY <1>1, <2>5 DEF IInv, MonitorInv, KeysInv, KeysCountOnce
  <2>11. c.pc = "account" /\ c'.pc = "account" /\ c'.out = <<>>
    BY <1>2, <1>5 DEF PopOK, Awaits, Silent
  <2>12. Len(<<a>>) = 1 /\ <<a>>[1] = a /\ <<"ok">>[1] = "ok" /\ <<a>> # <<"ok">>
    BY <2>1
  <2>13. PipeInv'
    <3>1. \A i \in 1..Len(c'.out) : FALSE
      BY <2>11
    <3> QED BY <2>5, <2>11, <2>12, <3>1 DEF PipeInv
  <2>14. GuessInv'
    <3>1. ~Late /\ ~Late' /\ Extra' = Extra
      BY <1>1, <2>11 DEF Late, Extra
    <3>2. m'.ctxt # "Error"
      BY <2>5, <2>11 DEF IInv, GuessInv, EndedAt
    <3> QED BY <1>1, <1>2, <2>11, <3>1, <3>2 DEF IInv, GuessInv, PopOK, EndedAt
  <2> QED BY <2>6, <2>7, <2>8, <2>9, <2>10, <2>13, <2>14 DEF IInv, MonitorInv
<1> QED BY <1>4, <1>5

\* mm_get_keystate, the start of the session, keeps the invariant.
LEMMA KeystateInv == IInv /\ mm_get_keystate => IInv'
<1> SUFFICES ASSUME IInv, mm_get_keystate PROVE IInv'
  OBVIOUS
<1> DEFINE q == Head(c.out)
<1>1. /\ m.phase = "export" /\ c.out # <<>> /\ c' = [c EXCEPT !.out = Tail(@)]
      /\ m' = IF q.type = "KEYEXPORT" THEN [m EXCEPT !.phase = "post"] ELSE Fatal(m, "read unexpected type")
      /\ UNCHANGED <<cf, proven, guesses>> /\ m \in Monitor_
  BY DEF mm_get_keystate, IInv, TypeInv
<1>2. PopOK
  BY <1>1, PopFacts DEF Alive
<1>3. /\ c' \in Child_ /\ \A i \in 1..Len(c'.out) : c'.out[i].type = "KEYEXPORT" => c'.success
      /\ q.type = "KEYEXPORT" => c'.success
  BY <1>2 DEF PopOK
<1>4. Kept(m, m') /\ m'.lists = m.lists /\ m'.phase \in {"fatal", "post"} /\ (m'.phase = "post" => c'.success)
  <2>1. CASE q.type = "KEYEXPORT"
    <3>1. m' = [m EXCEPT !.phase = "post"]
      BY <1>1, <2>1
    <3> QED BY <1>1, <1>3, <2>1, <3>1 DEF Kept, Monitor_, Phase
  <2>2. CASE q.type # "KEYEXPORT"
    <3>1. "read unexpected type" \in Why
      BY DEF Why
    <3> QED BY <1>1, <2>2, <3>1, FatalFacts
  <2> QED BY <2>1, <2>2
<1>5. m.valid /\ (cf.pam => cf.pam_account)
  BY <1>1 DEF IInv, MonitorInv, AllowedInv
<1>6. TypeInv' /\ MonitorInv'
  BY <1>1, <1>3, <1>4, <1>5, KnowledgeKept
<1>7. PipeInv' /\ GuessInv'
  BY <1>1, <1>2, <1>4, QuietPop DEF Kept
<1> QED BY <1>6, <1>7 DEF IInv

\* The monitor finding the pipe closed keeps the invariant.
LEMMA EOFInv == IInv /\ MonitorEOF => IInv'
<1> SUFFICES ASSUME IInv, MonitorEOF PROVE IInv'
  OBVIOUS
<1>1. m' = [m EXCEPT !.phase = "exit"] /\ UNCHANGED <<cf, c, proven, guesses>> /\ m \in Monitor_ /\ c' \in Child_
  BY DEF MonitorEOF, IInv, TypeInv
<1>2. Kept(m, m') /\ m'.lists = m.lists /\ m'.phase = "exit"
  BY <1>1 DEF Kept, Monitor_, Phase
<1>3. \A i \in 1..Len(c'.out) : c'.out[i].type = "KEYEXPORT" => c'.success
  BY <1>1 DEF IInv, MonitorInv, AllowedInv
<1>4. TypeInv' /\ MonitorInv'
  BY <1>1, <1>2, <1>3, KnowledgeKept
<1>5. m'.out = m.out /\ m'.ctxt = m.ctxt /\ ~Alive'
  BY <1>2 DEF Kept, Alive
<1>6. PipeInv'
  BY <1>1, <1>5 DEF IInv, PipeInv
<1>7. GuessInv'
  <2>1. (Late' <=> Late) /\ Extra' = Extra
    BY <1>1, <1>5 DEF Late, Extra
  <2> QED BY <1>1, <1>5, <2>1 DEF IInv, GuessInv
<1> QED BY <1>4, <1>6, <1>7 DEF IInv

\* Every step keeps the invariant.
LEMMA NextInv == IInv /\ [Next]_vars => IInv'
<1> SUFFICES ASSUME IInv, [Next]_vars PROVE IInv'
  OBVIOUS
<1>1. CASE Next
  <2>1. CASE Monitor
    BY <2>1, ReadInv, AccountInv, KeystateInv, EOFInv DEF Monitor
  <2> QED BY <1>1, <2>1, ClientInv, ChildInv DEF Next
<1>2. CASE UNCHANGED vars
  <2>1. cf' = cf /\ c' = c /\ m' = m /\ proven' = proven /\ guesses' = guesses
    BY <1>2 DEF vars
  <2>2. TypeInv'
    BY <2>1 DEF IInv, TypeInv
  <2>3. ListsInv' /\ DecidedInv'
    BY <2>1 DEF IInv, MonitorInv, ListsInv, DecidedInv, auth2_methods_valid, Enabled, auth_root_allowed, Configured
  <2>4. AllowedInv' /\ KeysInv' /\ KeysCountOnce'
    BY <2>1 DEF IInv, MonitorInv, AllowedInv, KeysInv, KeysCountOnce
  <2>5. PipeInv'
    BY <2>1 DEF IInv, PipeInv, Alive
  <2>6. GuessInv'
    BY <2>1 DEF IInv, GuessInv, Late, Extra
  <2> QED BY <2>2, <2>3, <2>4, <2>5, <2>6 DEF IInv, MonitorInv
<1> QED BY <1>1, <1>2

\* The invariant holds in every state of every behaviour.
LEMMA Invariant == Spec => []IInv
<1>1. Init => IInv
  BY InitInv
<1>2. IInv /\ [Next]_vars => IInv'
  BY NextInv
<1> QED BY <1>1, <1>2, PTL DEF Spec

----------------------------------------------------------------------------
\* Every variable of both processes and of the pipe keeps its type.
THEOREM TypeCorrect == Spec => []TypeInv
<1>1. IInv => TypeInv
  BY DEF IInv
<1> QED BY <1>1, Invariant, PTL

\* What the session rests on follows from what the monitor has decided: a
\* list that has become empty was verified from its first method to its last.
LEMMA Justified == IInv => SessionJustified
<1> SUFFICES ASSUME IInv, m.phase = "post" PROVE SessionJustified
  BY DEF SessionJustified
<1>1. cf \in Config /\ ListsInv /\ DecidedInv /\ AllowedInv
  BY DEF IInv, TypeInv, MonitorInv
<1>2. cf.valid /\ c.success /\ (cf.pam => cf.pam_account)
  BY <1>1 DEF AllowedInv
<1>3. proven # <<>> /\ (cf.root => auth_root_allowed(m, proven[Len(proven)].method))
  BY <1>1 DEF DecidedInv
<1>4. Configured => \E i \in 1..Len(cf.lists) : auth2_methods_valid(cf.lists[i]) /\ Satisfied(cf.lists[i])
  <2> SUFFICES ASSUME Configured
               PROVE  \E i \in 1..Len(cf.lists) : auth2_methods_valid(cf.lists[i]) /\ Satisfied(cf.lists[i])
    OBVIOUS
  <2>1. PICK i \in DOMAIN m.lists : m.lists[i] = <<>>
    BY <1>1 DEF DecidedInv
  <2>2. i \in DOMAIN cf.lists /\ auth2_methods_valid(cf.lists[i]) /\ Rest(cf.lists[i], <<>>, proven)
    BY <1>1, <2>1 DEF ListsInv
  <2>3. cf.lists \in Seq(Seq(Entry))
    BY <1>1 DEF Config
  <2>4. i \in 1..Len(cf.lists) /\ cf.lists[i] \in Seq(Entry)
    BY <2>2, <2>3
  <2>5. Len(cf.lists[i]) - Len(<<>>) = Len(cf.lists[i])
    BY <2>4
  <2>6. Verified(cf.lists[i], Len(cf.lists[i]), proven)
    BY <2>2, <2>5 DEF Rest
  <2>7. Satisfied(cf.lists[i])
    BY <2>6 DEF Verified, Satisfied
  <2> QED BY <2>2, <2>4, <2>7
<1> QED BY <1>2, <1>3, <1>4 DEF SessionJustified

\* A session starts only when the configuration justifies it: mm_get_keystate
\* returns after the monitor itself has verified, in order, every method of a
\* list of AuthenticationMethods (or one method when there is none), for a
\* user who may log in.
THEOREM SessionsAreJustified == Spec => []SessionJustified
BY Invariant, Justified, PTL

\* auth2_key_already_used and auth2_record_key: no key is verified twice.
THEOREM KeysAreUsedOnce == Spec => []KeysCountOnce
<1>1. IInv => KeysCountOnce
  BY DEF IInv, MonitorInv
<1> QED BY <1>1, Invariant, PTL

----------------------------------------------------------------------------
(* What the monitor counts. *)

\* PAM grants nothing before it was told the right password.
GrantInv == m.ctxt = "Authenticated" \/ m.authok => m.told = "good"

\* Every guess and every conversation given up is a failure, and the monitor
\* ends at the first failure after MaxAuthTries.
CountInv ==
    /\ guesses + m.given_up <= m.failures
    /\ m.failures <= cf.max_authtries + 1
    /\ m.phase # "fatal" => m.failures <= cf.max_authtries

\* No handler touches the count; only the end of a conversation is given up.
HandleCounts(s, q, r) ==
    /\ r.m.failures = s.failures
    /\ r.m.ctxt = "Authenticated" \/ r.m.authok => r.m.told = "good"
    /\ \/ r.m.given_up = s.given_up
       \/ /\ r.m.given_up = s.given_up + 1 /\ q.type \in MON_AUTHDECIDE /\ r.proof = <<>>
          /\ ~Wrong(s, q, r) /\ r.m.phase # "fatal"
    /\ Wrong(s, q, r) => q.type \in MON_AUTHDECIDE /\ r.proof = <<>> /\ r.m.phase # "fatal"

\* What the handlers do to the fields that count.
LEMMA HandleCount ==
    ASSUME cf \in Config, NEW s \in Monitor_, s.phase = "preauth", NEW q \in Request, NEW word \in PamWord,
           q.type \in s.permit, s.ctxt = "Authenticated" \/ s.authok => s.told = "good"
    PROVE  HandleCounts(s, q, Handle(s, q, word))
<1> DEFINE r == Handle(s, q, word)
<1> SUFFICES HandleCounts(s, q, r)
  OBVIOUS
<1>1. q.type \in ReqType \ {"KEYEXPORT"}
  BY DEF Monitor_
<1>2. CASE q.type \notin {"PAM_INIT_CTX", "PAM_QUERY", "PAM_RESPOND", "PAM_FREE_CTX"}
  <2>1. r.m.failures = s.failures /\ r.m.given_up = s.given_up /\ r.m.ctxt = s.ctxt /\ r.m.authok = s.authok
        /\ r.m.told = s.told
    <3>1. CASE q.type \in {"STATE", "SETCOMPAT", "SIGN"}
      BY <3>1 DEF Handle, mm_answer_state, mm_answer_setcompat, mm_answer_sign, Plain, Fatal, Permit, Answer, Monitor_
    <3>2. CASE q.type \in {"PWNAM", "AUTHSERV", "READ_BANNER", "PAM_START"}
      BY <3>2 DEF Handle, mm_answer_pwnamallow, mm_answer_authserv, mm_answer_auth2_read_banner, mm_answer_pam_start,
         Plain, Fatal, Permit, Answer, Monitor_
    <3>3. CASE q.type \in {"AUTHPASSWORD", "PAM_ACCOUNT", "KEYALLOWED"}
      BY <3>3 DEF Handle, mm_answer_authpassword, mm_answer_pam_account, mm_answer_keyallowed, Plain, Result, Fatal,
         Answer, Monitor_
    <3>4. CASE q.type = "KEYVERIFY"
      BY <3>4 DEF Handle, mm_answer_keyverify, auth2_record_key, auth_activate_options, Plain, Result, Fatal, Answer, Monitor_
    <3> QED BY <1>1, <1>2, <3>1, <3>2, <3>3, <3>4 DEF ReqType, MON_ONCE, MON_AUTH, MON_AUTHDECIDE
  <2>2. Wrong(s, q, r) => q.type \in MON_AUTHDECIDE /\ r.proof = <<>> /\ r.m.phase # "fatal"
    BY <1>2 DEF Wrong, MON_AUTHDECIDE
  <2> HIDE DEF r
  <2> QED BY <2>1, <2>2 DEF HandleCounts
<1>3. CASE q.type = "PAM_INIT_CTX"
  <2>1. r.m.failures = s.failures /\ r.m.given_up = s.given_up
    BY <1>3 DEF Handle, mm_answer_pam_init_ctx, Plain, Fatal, Permit, Answer, Monitor_
  <2>2. r.m.ctxt = "Authenticated" \/ r.m.authok => r.m.told = "good"
    BY <1>3 DEF Handle, mm_answer_pam_init_ctx, Plain, Fatal, Permit, Answer, Monitor_
  <2>3. ~Wrong(s, q, r)
    BY <1>3 DEF Wrong
  <2> HIDE DEF r
  <2> QED BY <2>1, <2>2, <2>3 DEF HandleCounts
<1>4. CASE q.type = "PAM_QUERY"
  <2>1. r.m.failures = s.failures /\ r.m.given_up = s.given_up
    BY <1>4 DEF Handle, mm_answer_pam_query, Plain, Fatal, Permit, Answer, Monitor_
  <2>2. r.m.ctxt = "Authenticated" \/ r.m.authok => r.m.told = "good"
    BY <1>4 DEF Handle, mm_answer_pam_query, Plain, Fatal, Permit, Answer, Monitor_, PamWord
  <2>3. ~Wrong(s, q, r)
    BY <1>4 DEF Wrong
  <2> HIDE DEF r
  <2> QED BY <2>1, <2>2, <2>3 DEF HandleCounts
<1>5. CASE q.type = "PAM_RESPOND"
  <2>1. r.m.failures = s.failures /\ r.m.given_up = s.given_up
    BY <1>5 DEF Handle, mm_answer_pam_respond, Plain, Fatal, Answer, Monitor_
  <2>2. r.m.ctxt = "Authenticated" \/ r.m.authok => r.m.told = "good"
    BY <1>5 DEF Handle, mm_answer_pam_respond, Plain, Fatal, Answer, Monitor_
  <2>3. ~Wrong(s, q, r)
    BY <1>5 DEF Wrong
  <2> HIDE DEF r
  <2> QED BY <2>1, <2>2, <2>3 DEF HandleCounts
<1>6. CASE q.type = "PAM_FREE_CTX" /\ s.ctxt = "none"
  <2>1. r = Plain(Fatal(s, "no context"))
    BY <1>6 DEF Handle, mm_answer_pam_free_ctx
  <2> HIDE DEF r
  <2>2. r.m.failures = s.failures /\ r.m.given_up = s.given_up /\ r.m.ctxt = s.ctxt /\ r.m.authok = s.authok
        /\ r.m.told = s.told
    BY <2>1 DEF Plain, Fatal, Monitor_
  <2>3. ~Wrong(s, q, r)
    BY <1>6 DEF Wrong
  <2> QED BY <2>2, <2>3 DEF HandleCounts
<1>7. CASE q.type = "PAM_FREE_CTX" /\ s.ctxt # "none"
  <2> DEFINE n == s.given_up + (IF GivenUp(s) THEN 1 ELSE 0)
             t == [s EXCEPT !.ctxt = "none", !.authok = FALSE, !.given_up = n]
  <2>1. r = Result(Permit(Answer(t, "freed"), {"PAM_INIT_CTX"}), s.authok, Proof("kbdint", "pam", NoKey))
    BY <1>7 DEF Handle, mm_answer_pam_free_ctx
  <2>2. q.type \in MON_AUTHDECIDE
    BY <1>7 DEF MON_AUTHDECIDE
  <2>3. s.given_up \in Nat
    BY DEF Monitor_
  <2>4. n = (IF GivenUp(s) THEN s.given_up + 1 ELSE s.given_up)
    BY <2>3
  <2> HIDE DEF r, n
  <2>5. r.m.failures = s.failures /\ r.m.given_up = n /\ r.m.ctxt = "none" /\ r.m.authok = FALSE /\ r.m.phase = "preauth"
        /\ (~s.authok => r.proof = <<>>)
    BY <2>1 DEF Result, Permit, Answer, Monitor_
  <2>6. GivenUp(s) => ~s.authok /\ ~Wrong(s, q, r)
    BY <1>7 DEF GivenUp, Wrong
  <2>7. Wrong(s, q, r) => ~s.authok
    BY <1>7 DEF Wrong
  <2> QED BY <2>2, <2>4, <2>5, <2>6, <2>7 DEF HandleCounts
<1> QED BY <1>2, <1>3, <1>4, <1>5, <1>6, <1>7

\* How the end of a turn counts.
Counted(s, d) ==
    /\ d.given_up = s.given_up /\ d.ctxt = s.ctxt /\ d.authok = s.authok /\ d.told = s.told
    /\ d.failures \in {s.failures, s.failures + 1}
    /\ d.phase # "fatal" => d.failures <= cf.max_authtries

LEMMA DecideCount ==
    ASSUME cf \in Config, NEW s \in Monitor_, s.failures <= cf.max_authtries, NEW type, NEW a, NEW partial
    PROVE  /\ Counted(s, Decide(s, type, a, partial))
           /\ type \in MON_AUTHDECIDE /\ ~partial /\ ~a => Decide(s, type, a, partial).failures = s.failures + 1
<1> DEFINE s1 == IF type \in MON_AUTHDECIDE /\ ~partial /\ ~a THEN [s EXCEPT !.failures = s.failures + 1] ELSE s
           d == Decide(s, type, a, partial)
<1>1. s.failures \in Nat /\ cf.max_authtries \in Nat
  BY DEF Monitor_, Config
<1>2. /\ s1 \in Monitor_ /\ s1.given_up = s.given_up /\ s1.ctxt = s.ctxt /\ s1.authok = s.authok /\ s1.told = s.told
      /\ s1.failures = (IF type \in MON_AUTHDECIDE /\ ~partial /\ ~a THEN s.failures + 1 ELSE s.failures)
      /\ s1.failures \in Nat
  <2> DEFINE n == s.failures + 1
  <2>1. n \in Nat
    BY <1>1
  <2>2. s1 = IF type \in MON_AUTHDECIDE /\ ~partial /\ ~a THEN [s EXCEPT !.failures = n] ELSE s
    OBVIOUS
  <2> HIDE DEF n, s1
  <2>3. /\ s1 \in Monitor_ /\ s1.given_up = s.given_up /\ s1.ctxt = s.ctxt /\ s1.authok = s.authok /\ s1.told = s.told
        /\ s1.failures = (IF type \in MON_AUTHDECIDE /\ ~partial /\ ~a THEN n ELSE s.failures)
        /\ s1.failures \in Nat
    BY <1>1, <2>1, <2>2 DEF Monitor_
  <2> QED BY <2>3 DEF n
<1>3. \/ d = Fatal(s1, "too many authentication attempts")
      \/ ~(s1.failures > cf.max_authtries) /\ d = Fatal(s1, "authenticated invalid user")
      \/ ~(s1.failures > cf.max_authtries) /\ d = [s1 EXCEPT !.phase = "preauth"]
      \/ ~(s1.failures > cf.max_authtries) /\ d = [s1 EXCEPT !.phase = "export"]
  BY DEF Decide
<1> HIDE DEF s1, d
<1>4. /\ d.given_up = s1.given_up /\ d.ctxt = s1.ctxt /\ d.authok = s1.authok /\ d.told = s1.told /\ d.failures = s1.failures
      /\ d.phase = "fatal" \/ ~(s1.failures > cf.max_authtries)
  <2>1. CASE d = Fatal(s1, "too many authentication attempts")
    BY <1>2, <2>1 DEF Fatal, Monitor_
  <2>2. CASE ~(s1.failures > cf.max_authtries) /\ d = Fatal(s1, "authenticated invalid user")
    BY <1>2, <2>2 DEF Fatal, Monitor_
  <2>3. CASE ~(s1.failures > cf.max_authtries) /\ d = [s1 EXCEPT !.phase = "preauth"]
    BY <1>2, <2>3 DEF Monitor_
  <2>4. CASE ~(s1.failures > cf.max_authtries) /\ d = [s1 EXCEPT !.phase = "export"]
    BY <1>2, <2>4 DEF Monitor_
  <2> QED BY <1>3, <2>1, <2>2, <2>3, <2>4
<1>5. Counted(s, d) /\ (type \in MON_AUTHDECIDE /\ ~partial /\ ~a => d.failures = s.failures + 1)
  BY <1>1, <1>2, <1>4 DEF Counted
<1> QED BY <1>5 DEF d

LEMMA JudgeCount ==
    ASSUME cf \in Config, NEW s \in Monitor_, s.failures <= cf.max_authtries, NEW type \in ReqType, NEW proof
    PROVE  /\ Counted(s, Judge(s, type, proof))
           /\ type \in MON_AUTHDECIDE /\ proof = <<>> => Judge(s, type, proof).failures = s.failures + 1
<1> DEFINE u == auth2_update_methods_lists(s.lists, proof[1].method, proof[1].sub)
           s1 == IF Configured THEN [s EXCEPT !.lists = u.lists] ELSE s
           partial == Configured /\ ~u.complete
           ok == ~partial /\ (cf.root => auth_root_allowed(s, proof[1].method))
           d == Judge(s, type, proof)
<1>1. \/ proof = <<>> /\ d = Decide(s, type, FALSE, FALSE)
      \/ proof # <<>> /\ \E why : d = Fatal(s, why)
      \/ proof # <<>> /\ d = [s1 EXCEPT !.phase = "account", !.pending = type]
      \/ proof # <<>> /\ d = Decide(s1, type, ok, partial)
  BY DEF Judge
<1>2. u.lists \in Lists
  <2>1. s.lists \in Lists
    BY DEF Monitor_
  <2> QED BY <2>1, UpdateLists
<1>3. s.failures \in Nat /\ cf.max_authtries \in Nat
  BY DEF Monitor_, Config
<1> HIDE DEF u, ok, partial, d
<1>4. /\ s1 \in Monitor_ /\ s1.given_up = s.given_up /\ s1.ctxt = s.ctxt /\ s1.authok = s.authok /\ s1.told = s.told
      /\ s1.failures = s.failures
  BY <1>2 DEF Monitor_
<1> HIDE DEF s1
<1>5. CASE proof = <<>> /\ d = Decide(s, type, FALSE, FALSE)
  <2>1. Counted(s, d) /\ (type \in MON_AUTHDECIDE => d.failures = s.failures + 1)
    BY <1>5, DecideCount
  <2> QED BY <1>5, <2>1 DEF d
<1>6. CASE proof # <<>> /\ \E why : d = Fatal(s, why)
  <2>1. Counted(s, d)
    BY <1>6 DEF Fatal, Monitor_, Counted
  <2> QED BY <1>6, <2>1 DEF d
<1>7. CASE proof # <<>> /\ d = [s1 EXCEPT !.phase = "account", !.pending = type]
  <2>1. Counted(s, d)
    BY <1>4, <1>7 DEF Monitor_, Counted
  <2> QED BY <1>7, <2>1 DEF d
<1>8. CASE proof # <<>> /\ d = Decide(s1, type, ok, partial)
  <2>1. Counted(s1, d)
    BY <1>4, <1>8, DecideCount
  <2>2. Counted(s, d)
    BY <1>4, <2>1 DEF Counted
  <2> QED BY <1>8, <2>2 DEF d
<1> QED BY <1>1, <1>5, <1>6, <1>7, <1>8

\* The count is kept by a request that is read.
LEMMA ReadCount == ASSUME IInv, GrantInv, CountInv, NEW word \in PamWord, MonitorRead(word) PROVE GrantInv' /\ CountInv'
<1> DEFINE q == Head(c.out)
           r == Handle(m, q, word)
           perm == IF q.type \in MON_ONCE THEN r.m.permit \ {q.type} ELSE r.m.permit
           s == [r.m EXCEPT !.permit = perm]
<1>1. /\ m.phase = "preauth" /\ c.out # <<>> /\ c' = [c EXCEPT !.out = Tail(@)] /\ cf' = cf
      /\ cf \in Config /\ m \in Monitor_ /\ guesses \in Nat /\ cf.max_authtries \in Nat
      /\ m.failures \in Nat /\ m.given_up \in Nat
  BY DEF MonitorRead, IInv, TypeInv, Config, Monitor_
<1>2. q \in Request
  BY <1>1, PopFacts DEF Alive, PopOK
<1>3. CASE Unpermitted(m, q)
  <2>1. m' = Fatal(m, "unpermitted request") /\ guesses' = guesses
    BY <1>3 DEF MonitorRead
  <2>2. /\ m'.failures = m.failures /\ m'.given_up = m.given_up /\ m'.phase = "fatal"
        /\ m'.ctxt = m.ctxt /\ m'.authok = m.authok /\ m'.told = m.told
    BY <1>1, <2>1 DEF Fatal, Monitor_
  <2> QED BY <1>1, <2>1, <2>2 DEF CountInv, GrantInv
<1>4. CASE ~Unpermitted(m, q)
  <2>1. /\ m' = IF s.phase = "fatal" THEN s ELSE Judge(s, q.type, r.proof)
        /\ guesses' = IF Wrong(m, q, r) THEN guesses + 1 ELSE guesses
    BY <1>4 DEF MonitorRead
  <2>2. q.type \in m.permit /\ q.type \in ReqType
    BY <1>1, <1>4 DEF Unpermitted, Monitor_
  <2>3. HandleOK(m, q, r) /\ HandleCounts(m, q, r)
    BY <1>1, <1>2, <2>2, HandleFacts, HandleCount DEF GrantInv
  <2> HIDE DEF q, r
  <2>4. r.m \in Monitor_
    BY <2>3 DEF HandleOK, HandleLists
  <2>5. perm \in SUBSET (ReqType \ {"KEYEXPORT"})
    BY <2>4 DEF Monitor_
  <2>6. /\ s \in Monitor_ /\ s.phase = r.m.phase /\ s.failures = m.failures /\ s.given_up = r.m.given_up
        /\ s.ctxt = r.m.ctxt /\ s.authok = r.m.authok /\ s.told = r.m.told
    <3> HIDE DEF perm
    <3> QED BY <2>3, <2>4, <2>5 DEF Monitor_, HandleCounts
  <2> HIDE DEF s
  <2>7. CASE s.phase = "fatal"
    <3>1. m' = s /\ guesses' = guesses /\ s.given_up = m.given_up
      BY <2>1, <2>3, <2>6, <2>7 DEF HandleCounts
    <3> QED BY <1>1, <2>3, <2>6, <2>7, <3>1 DEF CountInv, GrantInv, HandleCounts
  <2>8. CASE s.phase # "fatal"
    <3>1. Counted(s, m') /\ (q.type \in MON_AUTHDECIDE /\ r.proof = <<>> => m'.failures = m.failures + 1)
      BY <1>1, <2>1, <2>2, <2>6, <2>8, JudgeCount DEF CountInv
    <3>2. GrantInv'
      BY <2>3, <2>6, <3>1 DEF GrantInv, Counted, HandleCounts
    <3>3. guesses' + m'.given_up <= m'.failures
      <4>1. guesses + m.given_up <= m.failures
        BY DEF CountInv
      <4>2. CASE Wrong(m, q, r)
        <5>1. guesses' = guesses + 1 /\ m'.given_up = m.given_up /\ m'.failures = m.failures + 1
          BY <2>1, <2>3, <2>6, <3>1, <4>2 DEF HandleCounts, Counted
        <5> QED BY <1>1, <4>1, <5>1
      <4>3. CASE ~Wrong(m, q, r) /\ s.given_up = m.given_up
        <5>1. guesses' = guesses /\ m'.given_up = m.given_up /\ m'.failures \in {m.failures, m.failures + 1}
          BY <2>1, <2>6, <3>1, <4>3 DEF Counted
        <5> QED BY <1>1, <4>1, <5>1
      <4>4. CASE ~Wrong(m, q, r) /\ s.given_up # m.given_up
        <5>1. guesses' = guesses /\ m'.given_up = m.given_up + 1 /\ m'.failures = m.failures + 1
          BY <2>1, <2>3, <2>6, <3>1, <4>4 DEF HandleCounts, Counted
        <5> QED BY <1>1, <4>1, <5>1
      <4> QED BY <4>2, <4>3, <4>4
    <3>4. m'.failures <= cf.max_authtries + 1 /\ (m'.phase # "fatal" => m'.failures <= cf.max_authtries)
      BY <1>1, <2>6, <3>1 DEF CountInv, Counted
    <3> QED BY <1>1, <3>2, <3>3, <3>4 DEF CountInv
  <2> QED BY <2>7, <2>8
<1> QED BY <1>3, <1>4

\* The count is kept by every step.
LEMMA CountKept == IInv /\ GrantInv /\ CountInv /\ [Next]_vars => GrantInv' /\ CountInv'
<1> SUFFICES ASSUME IInv, GrantInv, CountInv, [Next]_vars PROVE GrantInv' /\ CountInv'
  OBVIOUS
<1>1. /\ cf \in Config /\ m \in Monitor_ /\ guesses \in Nat /\ cf.max_authtries \in Nat /\ m.failures \in Nat
      /\ m.given_up \in Nat
  BY DEF IInv, TypeInv, Config, Monitor_
<1>2. ASSUME cf' = cf, guesses' = guesses, m'.failures = m.failures, m'.given_up = m.given_up, m'.ctxt = m.ctxt,
             m'.authok = m.authok, m'.told = m.told, m'.phase = "fatal" \/ m.phase # "fatal"
      PROVE  GrantInv' /\ CountInv'
  BY <1>2 DEF GrantInv, CountInv
<1>3. CASE ClientRequest \/ ClientResponse \/ ClientClose
  <2>1. m' = m /\ cf' = cf /\ guesses' = guesses
    BY <1>3 DEF ClientRequest, ClientResponse, ClientClose
  <2> QED BY <2>1 DEF GrantInv, CountInv
<1>4. CASE ChildResume
  <2>1. m' = [m EXCEPT !.out = Tail(m.out)] /\ cf' = cf /\ guesses' = guesses
    BY <1>4 DEF ChildResume
  <2>2. /\ m'.failures = m.failures /\ m'.given_up = m.given_up /\ m'.ctxt = m.ctxt
        /\ m'.authok = m.authok /\ m'.told = m.told /\ m'.phase = m.phase
    BY <1>1, <2>1 DEF Monitor_
  <2> QED BY <1>2, <2>1, <2>2
<1>5. CASE ChildEOF \/ UNCHANGED vars
  <2>1. m' = m /\ cf' = cf /\ guesses' = guesses
    BY <1>5 DEF ChildEOF, vars
  <2> QED BY <2>1 DEF GrantInv, CountInv
<1>6. ASSUME NEW word \in PamWord, MonitorRead(word) PROVE GrantInv' /\ CountInv'
  BY <1>6, ReadCount
<1>7. CASE MonitorAccount
  <2>1. /\ cf' = cf /\ guesses' = guesses /\ m.phase = "account"
        /\ \/ m' = Decide(mm_answer_pam_account(m), m.pending, cf.pam_account, FALSE)
           \/ m' = Fatal(m, "read unexpected type")
    BY <1>7 DEF MonitorAccount
  <2>2. CASE m' = Fatal(m, "read unexpected type")
    <3>1. /\ m'.failures = m.failures /\ m'.given_up = m.given_up /\ m'.ctxt = m.ctxt
          /\ m'.authok = m.authok /\ m'.told = m.told /\ m'.phase = "fatal"
      BY <1>1, <2>2 DEF Fatal, Monitor_
    <3> QED BY <1>2, <2>1, <3>1
  <2>3. CASE m' = Decide(mm_answer_pam_account(m), m.pending, cf.pam_account, FALSE)
    <3> DEFINE s == mm_answer_pam_account(m)
               a == Said(cf.pam_account)
               o == Append(m.out, a)
    <3>1. a \in Reply /\ s = [m EXCEPT !.out = o]
      BY DEF mm_answer_pam_account, Answer, Said, Reply
    <3>2. o \in Seq(Reply)
      BY <1>1, <3>1, AnswerSeq
    <3> HIDE DEF s, o
    <3>3. /\ s \in Monitor_ /\ s.failures = m.failures /\ s.given_up = m.given_up /\ s.ctxt = m.ctxt
          /\ s.authok = m.authok /\ s.told = m.told
      BY <1>1, <3>1, <3>2 DEF Monitor_
    <3>4. m.failures <= cf.max_authtries
      BY <2>1 DEF CountInv
    <3>5. Counted(s, m')
      BY <1>1, <2>3, <3>3, <3>4, DecideCount DEF s
    <3>6. m'.failures \in {m.failures, m.failures + 1} /\ m'.given_up = m.given_up
          /\ (m'.phase # "fatal" => m'.failures <= cf.max_authtries)
      BY <3>3, <3>5 DEF Counted
    <3>7. GrantInv'
      BY <3>3, <3>5 DEF Counted, GrantInv
    <3>8. guesses + m.given_up <= m.failures
      BY DEF CountInv
    <3>9. guesses' + m'.given_up <= m'.failures /\ m'.failures <= cf'.max_authtries + 1
      <4>1. cf'.max_authtries = cf.max_authtries /\ guesses' = guesses
        BY <2>1
      <4>2. CASE m'.failures = m.failures
        BY <1>1, <3>4, <3>6, <3>8, <4>1, <4>2
      <4>3. CASE m'.failures = m.failures + 1
        BY <1>1, <3>4, <3>6, <3>8, <4>1, <4>3
      <4> QED BY <3>6, <4>2, <4>3
    <3> QED BY <2>1, <3>6, <3>7, <3>9 DEF CountInv
  <2> QED BY <2>1, <2>2, <2>3
<1>8. CASE mm_get_keystate \/ MonitorEOF
  <2>1. /\ cf' = cf /\ guesses' = guesses /\ m.phase # "fatal"
        /\ \/ \E v : m' = [m EXCEPT !.phase = v]
           \/ m' = Fatal(m, "read unexpected type")
    BY <1>8 DEF mm_get_keystate, MonitorEOF, Alive
  <2>2. /\ m'.failures = m.failures /\ m'.given_up = m.given_up /\ m'.ctxt = m.ctxt
        /\ m'.authok = m.authok /\ m'.told = m.told
    BY <1>1, <2>1 DEF Fatal, Monitor_
  <2> QED BY <1>2, <2>1, <2>2
<1> QED BY <1>3, <1>4, <1>5, <1>6, <1>7, <1>8 DEF Next, Child, Monitor

LEMMA CountInvariant == Spec => [](GrantInv /\ CountInv)
<1>1. Init => GrantInv /\ CountInv
  <2> SUFFICES ASSUME Init PROVE GrantInv /\ CountInv
    OBVIOUS
  <2>1. cf.max_authtries \in Nat
    BY AuthAssumption DEF Init, Config
  <2>2. m.ctxt = "none" /\ m.authok = FALSE /\ m.failures = 0 /\ m.given_up = 0 /\ guesses = 0
    BY DEF Init
  <2> QED BY <2>1, <2>2 DEF GrantInv, CountInv
<1> QED BY <1>1, CountKept, Invariant, PTL DEF Spec

\* MaxAuthTries bounds the wrong passwords and signatures, and the PAM
\* conversations that fail on one, whatever the client mixes; with those it
\* leaves before PAM has decided, one more.
THEOREM GuessesAreBounded == Spec => []GuessesBounded
<1>1. IInv => guesses <= cf.max_authtries + (IF cf.permit_empty_passwd THEN 1 ELSE 0)
  BY DEF IInv, GuessInv, Extra
<1>2. IInv /\ CountInv => guesses + m.given_up <= cf.max_authtries + 1
  <2> SUFFICES ASSUME IInv, CountInv PROVE guesses + m.given_up <= cf.max_authtries + 1
    OBVIOUS
  <2>1. guesses \in Nat /\ m.given_up \in Nat /\ m.failures \in Nat /\ cf.max_authtries \in Nat
    BY DEF IInv, TypeInv, Monitor_, Config
  <2> QED BY <2>1 DEF CountInv
<1>3. IInv /\ CountInv => GuessesBounded
  BY <1>1, <1>2 DEF GuessesBounded
<1> QED BY <1>3, CountInvariant, Invariant, PTL

----------------------------------------------------------------------------
(* Straightforward users: where the two processes are, seen together. *)

\* Neither has counted, recorded or removed anything the other has not; n
\* failures are still to be counted by sshd-auth.
Level(n) == /\ c.lists = m.lists /\ c.prev_keys = m.prev_keys /\ m.failures <= c.failures + n
            /\ c.valid = cf.valid /\ m.valid = cf.valid /\ m.phase = "preauth"

\* The monitor has accepted the request that sshd-auth waits for.
Removed == auth2_update_methods_lists(c.lists, c.packet.method, "")
Accepted(keys) ==
    /\ m.prev_keys = c.prev_keys \cup keys /\ m.failures <= c.failures
    /\ cf.valid /\ c.valid /\ m.valid
    /\ m.lists = (IF Configured THEN Removed.lists ELSE c.lists)
    /\ m.phase = IF Configured /\ ~Removed.complete THEN "preauth" ELSE "export"

Candidate(methods) == /\ c.packet.method \in methods /\ Enabled(c.packet.method)
                      /\ auth2_method_allowed(c.lists, c.packet.method, "")

PasswordReq == [Req("AUTHPASSWORD") EXCEPT !.arg = c.packet.pw]
VerifyReq == [PubkeyReq(c.packet) EXCEPT !.type = "KEYVERIFY", !.arg = c.packet.sig]
Blob == [kind |-> c.packet.method, key |-> c.packet.key]

AsksFor(q) == c.out = <<q>> /\ m.out = <<>>
Told(a) == c.out = <<>> /\ m.out = <<a>>

\* Nobody has been named yet: what the monitor lets pass.
Nameless == /\ c.attempt = 0 /\ c.prev_keys = {} /\ m.prev_keys = {} /\ m.failures = 0
            /\ m.phase = "preauth" /\ m.attempt = 0
Named == m.compat_set /\ "PWNAM" \in m.permit
SetUp == /\ c.prev_keys = {} /\ m.prev_keys = {} /\ m.failures = 0 /\ m.phase = "preauth" /\ m.valid = cf.valid
         /\ m.lists = auth2_setup_methods_lists
AuthPermitted == {"AUTHPASSWORD", "KEYALLOWED", "KEYVERIFY"} \subseteq m.permit

AtState ==
    /\ Nameless /\ {"SETCOMPAT", "SIGN"} \subseteq m.permit
    /\ (AsksFor(Req("STATE")) /\ "STATE" \in m.permit) \/ Told("state")
AtSign ==
    /\ Nameless
    /\ \/ c.out = <<Req("SETCOMPAT"), Req("SIGN")>> /\ m.out = <<>> /\ {"SETCOMPAT", "SIGN"} \subseteq m.permit
       \/ AsksFor(Req("SIGN")) /\ m.compat_set /\ "SIGN" \in m.permit
       \/ Told("signature") /\ Named
AtIdle ==
    /\ c.out = <<>> /\ m.out = <<>>
    /\ IF c.attempt = 0 THEN Nameless /\ Named ELSE Level(0) /\ AuthPermitted
AtPwnam ==
    /\ c.attempt > 0
    /\ \/ AsksFor(Req("PWNAM")) /\ Named /\ c.prev_keys = {} /\ m.prev_keys = {} /\ m.failures = 0
          /\ m.phase = "preauth" /\ m.attempt = 0
       \/ Told(Said(cf.valid)) /\ SetUp /\ {"AUTHSERV", "READ_BANNER"} \subseteq m.permit
AtBanner ==
    /\ c.attempt > 0 /\ SetUp /\ c.valid = cf.valid
    /\ \/ /\ c.out = <<Req("AUTHSERV"), Req("READ_BANNER")>> /\ m.out = <<>>
          /\ {"AUTHSERV", "READ_BANNER"} \subseteq m.permit
       \/ AsksFor(Req("READ_BANNER")) /\ "READ_BANNER" \in m.permit /\ AuthPermitted
       \/ Told("banner") /\ AuthPermitted
AtPassword ==
    /\ c.attempt > 0 /\ Candidate({"password"}) /\ AuthPermitted
    /\ \/ AsksFor(PasswordReq) /\ Level(0)
       \/ Told("no") /\ Level(1)
       \/ Told("yes") /\ Accepted({})
AtAllowed ==
    /\ c.attempt > 0 /\ Candidate({"publickey", "hostbased"}) /\ AuthPermitted /\ Level(0)
    /\ \/ AsksFor(PubkeyReq(c.packet))
       \/ Told("no")
       \/ Told("yes") /\ m.key_blob = Blob /\ cf.valid
AtVerify ==
    /\ c.attempt > 0 /\ Candidate({"publickey", "hostbased"}) /\ AuthPermitted
    /\ \/ AsksFor(VerifyReq) /\ m.key_blob = Blob /\ Level(0) /\ cf.valid
       \/ Told("no") /\ Level(1)
       \/ Told("yes") /\ Accepted({c.packet.key})
AtDone ==
    /\ m.out = <<>>
    /\ \/ c.out = <<Req("KEYEXPORT")>> /\ m.phase = "export"
       \/ c.out = <<>> /\ m.phase = "post"
AtGone == c.out = <<>>

AgreeInv ==
    Straightforward =>
        /\ m.phase # "fatal" /\ c.why = "" /\ ~c.kbd /\ c.force_command = "" /\ m.force_command = ""
        /\ \A i \in DOMAIN c.lists : \A j \in 1..Len(c.lists[i]) : c.lists[i][j].sub = ""
        /\ \/ c.pc = "state" /\ AtState
           \/ c.pc = "sign" /\ AtSign
           \/ c.pc = "idle" /\ AtIdle
           \/ c.pc = "pwnam" /\ AtPwnam
           \/ c.pc = "banner" /\ AtBanner
           \/ c.pc = "password" /\ AtPassword
           \/ c.pc = "allowed" /\ AtAllowed
           \/ c.pc = "verify" /\ AtVerify
           \/ c.pc = "done" /\ AtDone
           \/ c.pc = "gone" /\ AtGone

NoSubs(l) == \A i \in DOMAIN l : \A j \in 1..Len(l[i]) : l[i][j].sub = ""
Calm(r) == /\ r \in Child_ /\ r.out = <<>> /\ r.why = "" /\ ~r.kbd /\ r.force_command = ""
           /\ NoSubs(r.lists)
Same(r, d) == /\ d.prev_keys = r.prev_keys /\ d.valid = r.valid /\ d.attempt = r.attempt /\ d.why = "" /\ ~d.kbd
              /\ d.force_command = "" /\ d.packet = r.packet

\* Without submethods a method that is allowed heads a list, and what is left
\* of the lists has no submethods either.
LEMMA MethodFound ==
    ASSUME NEW l \in Lists, NoSubs(l), NEW method
    PROVE  /\ Configured /\ auth2_method_allowed(l, method, "") => auth2_update_methods_lists(l, method, "").found
           /\ NoSubs(auth2_update_methods_lists(l, method, "").lists)
<1> DEFINE u == auth2_update_methods_lists(l, method, "")
<1>1. PICK D \in SUBSET Nat : l \in [D -> Seq(Entry)]
  BY DEF Lists
<1>2. ASSUME Configured, auth2_method_allowed(l, method, "") PROVE u.found
  <2>1. PICK i \in DOMAIN l : list_starts_with(l[i], method, "") # "MATCH_NONE"
    BY <1>2 DEF auth2_method_allowed
  <2>2. l[i] # <<>> /\ Head(l[i]).method = method
    BY <2>1 DEF list_starts_with
  <2>3. l[i] \in Seq(Entry) /\ Len(l[i]) \in Nat \ {0} /\ Head(l[i]) = l[i][1]
    BY <1>1, <2>2, EmptySeq
  <2>4. Head(l[i]).sub = ""
    <3>1. 1 \in 1..Len(l[i])
      BY <2>3
    <3>2. l[i][1].sub = ""
      BY <3>1 DEF NoSubs
    <3> QED BY <2>3, <3>2
  <2>5. Removable(l[i], method, "")
    BY <2>2, <2>4 DEF Removable, list_starts_with
  <2> QED BY <2>5 DEF auth2_update_methods_lists
<1>3. DOMAIN u.lists = DOMAIN l
  BY UpdateLists
<1>4. ASSUME NEW i \in DOMAIN l, NEW j \in 1..Len(u.lists[i]) PROVE u.lists[i][j].sub = ""
  <2>1. u.lists[i] = l[i] \/ (Removable(l[i], method, "") /\ u.lists[i] = Tail(l[i]))
    BY DEF auth2_update_methods_lists
  <2> HIDE DEF u
  <2>2. CASE u.lists[i] = l[i]
    BY <2>2 DEF NoSubs
  <2>3. CASE Removable(l[i], method, "") /\ u.lists[i] = Tail(l[i])
    <3>1. l[i] \in Seq(Entry) /\ l[i] # <<>>
      BY <1>1, <2>3 DEF Removable, list_starts_with
    <3>2. Len(Tail(l[i])) = Len(l[i]) - 1 /\ Len(l[i]) \in Nat
          /\ \A k \in 1..Len(Tail(l[i])) : Tail(l[i])[k] = l[i][k + 1]
      BY ONLY <3>1, HeadTailProperties
    <3>3. j \in 1..Len(Tail(l[i]))
      BY <2>3
    <3>4. j + 1 \in 1..Len(l[i]) /\ Tail(l[i])[j] = l[i][j + 1]
      BY ONLY <3>2, <3>3
    <3> QED BY <2>3, <3>4 DEF NoSubs
  <2> QED BY <2>1, <2>2, <2>3
<1> HIDE DEF u
<1>5. NoSubs(u.lists)
  BY <1>3, <1>4 DEF NoSubs
<1> QED BY <1>2, <1>5 DEF u

\* A request that was refused.
LEMMA FinishNo ==
    ASSUME cf \in Config, Straightforward, NEW r, Calm(r), NEW method
    PROVE  LET d == userauth_finish(r, FALSE, method, "")
           IN  /\ Same(r, d) /\ d.out = <<>> /\ d.lists = r.lists /\ d.pc \in {"idle", "gone"}
               /\ r.failures <= d.failures
               /\ ~r.postponed /\ method # "none" => d.failures = r.failures + 1
<1> DEFINE n == r.failures + (IF CountsFailure(r, method, FALSE) THEN 1 ELSE 0)
           d == userauth_finish(r, FALSE, method, "")
<1>1. r \in Child_ /\ r.failures \in Nat /\ r.attempt \in Nat /\ r.postponed \in BOOLEAN
  BY DEF Calm, Child_
<1>2. n \in Nat /\ r.failures <= n /\ (method # "none" => n = r.failures + 1)
  BY <1>1 DEF CountsFailure
<1>3. \/ r.postponed /\ d = [r EXCEPT !.pc = "idle"]
      \/ d = Gone([r EXCEPT !.failures = n])
      \/ d = [r EXCEPT !.failures = n, !.pc = "idle"]
  BY DEF userauth_finish
<1> HIDE DEF n, d
<1>4. /\ Same(r, d) /\ d.out = <<>> /\ d.lists = r.lists /\ d.pc \in {"idle", "gone"}
      /\ d.failures = r.failures \/ d.failures = n
      /\ ~r.postponed => d.failures = n
  BY <1>1, <1>3 DEF Calm, Child_, Same, Gone
<1>5. r.failures <= d.failures /\ (~r.postponed /\ method # "none" => d.failures = r.failures + 1)
  BY <1>1, <1>2, <1>4
<1> QED BY <1>4, <1>5 DEF d

\* A request that was granted.
LEMMA FinishYes ==
    ASSUME cf \in Config, Straightforward, NEW r, Calm(r), r.valid, ~r.postponed, NEW method,
           auth2_method_allowed(r.lists, method, "")
    PROVE  LET d == userauth_finish(r, TRUE, method, "")
               u == auth2_update_methods_lists(r.lists, method, "")
           IN  /\ Same(r, d) /\ NoSubs(d.lists) /\ d.failures = r.failures
               /\ d.lists = IF Configured THEN u.lists ELSE r.lists
               /\ IF Configured /\ ~u.complete THEN d.out = <<>> /\ d.pc \in {"idle", "gone"}
                  ELSE d.out = <<Req("KEYEXPORT")>> /\ d.pc = "done"
<1> DEFINE u == auth2_update_methods_lists(r.lists, method, "")
           d == userauth_finish(r, TRUE, method, "")
           r1 == IF Configured THEN [r EXCEPT !.lists = u.lists] ELSE r
<1>1. r \in Child_ /\ r.failures \in Nat /\ r.lists \in Lists /\ r.out = <<>>
  BY DEF Calm, Child_
<1>2. (Configured => u.found) /\ NoSubs(u.lists) /\ u.lists \in Lists
  BY <1>1, MethodFound, UpdateLists DEF Calm
<1>3. ~RootCheckCrashes(r) /\ ~cf.root /\ ~cf.pam
  BY DEF RootCheckCrashes, Straightforward
<1>4. IF Configured /\ ~u.complete
      THEN d = Gone([r1 EXCEPT !.failures = r1.failures + 0]) \/ d = [r1 EXCEPT !.failures = r1.failures + 0, !.pc = "idle"]
      ELSE d = userauth_success(r1)
  BY <1>2, <1>3 DEF userauth_finish, CountsFailure
<1> HIDE DEF u
<1>5. /\ r1 \in Child_ /\ Same(r, r1) /\ r1.failures = r.failures /\ r1.out = <<>> /\ NoSubs(r1.lists)
      /\ r1.lists = IF Configured THEN u.lists ELSE r.lists
  BY <1>1, <1>2 DEF Child_, Same, Calm
<1> HIDE DEF r1, d
<1>6. r1.failures + 0 = r1.failures
  <2>1. r1.failures \in Nat
    BY <1>1, <1>5
  <2> QED BY ONLY <2>1
<1>7. CASE Configured /\ ~u.complete
  <2>1. /\ Same(r, d) /\ d.out = <<>> /\ d.lists = r1.lists /\ d.pc \in {"idle", "gone"} /\ d.failures = r.failures
    BY ZenonT(40), <1>4, <1>5, <1>6, <1>7 DEF Same, Gone, Child_
  <2> QED BY <1>5, <1>7, <2>1 DEF d, u
<1>8. CASE ~(Configured /\ ~u.complete)
  <2>1. d = [Ask(r1, "done", <<Req("KEYEXPORT")>>) EXCEPT !.success = TRUE]
    BY <1>4, <1>8 DEF userauth_success
  <2>2. r1.out \o <<Req("KEYEXPORT")>> = <<Req("KEYEXPORT")>>
    <3>0. "KEYEXPORT" \in ReqType
      BY DEF ReqType
    <3>1. Req("KEYEXPORT") \in Request
      BY <3>0, ReqType_
    <3>2. <<Req("KEYEXPORT")>> \in Seq(Request)
      BY ONLY <3>1
    <3> QED BY <1>5, <3>2, ConcatEmptySeq
  <2>3. d = [[r1 EXCEPT !.pc = "done", !.out = <<Req("KEYEXPORT")>>] EXCEPT !.success = TRUE]
    BY <2>1, <2>2, <1>5 DEF Ask, Child_
  <2>4. /\ Same(r, d) /\ d.out = <<Req("KEYEXPORT")>> /\ d.lists = r1.lists /\ d.pc = "done" /\ d.failures = r.failures
    BY <1>5, <2>3 DEF Same, Child_
  <2> QED BY <1>5, <1>8, <2>4 DEF d, u
<1> QED BY <1>7, <1>8

\* One question.
LEMMA AskOne ==
    ASSUME NEW r, Calm(r), NEW pc \in Pc, NEW q \in Request
    PROVE  LET d == Ask(r, pc, <<q>>)
           IN  /\ Same(r, d) /\ d.out = <<q>> /\ d.lists = r.lists /\ d.pc = pc /\ d.failures = r.failures
               /\ d.postponed = r.postponed
<1> DEFINE d == Ask(r, pc, <<q>>)
<1>0. <<q>> \in Seq(Request)
  OBVIOUS
<1>1. <<q>> \in Seq(Request) /\ r \in Child_ /\ r.out = <<>>
  BY <1>0 DEF Calm
<1>2. r.out \o <<q>> = <<q>>
  BY <1>1, ConcatEmptySeq
<1>3. d = [r EXCEPT !.pc = pc, !.out = <<q>>]
  BY <1>1, <1>2 DEF Ask, Child_
<1> HIDE DEF d
<1>4. /\ Same(r, d) /\ d.out = <<q>> /\ d.lists = r.lists /\ d.pc = pc /\ d.failures = r.failures
      /\ d.postponed = r.postponed
  BY <1>1, <1>3 DEF Same, Calm, Child_
<1> QED BY <1>4 DEF d

\* What Try makes of a packet: it is refused, or the monitor is asked.
Tried(r, d) ==
    /\ Same(r, d) /\ d.lists = r.lists
    /\ \/ d.pc \in {"idle", "gone"} /\ d.out = <<>> /\ r.failures <= d.failures
       \/ /\ d.pc = "password" /\ d.out = <<[Req("AUTHPASSWORD") EXCEPT !.arg = r.packet.pw]>>
          /\ r.packet.method = "password" /\ Enabled(r.packet.method)
          /\ auth2_method_allowed(r.lists, r.packet.method, "") /\ d.failures = r.failures
       \/ /\ d.pc = "allowed" /\ d.out = <<PubkeyReq(r.packet)>>
          /\ r.packet.method \in {"publickey", "hostbased"} /\ Enabled(r.packet.method)
          /\ auth2_method_allowed(r.lists, r.packet.method, "") /\ d.failures = r.failures

LEMMA TryTried ==
    ASSUME cf \in Config, Straightforward, NEW r0, Calm(r0)
    PROVE  Tried(r0, Try(r0))
<1> DEFINE r == [r0 EXCEPT !.postponed = FALSE]
           method == r0.packet.method
           refused == Refused(r)
<1>1. /\ Calm(r) /\ Same(r0, r) /\ r.lists = r0.lists /\ r.packet = r0.packet /\ r.failures = r0.failures
      /\ ~r.postponed
  BY DEF Calm, Child_, Same
<1>2. Try(r0) = IF ~authmethod_lookup(r, method) \/ r.failures >= cf.max_authtries THEN Refused(r)
                ELSE CASE method = "none"      -> userauth_none(r)
                       [] method = "password"  -> userauth_passwd(r)
                       [] method = "publickey" -> userauth_pubkey(r)
                       [] method = "hostbased" -> userauth_hostbased(r)
                       [] method = "kbdint"    -> userauth_kbdint(r)
  BY DEF Try
<1> HIDE DEF r
<1>3. r0.packet \in PacketRec /\ method \in Method /\ r0.packet.pw \in Secret /\ r0.failures \in Nat
  BY DEF Calm, Child_, PacketRec
<1>4. ASSUME NEW p, Calm(p), Same(r0, p), p.lists = r0.lists, p.failures = r0.failures
      PROVE  Tried(r0, Refused(p))
  <2> DEFINE d == userauth_finish(p, FALSE, p.packet.method, "")
  <2>1. /\ Same(p, d) /\ d.out = <<>> /\ d.lists = p.lists /\ d.pc \in {"idle", "gone"} /\ p.failures <= d.failures
    BY <1>4, FinishNo
  <2> HIDE DEF d
  <2>2. Tried(r0, d)
    BY <1>4, <2>1 DEF Tried, Same
  <2> QED BY <2>2 DEF Refused, d
<1>5. Tried(r0, Refused(r))
  BY <1>1, <1>4
<1>6. CASE ~authmethod_lookup(r, method) \/ r.failures >= cf.max_authtries
  BY <1>2, <1>5, <1>6
<1>7. CASE ~(~authmethod_lookup(r, method) \/ r.failures >= cf.max_authtries)
  <2>1. method # "none" => Enabled(method) /\ auth2_method_allowed(r0.lists, method, "")
    BY <1>1, <1>7 DEF authmethod_lookup
  <2>2. CASE method = "none"
    <3> DEFINE r1 == [r EXCEPT !.none_enabled = FALSE]
    <3>1. Calm(r1) /\ Same(r0, r1) /\ r1.lists = r0.lists /\ r1.failures = r0.failures
      BY <1>1 DEF Calm, Child_, Same
    <3>2. Try(r0) = Refused(r1)
      BY <1>2, <1>7, <2>2 DEF userauth_none, Straightforward
    <3> HIDE DEF r1
    <3> QED BY <1>4, <3>1, <3>2
  <2>3. CASE method = "password"
    <3> DEFINE q == [Req("AUTHPASSWORD") EXCEPT !.arg = r0.packet.pw]
               d == Ask(r, "password", <<q>>)
    <3>1. q \in Request
      BY <1>3, Requests
    <3>2. Try(r0) = Refused(r) \/ Try(r0) = d
      BY <1>1, <1>2, <1>7, <2>3 DEF userauth_passwd
    <3>3. "password" \in Pc
      BY DEF Pc
    <3> HIDE DEF q
    <3>4. /\ Same(r, d) /\ d.out = <<q>> /\ d.lists = r.lists /\ d.pc = "password" /\ d.failures = r.failures
      BY <1>1, <3>1, <3>3, AskOne
    <3> HIDE DEF d
    <3>5. Tried(r0, d)
      BY <1>1, <2>1, <2>3, <3>4 DEF Tried, Same, q
    <3> QED BY <1>5, <3>2, <3>5
  <2>4. CASE method \in {"publickey", "hostbased"}
    <3> DEFINE q == PubkeyReq(r0.packet)
               d == Ask(r, "allowed", <<q>>)
    <3>1. q \in Request
      BY <1>3, Requests
    <3>2. Try(r0) = Refused(r) \/ Try(r0) = d
      BY <1>1, <1>2, <1>7, <2>4 DEF userauth_pubkey, userauth_hostbased
    <3>3. "allowed" \in Pc
      BY DEF Pc
    <3> HIDE DEF q
    <3>4. /\ Same(r, d) /\ d.out = <<q>> /\ d.lists = r.lists /\ d.pc = "allowed" /\ d.failures = r.failures
      BY <1>1, <3>1, <3>3, AskOne
    <3> HIDE DEF d
    <3>5. Tried(r0, d)
      BY <1>1, <2>1, <2>4, <3>4 DEF Tried, Same, q
    <3> QED BY <1>5, <3>2, <3>5
  <2>5. CASE method = "kbdint"
    <3>1. Try(r0) = Refused(r)
      BY <1>2, <1>7, <2>5 DEF userauth_kbdint, HasDevice, Straightforward
    <3> QED BY <1>5, <3>1
  <2> QED BY <1>3, <2>2, <2>3, <2>4, <2>5 DEF Method
<1> QED BY <1>6, <1>7

\* sshd-auth moves; the monitor's answer, if any, is gone.
Emptied ==
    /\ m'.out = <<>> /\ m'.phase = m.phase /\ m'.lists = m.lists /\ m'.prev_keys = m.prev_keys
    /\ m'.failures = m.failures /\ m'.valid = m.valid /\ m'.permit = m.permit /\ m'.key_blob = m.key_blob
    /\ m'.force_command = m.force_command /\ m'.attempt = m.attempt /\ m'.compat_set = m.compat_set
    /\ cf' = cf
Settled == c'.why = "" /\ ~c'.kbd /\ c'.force_command = "" /\ NoSubs(c'.lists)

\* The parts of the configuration do not change.
LEMMA ConfigKept ==
    ASSUME cf' = cf
    PROVE  /\ Straightforward' <=> Straightforward
           /\ Configured' <=> Configured
           /\ auth2_setup_methods_lists' = auth2_setup_methods_lists
           /\ \A method : Enabled(method)' <=> Enabled(method)
           /\ \A l, method, sub : auth2_method_allowed(l, method, sub)' <=> auth2_method_allowed(l, method, sub)
           /\ \A l, method, sub : auth2_update_methods_lists(l, method, sub)' = auth2_update_methods_lists(l, method, sub)
BY DEF Straightforward, Configured, auth2_setup_methods_lists, auth2_methods_valid, Enabled, auth2_method_allowed,
       auth2_update_methods_lists, list_starts_with, Removable

\* The invariant, from the place sshd-auth has come to.
LEMMA AgreeAt ==
    ASSUME Straightforward => /\ m'.phase # "fatal" /\ Settled /\ m'.force_command = ""
                              /\ \/ c'.pc = "state" /\ AtState'
                                 \/ c'.pc = "sign" /\ AtSign'
                                 \/ c'.pc = "idle" /\ AtIdle'
                                 \/ c'.pc = "pwnam" /\ AtPwnam'
                                 \/ c'.pc = "banner" /\ AtBanner'
                                 \/ c'.pc = "password" /\ AtPassword'
                                 \/ c'.pc = "allowed" /\ AtAllowed'
                                 \/ c'.pc = "verify" /\ AtVerify'
                                 \/ c'.pc = "done" /\ AtDone'
                                 \/ c'.pc = "gone" /\ AtGone',
           cf' = cf
    PROVE  AgreeInv'
<1>1. Straightforward' => Straightforward
  BY ConfigKept
<1> QED BY <1>1 DEF AgreeInv, Settled, NoSubs

\* A packet is tried while the two agree.
LEMMA TryAgrees ==
    ASSUME TypeInv', cf \in Config, Straightforward, NEW r, Calm(r), c' = Try(r), Emptied, r.attempt > 0,
           r.lists = m.lists, r.prev_keys = m.prev_keys, m.failures <= r.failures, m.failures \in Nat,
           r.valid = cf.valid, m.valid = cf.valid, m.phase = "preauth", m.force_command = "", AuthPermitted
    PROVE  AgreeInv'
<1>1. Tried(r, c')
  BY TryTried
<1>2. Settled /\ c'.lists = m'.lists /\ c'.prev_keys = m'.prev_keys /\ c'.valid = cf'.valid /\ m'.valid = cf'.valid
      /\ m'.phase = "preauth" /\ c'.attempt = r.attempt /\ c'.packet = r.packet /\ m'.failures = m.failures
      /\ m'.out = <<>> /\ m'.force_command = "" /\ cf' = cf
  BY <1>1 DEF Tried, Same, Settled, Emptied, Calm
<1>3. AuthPermitted'
  BY DEF AuthPermitted, Emptied
<1>4. r.failures \in Nat /\ c'.failures \in Nat /\ r.attempt \in Nat /\ c'.attempt > 0 /\ c'.attempt # 0
  <2>1. r.failures \in Nat /\ c'.failures \in Nat /\ r.attempt \in Nat
    BY DEF Calm, Child_, TypeInv
  <2>2. c'.attempt = r.attempt
    BY <1>2
  <2>3. c'.attempt > 0 /\ c'.attempt # 0
    BY ONLY r.attempt > 0, <2>1, <2>2
  <2> QED BY <2>1, <2>3
<1>5. m'.failures <= c'.failures + 0
  <2>1. r.failures <= c'.failures
    <3>1. r.failures <= c'.failures \/ c'.failures = r.failures
      BY <1>1 DEF Tried
    <3> QED BY ONLY <1>4, <3>1
  <2>2. m'.failures = m.failures
    BY <1>2
  <2> QED BY ONLY m.failures <= r.failures, m.failures \in Nat, <1>4, <2>1, <2>2
<1>6. Level(0)'
  BY <1>2, <1>5 DEF Level
<1>7. CASE c'.pc \in {"idle", "gone"} /\ c'.out = <<>>
  <2>1. AtIdle' /\ AtGone'
    BY <1>2, <1>3, <1>4, <1>6, <1>7 DEF AtIdle, AtGone
  <2> QED BY <1>2, <1>7, <2>1, AgreeAt
<1>8. CASE /\ c'.pc = "password" /\ c'.out = <<[Req("AUTHPASSWORD") EXCEPT !.arg = r.packet.pw]>>
           /\ r.packet.method = "password" /\ Enabled(r.packet.method)
           /\ auth2_method_allowed(r.lists, r.packet.method, "")
  <2>1. Candidate({"password"})'
    BY <1>1, <1>2, <1>8, ConfigKept DEF Candidate, Tried
  <2>2. AsksFor(PasswordReq)'
    BY <1>2, <1>8 DEF AsksFor, PasswordReq, Req
  <2>3. AtPassword'
    BY <1>3, <1>4, <1>6, <2>1, <2>2 DEF AtPassword
  <2> QED BY <1>2, <1>8, <2>3, AgreeAt
<1>9. CASE /\ c'.pc = "allowed" /\ c'.out = <<PubkeyReq(r.packet)>>
           /\ r.packet.method \in {"publickey", "hostbased"} /\ Enabled(r.packet.method)
           /\ auth2_method_allowed(r.lists, r.packet.method, "")
  <2>1. Candidate({"publickey", "hostbased"})'
    BY <1>1, <1>2, <1>9, ConfigKept DEF Candidate, Tried
  <2>2. AsksFor(PubkeyReq(c.packet))'
    BY <1>2, <1>9 DEF AsksFor, PubkeyReq
  <2>3. AtAllowed'
    BY <1>3, <1>4, <1>6, <2>1, <2>2 DEF AtAllowed
  <2> QED BY <1>2, <1>9, <2>3, AgreeAt
<1> QED BY <1>1, <1>7, <1>8, <1>9 DEF Tried

\* sshd-auth gives up.
LEMMA GoneAgrees ==
    ASSUME TypeInv, Straightforward, AgreeInv, c.out = <<>>, Emptied, NEW r \in Child_, c' = Gone(r),
           r.out = <<>>, r.why = "", ~r.kbd, r.force_command = "", NoSubs(r.lists)
    PROVE  AgreeInv'
<1>1. Settled /\ c'.pc = "gone" /\ c'.out = <<>>
  BY DEF Gone, Child_, Settled
<1>2. m'.phase # "fatal" /\ m'.force_command = "" /\ cf' = cf
  BY DEF Emptied, AgreeInv
<1>3. AtGone'
  BY <1>1 DEF AtGone
<1> QED BY <1>1, <1>2, <1>3, AgreeAt

\* What the client sends keeps the two in step.
LEMMA ClientAgrees ==
    ASSUME IInv, AgreeInv, Straightforward, TypeInv', ClientRequest \/ ClientResponse \/ ClientClose
    PROVE  AgreeInv'
<1>1. c.pc = "idle" /\ cf' = cf /\ m' = m /\ c.out = <<>> /\ m.out = <<>>
  BY IdleFacts DEF ClientRequest, ClientResponse, ClientClose
<1>2. /\ cf \in Config /\ c \in Child_ /\ m \in Monitor_ /\ TypeInv /\ m.failures \in Nat
      /\ c.attempt \in Nat /\ AttemptLimit \in Nat
  BY AuthAssumption DEF IInv, TypeInv, Child_, Monitor_
<1>3. Emptied
  BY <1>1 DEF Emptied
<1>4. Calm(c) /\ AtIdle /\ m.phase # "fatal" /\ m.force_command = ""
  BY <1>1, <1>2 DEF AgreeInv, Calm, NoSubs
<1>5. CASE c' = Gone(c)
  BY <1>1, <1>2, <1>3, <1>4, <1>5, GoneAgrees DEF Calm
<1>6. CASE ClientRequest
  <2>1. PICK pk \in Packet : c' = input_userauth_request(c, pk)
    BY <1>6 DEF ClientRequest
  <2> DEFINE r1 == [c EXCEPT !.attempt = @ + 1, !.packet = pk]
  <2>2. pk \in PacketRec /\ c.attempt + 1 \in Nat /\ c.attempt + 1 > 0
    BY <1>2, PacketFacts
  <2>3. /\ r1 \in Child_ /\ r1.out = <<>> /\ r1.why = "" /\ ~r1.kbd /\ r1.force_command = "" /\ NoSubs(r1.lists)
        /\ r1.attempt = c.attempt + 1 /\ r1.lists = c.lists /\ r1.prev_keys = c.prev_keys /\ r1.failures = c.failures
        /\ r1.valid = c.valid
    BY <1>2, <1>4, <2>2 DEF Calm, Child_
  <2>4. \/ c' = Gone(c)
        \/ c.attempt = 0 /\ c' = Ask(r1, "pwnam", <<Req("PWNAM")>>)
        \/ c.attempt # 0 /\ c' = Try(r1)
    BY <1>4, <2>1 DEF input_userauth_request, Calm
  <2> HIDE DEF r1
  <2>5. Calm(r1)
    BY <2>3 DEF Calm
  <2>6. CASE c.attempt = 0 /\ c' = Ask(r1, "pwnam", <<Req("PWNAM")>>)
    <3>1. "pwnam" \in Pc /\ "PWNAM" \in ReqType
      BY DEF Pc, ReqType, MON_ONCE
    <3>2. Req("PWNAM") \in Request
      BY <3>1, ReqType_
    <3>3. Same(r1, c') /\ c'.out = <<Req("PWNAM")>> /\ c'.lists = r1.lists /\ c'.pc = "pwnam"
      BY <2>5, <2>6, <3>1, <3>2, AskOne
    <3>4. Nameless /\ Named
      BY <1>4, <2>6 DEF AtIdle
    <3>5. c'.attempt = c.attempt + 1 /\ c'.prev_keys = {} /\ Settled
      BY <2>3, <3>3, <3>4 DEF Same, Nameless, Settled
    <3>6. c'.attempt > 0
      BY <2>2, <3>5
    <3>7. AsksFor(Req("PWNAM"))'
      BY <1>1, <3>3 DEF AsksFor, Req
    <3>8. AtPwnam'
      BY <1>1, <3>4, <3>5, <3>6, <3>7 DEF AtPwnam, Nameless, Named
    <3> QED BY <1>1, <1>4, <3>3, <3>5, <3>8, AgreeAt
  <2>7. CASE c.attempt # 0 /\ c' = Try(r1)
    <3>1. Level(0) /\ AuthPermitted
      BY <1>4, <2>7 DEF AtIdle
    <3>2. c.failures \in Nat /\ m.failures <= c.failures
      <4>1. c.failures \in Nat /\ m.failures <= c.failures + 0
        BY <1>2, <3>1 DEF Level, Child_
      <4> QED BY ONLY <1>2, <4>1
    <3>3. r1.attempt > 0
      BY <2>2, <2>3
    <3>4. /\ r1.lists = m.lists /\ r1.prev_keys = m.prev_keys /\ m.failures <= r1.failures
          /\ r1.valid = cf.valid /\ m.valid = cf.valid /\ m.phase = "preauth"
      BY <2>3, <3>1, <3>2 DEF Level
    <3> QED BY <1>2, <1>3, <1>4, <2>5, <2>7, <3>1, <3>3, <3>4, TryAgrees
  <2> QED BY <1>5, <2>4, <2>6, <2>7
<1>7. CASE ClientResponse
  <2>1. c' = Gone(c)
    BY <1>4, <1>7 DEF ClientResponse, input_userauth_info_response, Calm
  <2> QED BY <1>5, <2>1
<1>8. CASE ClientClose
  BY <1>5, <1>8 DEF ClientClose
<1> QED BY <1>6, <1>7, <1>8

\* An answer is there: sshd-auth waits for it, and the pipe holds nothing else.
LEMMA ToldFacts ==
    ASSUME NEW a, m.out = <<a>>
    PROVE  Head(m.out) = a /\ m.out # <<>> /\ Tail(m.out) = <<>>
OBVIOUS

\* sshd-auth takes a request for refused, as the monitor has.
LEMMA NoAgrees ==
    ASSUME TypeInv', cf \in Config, Straightforward, NEW r, Calm(r), NEW method, c' = userauth_finish(r, FALSE, method, ""),
           Emptied, r.attempt > 0, r.lists = m.lists, r.prev_keys = m.prev_keys, m.failures \in Nat,
           m.failures <= r.failures \/ (m.failures <= r.failures + 1 /\ ~r.postponed /\ method # "none"),
           r.valid = cf.valid, m.valid = cf.valid, m.phase = "preauth", m.force_command = "", AuthPermitted
    PROVE  AgreeInv'
<1>1. /\ Same(r, c') /\ c'.out = <<>> /\ c'.lists = r.lists /\ c'.pc \in {"idle", "gone"}
      /\ r.failures <= c'.failures
      /\ ~r.postponed /\ method # "none" => c'.failures = r.failures + 1
  BY FinishNo
<1>2. r.failures \in Nat /\ c'.failures \in Nat /\ r.attempt \in Nat
  BY DEF Calm, Child_, TypeInv
<1>3. m'.failures = m.failures /\ c'.attempt = r.attempt
  BY <1>1 DEF Emptied, Same
<1>4. m'.failures <= c'.failures + 0 /\ c'.attempt # 0
  <2>1. /\ r.failures <= c'.failures
        /\ ~r.postponed /\ method # "none" => c'.failures = r.failures + 1
    BY <1>1
  <2>2. m.failures <= c'.failures
    <3>1. CASE m.failures <= r.failures
      BY ONLY m.failures \in Nat, <1>2, <2>1, <3>1
    <3>2. CASE m.failures <= r.failures + 1 /\ ~r.postponed /\ method # "none"
      BY ONLY m.failures \in Nat, <1>2, <2>1, <3>2
    <3> QED BY <3>1, <3>2
  <2> QED BY ONLY m.failures \in Nat, r.attempt > 0, <1>2, <1>3, <2>2
<1>5. Level(0)'
  BY <1>1, <1>4 DEF Level, Emptied, Same
<1>6. AuthPermitted' /\ m'.out = <<>> /\ m'.phase # "fatal" /\ m'.force_command = "" /\ cf' = cf
  BY DEF AuthPermitted, Emptied
<1>7. AtIdle' /\ AtGone'
  BY <1>1, <1>4, <1>5, <1>6 DEF AtIdle, AtGone
<1>8. Settled
  BY <1>1 DEF Settled, Same, Calm
<1> QED BY <1>1, <1>6, <1>7, <1>8, AgreeAt

\* sshd-auth takes a request for granted, as the monitor has.
LEMMA YesAgrees ==
    ASSUME TypeInv', cf \in Config, Straightforward, NEW r, Calm(r), NEW method, c' = userauth_finish(r, TRUE, method, ""),
           Emptied, r.attempt > 0, r.valid, m.valid, cf.valid, ~r.postponed, auth2_method_allowed(r.lists, method, ""),
           r.prev_keys = m.prev_keys, m.failures \in Nat, m.failures <= r.failures,
           m.lists = (IF Configured THEN auth2_update_methods_lists(r.lists, method, "").lists ELSE r.lists),
           m.phase = (IF Configured /\ ~auth2_update_methods_lists(r.lists, method, "").complete THEN "preauth" ELSE "export"),
           m.force_command = "", AuthPermitted
    PROVE  AgreeInv'
<1> DEFINE u == auth2_update_methods_lists(r.lists, method, "")
<1>1. /\ Same(r, c') /\ NoSubs(c'.lists) /\ c'.failures = r.failures
      /\ c'.lists = (IF Configured THEN u.lists ELSE r.lists)
      /\ IF Configured /\ ~u.complete THEN c'.out = <<>> /\ c'.pc \in {"idle", "gone"}
         ELSE c'.out = <<Req("KEYEXPORT")>> /\ c'.pc = "done"
  BY FinishYes
<1> HIDE DEF u
<1>2. r.failures \in Nat /\ c'.failures \in Nat /\ r.attempt \in Nat
  BY DEF Calm, Child_, TypeInv
<1>3. m'.failures = m.failures /\ c'.attempt = r.attempt /\ c'.failures = r.failures
  BY <1>1 DEF Emptied, Same
<1>4. m'.failures <= c'.failures + 0 /\ c'.attempt # 0
  BY ONLY r.attempt > 0, m.failures \in Nat, m.failures <= r.failures, <1>2, <1>3
<1>5. AuthPermitted' /\ m'.out = <<>> /\ m'.force_command = "" /\ cf' = cf
  BY DEF AuthPermitted, Emptied
<1>6. Settled
  BY <1>1 DEF Settled, Same, Calm
<1>7. CASE Configured /\ ~u.complete
  <2>1. m.phase = "preauth" /\ m.lists = c'.lists
    BY <1>1, <1>7 DEF u
  <2>2. Level(0)' /\ m'.phase = "preauth"
    BY <1>1, <1>4, <2>1 DEF Level, Emptied, Same
  <2>3. AtIdle' /\ AtGone' /\ c'.pc \in {"idle", "gone"}
    BY <1>1, <1>4, <1>5, <1>7, <2>2 DEF AtIdle, AtGone
  <2> QED BY <1>5, <1>6, <2>2, <2>3, AgreeAt
<1>8. CASE ~(Configured /\ ~u.complete)
  <2>1. m'.phase = "export" /\ c'.pc = "done" /\ c'.out = <<Req("KEYEXPORT")>>
    BY <1>1, <1>8 DEF u, Emptied
  <2>2. AtDone'
    BY <1>5, <2>1 DEF AtDone, Req
  <2> QED BY <1>5, <1>6, <2>1, <2>2, AgreeAt
<1> QED BY <1>7, <1>8

\* sshd-auth goes on with an answer: the two stay in step.
LEMMA ResumeAgrees ==
    ASSUME IInv, AgreeInv, Straightforward, TypeInv', ChildResume
    PROVE  AgreeInv'
<1> DEFINE a == Head(m.out)
<1>1. /\ cf \in Config /\ c \in Child_ /\ m \in Monitor_ /\ TypeInv /\ m.failures \in Nat /\ c.failures \in Nat
      /\ c.attempt \in Nat /\ c'.failures \in Nat
  BY DEF IInv, TypeInv, Child_, Monitor_
<1>2. /\ Waiting /\ m.out # <<>> /\ c' = Resume(c, a) /\ m' = [m EXCEPT !.out = Tail(@)] /\ cf' = cf
  BY DEF ChildResume
<1>3. Tail(m.out) = <<>> /\ c.out = <<>>
  <2>1. m.out \in Seq(Reply) /\ Len(m.out) = 1 /\ c.out = <<>>
    BY <1>1, <1>2 DEF IInv, PipeInv, Monitor_
  <2> QED BY <2>1, OneElement
<1>4. Emptied
  BY <1>1, <1>2, <1>3 DEF Emptied, Monitor_
<1>5. Calm(c) /\ m.phase # "fatal" /\ m.force_command = ""
  BY <1>1, <1>3 DEF AgreeInv, Calm, NoSubs
<1>6. m'.phase # "fatal" /\ m'.force_command = "" /\ m'.out = <<>>
  BY <1>4, <1>5 DEF Emptied
<1>7. c.pc \in Asking => c.failures < cf.max_authtries /\ ~c.postponed
  BY DEF IInv, GuessInv
<1>8. \A q : ~AsksFor(q)
  BY <1>2 DEF AsksFor
<1> HIDE DEF a
<1>9. CASE c.pc = "state"
  <2> DEFINE qs == <<Req("SETCOMPAT"), Req("SIGN")>>
  <2>1. AtState
    BY <1>9 DEF AgreeInv
  <2>2. c' = Ask(c, "sign", qs)
    BY <1>2, <1>9 DEF Resume
  <2>3. "SETCOMPAT" \in ReqType /\ "SIGN" \in ReqType
    BY DEF ReqType, MON_ONCE
  <2>4. Req("SETCOMPAT") \in Request /\ Req("SIGN") \in Request
    BY <2>3, ReqType_
  <2>5. qs \in Seq(Request)
    BY ONLY <2>4
  <2>6. c.out \o qs = qs
    BY ONLY <1>3, <2>5, ConcatEmptySeq
  <2>7. c' = [c EXCEPT !.pc = "sign", !.out = qs]
    BY <1>1, <2>2, <2>6 DEF Ask, Child_
  <2> HIDE DEF qs
  <2>8. /\ c'.pc = "sign" /\ c'.out = qs /\ Settled /\ c'.attempt = c.attempt /\ c'.prev_keys = c.prev_keys
    BY <1>1, <1>5, <2>7 DEF Child_, Calm, Settled
  <2>9. Nameless' /\ {"SETCOMPAT", "SIGN"} \subseteq m'.permit
    BY <1>4, <2>1, <2>8 DEF Emptied, AtState, Nameless
  <2>10. AtSign'
    BY <1>6, <2>8, <2>9 DEF AtSign, qs, Req
  <2> QED BY <1>2, <1>6, <2>8, <2>10, AgreeAt
<1>10. CASE c.pc = "sign"
  <2>1. AtSign
    BY <1>10 DEF AgreeInv
  <2>2. c' = [c EXCEPT !.pc = "idle"]
    BY <1>2, <1>10 DEF Resume
  <2>3. /\ c'.pc = "idle" /\ c'.out = <<>> /\ Settled /\ c'.attempt = c.attempt /\ c'.prev_keys = c.prev_keys
    BY <1>1, <1>3, <1>5, <2>2 DEF Child_, Calm, Settled
  <2>4. Nameless /\ Named
    BY <1>2, <1>8, <2>1 DEF AtSign
  <2>5. AtIdle'
    BY <1>4, <2>3, <2>4 DEF Emptied, AtIdle, Nameless, Named
  <2> QED BY <1>2, <1>6, <2>3, <2>5, AgreeAt
<1>11. CASE c.pc = "pwnam"
  <2> DEFINE r == [c EXCEPT !.valid = cf.valid]
             qs == <<Req("AUTHSERV"), Req("READ_BANNER")>>
  <2>1. AtPwnam
    BY <1>11 DEF AgreeInv
  <2>2. c' = Ask(r, "banner", <<>> \o qs)
    BY <1>1, <1>2, <1>11 DEF Resume, mm_getpwnamallow, Straightforward, Config
  <2>3. "AUTHSERV" \in ReqType /\ "READ_BANNER" \in ReqType
    BY DEF ReqType, MON_ONCE
  <2>4. Req("AUTHSERV") \in Request /\ Req("READ_BANNER") \in Request
    BY <2>3, ReqType_
  <2>5. qs \in Seq(Request)
    BY ONLY <2>4
  <2>6. <<>> \o qs = qs
    BY ONLY <2>5, ConcatEmptySeq
  <2>7. r \in Child_ /\ r.out = <<>> /\ Calm(r) /\ r.valid = cf.valid /\ r.attempt = c.attempt
        /\ r.prev_keys = c.prev_keys
    BY <1>1, <1>3, <1>5 DEF Child_, Calm, Config
  <2> HIDE DEF r, qs
  <2>8. c' = [r EXCEPT !.pc = "banner", !.out = qs]
    BY <2>2, <2>6, <2>7 DEF Ask, Child_
  <2>9. /\ c'.pc = "banner" /\ c'.out = qs /\ Settled /\ c'.attempt = c.attempt /\ c'.prev_keys = c.prev_keys
        /\ c'.valid = cf.valid
    BY <2>7, <2>8 DEF Child_, Calm, Settled
  <2>10. SetUp /\ {"AUTHSERV", "READ_BANNER"} \subseteq m.permit /\ c.attempt > 0
    BY <1>8, <2>1 DEF AtPwnam
  <2>11. SetUp' /\ {"AUTHSERV", "READ_BANNER"} \subseteq m'.permit
    BY <1>2, <1>4, <2>9, <2>10, ConfigKept DEF SetUp, Emptied
  <2>12. AtBanner'
    BY <1>2, <1>6, <2>9, <2>10, <2>11 DEF AtBanner, qs, Req
  <2> QED BY <1>2, <1>6, <2>9, <2>12, AgreeAt
<1>12. CASE c.pc = "banner"
  <2>1. AtBanner
    BY <1>12 DEF AgreeInv
  <2>2. SetUp /\ c.valid = cf.valid /\ AuthPermitted /\ c.attempt > 0
    BY <1>2, <1>8, <2>1 DEF AtBanner
  <2> DEFINE r == [c EXCEPT !.lists = auth2_setup_methods_lists]
  <2>3. c' = Gone(c) \/ c' = Try(r)
    BY <1>2, <1>12 DEF Resume, SetupDone
  <2>4. auth2_setup_methods_lists \in Lists /\ NoSubs(auth2_setup_methods_lists)
    <3>1. cf.lists \in Seq(Seq(Entry))
      BY <1>1 DEF Config
    <3>2. \A i \in 1..Len(cf.lists) : \A j \in 1..Len(cf.lists[i]) : cf.lists[i][j].sub = ""
      BY DEF Straightforward
    <3>3. NoSubs(auth2_setup_methods_lists)
      <4> DEFINE D == {j \in DOMAIN cf.lists : auth2_methods_valid(cf.lists[j])}
      <4>1. DOMAIN cf.lists = 1..Len(cf.lists)
        BY <3>1
      <4>2. auth2_setup_methods_lists = [i \in D |-> cf.lists[i]] /\ D \subseteq 1..Len(cf.lists)
        BY <4>1 DEF auth2_setup_methods_lists
      <4> HIDE DEF D
      <4> QED BY <3>2, <4>2 DEF NoSubs
    <3> QED BY <1>1, <3>3, SetupLists
  <2>5. /\ Calm(r) /\ r.attempt = c.attempt /\ r.prev_keys = c.prev_keys /\ r.valid = c.valid
        /\ r.failures = c.failures /\ r.lists = auth2_setup_methods_lists
    BY <1>1, <1>5, <2>4 DEF Child_, Calm
  <2> HIDE DEF r
  <2>6. CASE c' = Gone(c)
    BY <1>1, <1>3, <1>4, <1>5, <2>6, GoneAgrees DEF Calm
  <2>7. CASE c' = Try(r)
    <3>1. m.failures <= r.failures
      <4>1. m.failures = 0 /\ r.failures \in Nat
        BY <1>1, <2>2, <2>5 DEF SetUp
      <4> QED BY ONLY <4>1
    <3> QED BY <1>1, <1>4, <1>5, <2>2, <2>5, <2>7, <3>1, TryAgrees DEF SetUp
  <2> QED BY <2>3, <2>6, <2>7
<1>13. CASE c.pc = "password"
  <2>1. AtPassword /\ ~c.postponed /\ c.packet.method = "password" /\ AuthPermitted /\ c.attempt > 0
    BY <1>7, <1>13 DEF AgreeInv, AtPassword, Candidate, Asking
  <2>2. c' = userauth_finish(c, a = "yes", c.packet.method, "")
    BY <1>2, <1>13 DEF Resume, mm_auth_password
  <2>3. CASE Told("no") /\ Level(1)
    <3>1. a = "no"
      BY <2>3, ToldFacts DEF Told, a
    <3>2. c' = userauth_finish(c, FALSE, c.packet.method, "")
      BY <2>2, <3>1
    <3> QED BY <1>1, <1>4, <1>5, <2>1, <2>3, <3>2, NoAgrees DEF Level
  <2>4. CASE Told("yes") /\ Accepted({})
    <3>1. a = "yes"
      BY <2>4, ToldFacts DEF Told, a
    <3>2. c' = userauth_finish(c, TRUE, c.packet.method, "")
      BY <2>2, <3>1
    <3>3. auth2_method_allowed(c.lists, c.packet.method, "")
      BY <2>1 DEF AtPassword, Candidate
    <3> QED BY <1>1, <1>4, <1>5, <2>1, <2>4, <3>2, <3>3, YesAgrees DEF Accepted, Removed
  <2> QED BY <1>8, <2>1, <2>3, <2>4 DEF AtPassword
<1>14. CASE c.pc = "allowed"
  <2>1. /\ AtAllowed /\ ~c.postponed /\ c.packet.method \in {"publickey", "hostbased"} /\ AuthPermitted
        /\ c.attempt > 0 /\ Level(0) /\ c.packet \in PacketRec
    BY <1>1, <1>7, <1>14 DEF AgreeInv, AtAllowed, Candidate, Asking, Child_
  <2> DEFINE r == [c EXCEPT !.postponed = TRUE]
  <2>2. c' = KeyAllowed(c, a)
    BY <1>2, <1>14 DEF Resume
  <2>3. m.failures <= c.failures + 1 /\ m.failures <= c.failures
    <3>1. m.failures <= c.failures + 0
      BY <2>1 DEF Level
    <3> QED BY ONLY <1>1, <3>1
  <2>4. CASE Told("no")
    <3>1. a = "no"
      BY <2>4, ToldFacts DEF Told, a
    <3>2. c' = userauth_finish(c, FALSE, c.packet.method, "")
      BY <2>2, <3>1 DEF KeyAllowed
    <3> QED BY <1>1, <1>4, <1>5, <2>1, <2>3, <3>2, NoAgrees DEF Level
  <2>5. CASE Told("yes") /\ m.key_blob = Blob /\ cf.valid
    <3>1. a = "yes"
      BY <2>5, ToldFacts DEF Told, a
    <3>2. CASE c.packet.sig = "none"
      <4>1. c' = userauth_finish(r, FALSE, c.packet.method, "")
        BY <2>2, <3>1, <3>2 DEF KeyAllowed
      <4>2. Calm(r) /\ r.lists = c.lists /\ r.prev_keys = c.prev_keys /\ r.valid = c.valid /\ r.attempt = c.attempt
            /\ r.failures = c.failures
        BY <1>5 DEF Calm, Child_
      <4> HIDE DEF r
      <4> QED BY <1>1, <1>4, <1>5, <2>1, <2>3, <4>1, <4>2, NoAgrees DEF Level
    <3>3. CASE c.packet.sig # "none"
      <4> DEFINE q == VerifyReq
      <4>1. c' = Ask(c, "verify", <<q>>)
        BY <2>2, <3>1, <3>3 DEF KeyAllowed, VerifyReq
      <4>2. q \in Request /\ "verify" \in Pc
        BY <2>1, Requests DEF VerifyReq, Pc
      <4> HIDE DEF q
      <4>3. Same(c, c') /\ c'.out = <<q>> /\ c'.lists = c.lists /\ c'.pc = "verify" /\ c'.failures = c.failures
        BY ZenonT(40), <1>5, <4>1, <4>2, AskOne
      <4>4. Settled
        BY <1>5, <4>3 DEF Settled, Same, Calm
      <4>5. AsksFor(VerifyReq)'
        BY <1>6, <4>3 DEF AsksFor, VerifyReq, PubkeyReq, Same, q
      <4>6. Level(0)' /\ AuthPermitted' /\ c'.attempt > 0
        BY <1>4, <2>1, <4>3 DEF Level, AuthPermitted, Emptied, Same
      <4>7. Candidate({"publickey", "hostbased"})'
        <5>1. Candidate({"publickey", "hostbased"})
          BY <2>1 DEF AtAllowed
        <5> QED BY <1>2, <4>3, <5>1, ConfigKept DEF Candidate, Same
      <4>8. (m.key_blob = Blob)' /\ cf'.valid
        BY <1>2, <1>4, <2>5, <4>3 DEF Blob, Emptied, Same
      <4>9. AtVerify'
        BY <4>5, <4>6, <4>7, <4>8 DEF AtVerify
      <4> QED BY <1>2, <1>6, <4>3, <4>4, <4>9, AgreeAt
    <3> QED BY <3>2, <3>3
  <2> QED BY <1>8, <2>1, <2>4, <2>5 DEF AtAllowed
<1>15. CASE c.pc = "verify"
  <2>1. /\ AtVerify /\ ~c.postponed /\ c.packet.method \in {"publickey", "hostbased"} /\ AuthPermitted
        /\ c.attempt > 0 /\ c.packet \in PacketRec /\ c.packet.key \in Keys
    BY <1>1, <1>7, <1>15 DEF AgreeInv, AtVerify, Candidate, Asking, Child_, PacketRec
  <2>2. c' = mm_sshkey_verify(c, a)
    BY <1>2, <1>15 DEF Resume
  <2>3. CASE Told("no") /\ Level(1)
    <3>1. a = "no"
      BY <2>3, ToldFacts DEF Told, a
    <3>2. c' = userauth_finish(c, FALSE, c.packet.method, "")
      BY <2>2, <3>1 DEF mm_sshkey_verify, auth2_record_key
    <3> QED BY <1>1, <1>4, <1>5, <2>1, <2>3, <3>2, NoAgrees DEF Level
  <2>4. CASE Told("yes") /\ Accepted({c.packet.key})
    <3> DEFINE k == c.packet.key
               r1 == [c EXCEPT !.prev_keys = c.prev_keys \cup {k}]
               r2 == IF c.packet.method = "publickey" THEN [r1 EXCEPT !.force_command = ""] ELSE r1
    <3>1. a = "yes"
      BY <2>4, ToldFacts DEF Told, a
    <3>2. /\ Calm(r1) /\ r1.prev_keys = c.prev_keys \cup {k} /\ r1.lists = c.lists /\ r1.failures = c.failures
          /\ r1.valid = c.valid /\ r1.attempt = c.attempt /\ r1.postponed = c.postponed /\ r1.packet = c.packet
      <4>1. c.prev_keys \cup {k} \in SUBSET KeyOrNone
        BY <1>1, <2>1 DEF Child_, KeyOrNone
      <4> QED BY <1>5, <4>1 DEF Calm, Child_
    <3>3. cf.force[k] = ""
      BY <2>1 DEF Straightforward
    <3>4. c.force_command = "" /\ r1.force_command = ""
      BY <1>5, <3>2 DEF Calm
    <3>5. auth2_record_key(c, TRUE, k) = r1
      BY <1>1 DEF auth2_record_key, Child_
    <3>6. auth_activate_options(r1, k) = [r1 EXCEPT !.force_command = ""]
      BY <3>2, <3>3, <3>4 DEF auth_activate_options, Calm, Child_
    <3>7. r2 = IF c.packet.method = "publickey" THEN auth_activate_options(auth2_record_key(c, TRUE, k), k)
               ELSE auth2_record_key(c, TRUE, k)
      BY <3>5, <3>6
    <3> HIDE DEF r1
    <3>8. /\ Calm(r2) /\ r2.prev_keys = c.prev_keys \cup {k} /\ r2.lists = c.lists /\ r2.failures = c.failures
          /\ r2.valid = c.valid /\ r2.attempt = c.attempt /\ r2.postponed = c.postponed /\ r2.packet = c.packet
          /\ r2.force_command = ""
      BY <3>2, <3>4 DEF Calm, Child_, Command
    <3> HIDE DEF r2
    <3>9. c' = userauth_finish(r2, TRUE, c.packet.method, "")
      <4>1. TRUE /\ r2.force_command # "NULL" /\ c.force_command # "NULL"
        BY <3>4, <3>8
      <4> QED BY <2>2, <3>1, <3>7, <4>1 DEF mm_sshkey_verify
    <3>10. auth2_method_allowed(r2.lists, c.packet.method, "")
      BY <2>1, <3>8 DEF AtVerify, Candidate
    <3> QED BY <1>1, <1>4, <1>5, <2>1, <2>4, <3>8, <3>9, <3>10, YesAgrees DEF Accepted, Removed
  <2> QED BY <1>8, <2>1, <2>3, <2>4 DEF AtVerify
<1>16. c.pc \in {"state", "sign", "pwnam", "banner", "password", "allowed", "verify"}
  BY <1>2 DEF AgreeInv, Waiting, Running
<1> QED BY <1>9, <1>10, <1>11, <1>12, <1>13, <1>14, <1>15, <1>16

\* The end of a turn of the monitor: nothing was to be decided, a guess was
\* wrong, or a method is done with.
LEMMA JudgeNothing ==
    ASSUME cf \in Config, NEW s \in Monitor_, s.failures <= cf.max_authtries, NEW type, type \notin MON_AUTHDECIDE
    PROVE  Judge(s, type, <<>>) = [s EXCEPT !.phase = "preauth"]
<1>0. s.failures \in Nat /\ cf.max_authtries \in Nat
  BY DEF Monitor_, Config
<1>1. ~(s.failures > cf.max_authtries)
  BY ONLY s.failures <= cf.max_authtries, <1>0
<1> QED BY <1>1 DEF Judge, Decide

LEMMA JudgeNo ==
    ASSUME cf \in Config, NEW s \in Monitor_, s.failures < cf.max_authtries, NEW type, type \in MON_AUTHDECIDE
    PROVE  Judge(s, type, <<>>) = [[s EXCEPT !.failures = s.failures + 1] EXCEPT !.phase = "preauth"]
<1> DEFINE s1 == [s EXCEPT !.failures = s.failures + 1]
<1>1. s.failures \in Nat /\ cf.max_authtries \in Nat
  BY DEF Monitor_, Config
<1>2. s1.failures = s.failures + 1
  BY DEF Monitor_
<1>3. ~(s1.failures > cf.max_authtries)
  <2> HIDE DEF s1
  <2> QED BY ONLY s.failures < cf.max_authtries, <1>1, <1>2
<1>4. s1 = [s EXCEPT !.failures = @ + 1]
  OBVIOUS
<1> QED BY <1>3, <1>4 DEF Judge, Decide

Granted(d, s, method) ==
    LET u == auth2_update_methods_lists(s.lists, method, "")
    IN  /\ d.out = s.out /\ d.prev_keys = s.prev_keys /\ d.failures = s.failures /\ d.valid = s.valid
        /\ d.permit = s.permit /\ d.force_command = s.force_command /\ d.key_blob = s.key_blob
        /\ d.lists = (IF Configured THEN u.lists ELSE s.lists)
        /\ d.phase = IF Configured /\ ~u.complete THEN "preauth" ELSE "export"

LEMMA JudgeYes ==
    ASSUME cf \in Config, Straightforward, NEW s \in Monitor_, s.failures <= cf.max_authtries, s.valid,
           NEW type, type \in MON_AUTHDECIDE, NEW method, NEW k, NoSubs(s.lists),
           auth2_method_allowed(s.lists, method, "")
    PROVE  Granted(Judge(s, type, <<Proof(method, "", k)>>), s, method)
<1> DEFINE p == <<Proof(method, "", k)>>
           u == auth2_update_methods_lists(s.lists, method, "")
           d == Judge(s, type, p)
           s1 == IF Configured THEN [s EXCEPT !.lists = u.lists] ELSE s
<1>1. p # <<>> /\ p[1].method = method /\ p[1].sub = ""
  BY DEF Proof
<1>0. s.failures \in Nat /\ cf.max_authtries \in Nat /\ s.lists \in Lists
  BY DEF Monitor_, Config
<1>2. s.lists \in Lists /\ ~(s.failures > cf.max_authtries)
  BY ONLY s.failures <= cf.max_authtries, <1>0
<1>3. (Configured => u.found) /\ u.lists \in Lists
  BY <1>2, MethodFound, UpdateLists
<1>4. ~RootCheckCrashes(s) /\ ~cf.root /\ ~cf.pam
  BY DEF RootCheckCrashes, Straightforward
<1> HIDE DEF p
<1>5. d = Decide(s1, type, ~(Configured /\ ~u.complete), Configured /\ ~u.complete)
  BY <1>1, <1>3, <1>4 DEF Judge
<1> HIDE DEF u
<1>6. /\ s1 \in Monitor_ /\ s1.failures = s.failures /\ s1.valid = s.valid /\ s1.out = s.out /\ s1.prev_keys = s.prev_keys
      /\ s1.permit = s.permit /\ s1.force_command = s.force_command /\ s1.key_blob = s.key_blob
      /\ s1.lists = IF Configured THEN u.lists ELSE s.lists
  BY <1>3 DEF Monitor_
<1> HIDE DEF s1, d
<1>7. d = IF Configured /\ ~u.complete THEN [s1 EXCEPT !.phase = "preauth"] ELSE [s1 EXCEPT !.phase = "export"]
  BY <1>2, <1>5, <1>6 DEF Decide
<1>8. /\ d.out = s.out /\ d.prev_keys = s.prev_keys /\ d.failures = s.failures /\ d.valid = s.valid
      /\ d.permit = s.permit /\ d.force_command = s.force_command /\ d.key_blob = s.key_blob
      /\ d.lists = (IF Configured THEN u.lists ELSE s.lists)
      /\ d.phase = IF Configured /\ ~u.complete THEN "preauth" ELSE "export"
  BY <1>6, <1>7 DEF Monitor_
<1> QED BY <1>8 DEF d, u, p, Granted

\* sshd-auth waits while the monitor works.
Popped ==
    /\ c'.pc = c.pc /\ c'.attempt = c.attempt /\ c'.failures = c.failures /\ c'.lists = c.lists
    /\ c'.prev_keys = c.prev_keys /\ c'.valid = c.valid /\ c'.packet = c.packet /\ Settled /\ cf' = cf

\* The monitor is in the state its handler has left it in.
Alike(d, s) ==
    /\ d.phase = "preauth" /\ d.out = s.out /\ d.permit = s.permit /\ d.compat_set = s.compat_set /\ d.attempt = s.attempt
    /\ d.valid = s.valid /\ d.lists = s.lists /\ d.prev_keys = s.prev_keys /\ d.key_blob = s.key_blob
    /\ d.force_command = s.force_command

\* A request that decides nothing.
LEMMA EarlyTurn ==
    ASSUME cf \in Config, NEW type, NEW s \in Monitor_, s.phase = "preauth", type \notin MON_AUTHDECIDE,
           s.failures <= cf.max_authtries, m' = IF s.phase = "fatal" THEN s ELSE Judge(s, type, <<>>)
    PROVE  Alike(m', s) /\ m'.failures = s.failures
<1>1. m' = [s EXCEPT !.phase = "preauth"]
  BY JudgeNothing
<1> QED BY <1>1 DEF Monitor_, Alike

\* One request or two, one answer.
LEMMA Singles ==
    /\ \A x, y : Head(<<x>>) = x /\ Tail(<<x>>) = <<>> /\ Head(<<x, y>>) = x /\ Tail(<<x, y>>) = <<y>>
    /\ \A a \in Reply : Append(<<>>, a) = <<a>> /\ <<a>> \in Seq(Reply)
<1>1. ASSUME NEW x, NEW y PROVE Head(<<x>>) = x /\ Tail(<<x>>) = <<>> /\ Head(<<x, y>>) = x /\ Tail(<<x, y>>) = <<y>>
  <2>1. x \in {x, y} /\ y \in {x, y}
    OBVIOUS
  <2>2. <<x>> \in Seq({x, y}) /\ <<x, y>> \in Seq({x, y}) /\ <<y>> \in Seq({x, y}) /\ Len(<<x>>) = 1
    BY <2>1
  <2>3. Head(<<x>>) = x /\ Tail(<<x>>) = <<>>
    BY <2>2, OneElement
  <2>4. Head(<<x, y>>) = x
    OBVIOUS
  <2>5. Tail(<<x, y>>) = <<y>>
    <3>1. Tail(<<x, y>>) \in Seq({x, y}) /\ Len(Tail(<<x, y>>)) = 1 /\ Tail(<<x, y>>)[1] = y
      BY <2>2
    <3>2. Tail(<<x, y>>) = <<Head(Tail(<<x, y>>))>> /\ Tail(<<x, y>>)[1] = Head(Tail(<<x, y>>))
      BY ONLY <3>1, OneElement
    <3> QED BY ONLY <3>1, <3>2
  <2> QED BY <2>3, <2>4, <2>5
<1>2. ASSUME NEW a \in Reply PROVE Append(<<>>, a) = <<a>> /\ <<a>> \in Seq(Reply)
  <2>1. <<a>> \in Seq(Reply)
    OBVIOUS
  <2>2. Append(<<>>, a) = <<a>>
    <3>1. Append(<<>>, a) \in Seq(Reply) /\ Len(Append(<<>>, a)) = 1 /\ Append(<<>>, a)[1] = a
      BY AppendProperties
    <3>2. Append(<<>>, a) = <<Head(Append(<<>>, a))>> /\ Append(<<>>, a)[1] = Head(Append(<<>>, a))
      BY ONLY <3>1, OneElement
    <3> QED BY ONLY <3>1, <3>2
  <2> QED BY <2>1, <2>2
<1> QED BY <1>1, <1>2

LEMMA ReqTyped == \A t : Req(t).type = t /\ Req(t).arg = ""
BY DEF Req

LEMMA ReadAgrees ==
    ASSUME IInv, AgreeInv, Straightforward, TypeInv', NEW word \in PamWord, MonitorRead(word)
    PROVE  AgreeInv'
<1> DEFINE q == Head(c.out)
           r == Handle(m, q, word)
           s == [r.m EXCEPT !.permit = IF q.type \in MON_ONCE THEN @ \ {q.type} ELSE @]
<1>1. /\ cf \in Config /\ c \in Child_ /\ m \in Monitor_ /\ TypeInv /\ m.failures \in Nat /\ c.failures \in Nat
      /\ cf.max_authtries \in Nat
  BY DEF IInv, TypeInv, Child_, Monitor_, Config
<1>2. /\ m.phase = "preauth" /\ c.out # <<>> /\ c' = [c EXCEPT !.out = Tail(@)] /\ cf' = cf
  BY DEF MonitorRead
<1>3. m.force_command = "" /\ c.why = "" /\ ~c.kbd /\ c.force_command = "" /\ NoSubs(c.lists) /\ m.out = <<>>
  BY <1>2 DEF AgreeInv, NoSubs, IInv, PipeInv
<1>4. Popped /\ c'.out = Tail(c.out)
  BY <1>1, <1>2, <1>3 DEF Popped, Settled, Child_
<1>5. \A a : ~Told(a)
  BY <1>2 DEF Told
<1>6. ~Unpermitted(m, q) => m' = IF s.phase = "fatal" THEN s ELSE Judge(s, q.type, r.proof)
  BY DEF MonitorRead
<1>7. c.pc \in Asking => c.failures < cf.max_authtries
  BY DEF IInv, GuessInv
<1>8. c.pc \in {"state", "sign", "pwnam", "banner", "password", "allowed", "verify"}
  BY <1>2 DEF AgreeInv, AtIdle, AtDone, AtGone
<1> HIDE DEF q, r, s
<1>9. CASE c.pc = "state"
  <2>1. AtState /\ Nameless
    BY <1>9 DEF AgreeInv, AtState
  <2>2. c.out = <<Req("STATE")>> /\ "STATE" \in m.permit /\ {"SETCOMPAT", "SIGN"} \subseteq m.permit
    BY <1>5, <2>1 DEF AtState, AsksFor
  <2>3. q = Req("STATE") /\ q.type = "STATE" /\ c'.out = <<>>
    BY <1>4, <2>2, Singles, ReqTyped DEF q
  <2>4. r = [m |-> [m EXCEPT !.out = Append(@, "state")], proof |-> <<>>]
    BY <2>3 DEF r, Handle, mm_answer_state, Plain, Answer
  <2>5. s = [m EXCEPT !.out = <<"state">>, !.permit = m.permit \ {"STATE"}]
    <3>1. Append(m.out, "state") = <<"state">>
      BY <1>3, Singles DEF Reply
    <3> QED BY <1>1, <2>3, <2>4, <3>1 DEF s, Monitor_, MON_ONCE
  <2>6. /\ s \in Monitor_ /\ s.phase = "preauth" /\ s.failures = 0 /\ s.out = <<"state">> /\ s.permit = m.permit \ {"STATE"}
        /\ s.prev_keys = m.prev_keys /\ s.attempt = m.attempt /\ s.force_command = m.force_command
    <3>1. <<"state">> \in Seq(Reply) /\ m.permit \ {"STATE"} \in SUBSET (ReqType \ {"KEYEXPORT"})
      BY <1>1, Singles DEF Reply, Monitor_
    <3> QED BY <1>1, <1>2, <2>1, <2>5, <3>1 DEF Monitor_, Nameless
  <2>7. Alike(m', s) /\ m'.failures = s.failures
    <3>1. r.proof = <<>> /\ ~Unpermitted(m, q) /\ q.type \notin MON_AUTHDECIDE
      BY <2>2, <2>3, <2>4 DEF Unpermitted, MON_AUTHDECIDE
    <3>2. s.failures <= cf.max_authtries
      BY ONLY <1>1, <2>6
    <3>3. m' = IF s.phase = "fatal" THEN s ELSE Judge(s, q.type, <<>>)
      BY <1>6, <3>1
    <3> QED BY ONLY <1>1, <2>6, <3>1, <3>2, <3>3, EarlyTurn
  <2>8. Nameless' /\ {"SETCOMPAT", "SIGN"} \subseteq m'.permit /\ Told("state")'
    BY <1>4, <2>1, <2>2, <2>3, <2>6, <2>7 DEF Nameless, Popped, Told, Alike
  <2>9. AtState'
    BY <2>8 DEF AtState
  <2> QED BY <1>3, <1>4, <1>9, <2>6, <2>7, <2>9, AgreeAt DEF Popped, Alike
<1>10. CASE c.pc = "sign"
  <2>1. AtSign /\ Nameless
    BY <1>10 DEF AgreeInv, AtSign
  <2>2. CASE c.out = <<Req("SETCOMPAT"), Req("SIGN")>> /\ {"SETCOMPAT", "SIGN"} \subseteq m.permit
    <3>1. q = Req("SETCOMPAT") /\ q.type = "SETCOMPAT" /\ c'.out = <<Req("SIGN")>>
      BY <1>4, <2>2, Singles, ReqTyped DEF q
    <3>2. r = [m |-> [m EXCEPT !.compat_set = TRUE], proof |-> <<>>]
      BY <3>1 DEF r, Handle, mm_answer_setcompat, Plain
    <3>3. s = [m EXCEPT !.compat_set = TRUE, !.permit = m.permit \ {"SETCOMPAT"}]
      BY <1>1, <3>1, <3>2 DEF s, Monitor_, MON_ONCE
    <3>4. m.permit \ {"SETCOMPAT"} \in SUBSET (ReqType \ {"KEYEXPORT"})
      BY <1>1 DEF Monitor_
    <3>5. /\ s \in Monitor_ /\ s.phase = "preauth" /\ s.failures = 0 /\ s.out = <<>> /\ s.permit = m.permit \ {"SETCOMPAT"}
          /\ s.prev_keys = m.prev_keys /\ s.attempt = m.attempt /\ s.force_command = m.force_command /\ s.compat_set
      BY <1>1, <1>2, <1>3, <2>1, <3>3, <3>4 DEF Monitor_, Nameless
    <3>6. Alike(m', s) /\ m'.failures = s.failures
      <4>1. r.proof = <<>> /\ ~Unpermitted(m, q) /\ q.type \notin MON_AUTHDECIDE
        BY <2>2, <3>1, <3>2 DEF Unpermitted, MON_AUTHDECIDE
      <4>2. s.failures <= cf.max_authtries
        BY ONLY <1>1, <3>5
      <4>3. m' = IF s.phase = "fatal" THEN s ELSE Judge(s, q.type, <<>>)
        BY <1>6, <4>1
      <4> QED BY ONLY <1>1, <3>5, <4>1, <4>2, <4>3, EarlyTurn
    <3>7. Nameless' /\ "SIGN" \in m'.permit /\ m'.compat_set /\ m'.out = <<>>
      BY <1>4, <2>1, <2>2, <3>5, <3>6 DEF Nameless, Popped, Alike
    <3>8. AsksFor(Req("SIGN"))'
      BY <3>1, <3>7 DEF AsksFor, Req
    <3>9. AtSign'
      BY <3>7, <3>8 DEF AtSign
    <3> QED BY <1>3, <1>4, <1>10, <3>5, <3>6, <3>9, AgreeAt DEF Popped, Alike
  <2>3. CASE c.out = <<Req("SIGN")>> /\ m.compat_set /\ "SIGN" \in m.permit
    <3>1. q = Req("SIGN") /\ q.type = "SIGN" /\ c'.out = <<>>
      BY <1>4, <2>3, Singles, ReqTyped DEF q
    <3>2. r = [m |-> [[m EXCEPT !.out = Append(@, "signature")] EXCEPT !.permit = @ \cup {"PWNAM"}], proof |-> <<>>]
      BY <2>3, <3>1 DEF r, Handle, mm_answer_sign, Plain, Permit, Answer
    <3>3. Append(m.out, "signature") = <<"signature">> /\ <<"signature">> \in Seq(Reply)
      BY <1>3, Singles DEF Reply
    <3>4. s = [m EXCEPT !.out = <<"signature">>, !.permit = (m.permit \cup {"PWNAM"}) \ {"SIGN"}]
      BY <1>1, <3>1, <3>2, <3>3 DEF s, Monitor_, MON_ONCE
    <3>5. (m.permit \cup {"PWNAM"}) \ {"SIGN"} \in SUBSET (ReqType \ {"KEYEXPORT"})
      BY <1>1 DEF Monitor_, ReqType, MON_ONCE
    <3>6. /\ s \in Monitor_ /\ s.phase = "preauth" /\ s.failures = 0 /\ s.out = <<"signature">>
          /\ s.permit = (m.permit \cup {"PWNAM"}) \ {"SIGN"} /\ s.compat_set = m.compat_set
          /\ s.prev_keys = m.prev_keys /\ s.attempt = m.attempt /\ s.force_command = m.force_command
      BY <1>1, <1>2, <2>1, <3>3, <3>4, <3>5 DEF Monitor_, Nameless
    <3>7. Alike(m', s) /\ m'.failures = s.failures
      <4>1. r.proof = <<>> /\ ~Unpermitted(m, q) /\ q.type \notin MON_AUTHDECIDE
        BY <2>3, <3>1, <3>2 DEF Unpermitted, MON_AUTHDECIDE
      <4>2. s.failures <= cf.max_authtries
        BY ONLY <1>1, <3>6
      <4>3. m' = IF s.phase = "fatal" THEN s ELSE Judge(s, q.type, <<>>)
        BY <1>6, <4>1
      <4> QED BY ONLY <1>1, <3>6, <4>1, <4>2, <4>3, EarlyTurn
    <3>8. Nameless' /\ Named' /\ Told("signature")'
      BY <1>4, <2>1, <2>3, <3>1, <3>6, <3>7 DEF Nameless, Named, Popped, Alike, Told
    <3>9. AtSign'
      BY <3>8 DEF AtSign
    <3> QED BY <1>3, <1>4, <1>10, <3>6, <3>7, <3>9, AgreeAt DEF Popped, Alike
  <2> QED BY <1>5, <2>1, <2>2, <2>3 DEF AtSign, AsksFor
<1>11. CASE c.pc = "pwnam"
  <2> DEFINE new == {"AUTHSERV", "READ_BANNER"}
             a == Said(cf.valid)
             l == auth2_setup_methods_lists
  <2>1. AtPwnam
    BY <1>11 DEF AgreeInv
  <2>2. /\ c.attempt > 0 /\ c.out = <<Req("PWNAM")>> /\ Named /\ c.prev_keys = {} /\ m.prev_keys = {} /\ m.failures = 0
        /\ m.attempt = 0
    BY <1>5, <2>1 DEF AtPwnam, AsksFor
  <2>3. q = Req("PWNAM") /\ q.type = "PWNAM" /\ c'.out = <<>>
    BY <1>4, <2>2, Singles, ReqTyped DEF q
  <2>4. a \in Reply /\ l \in Lists /\ cf.valid \in BOOLEAN
    BY <1>1, SetupLists DEF Said, Reply, Config
  <2>5. Append(m.out, a) = <<a>> /\ <<a>> \in Seq(Reply)
    BY <1>3, <2>4, Singles
  <2> HIDE DEF a, l
  <2>6. r.proof = <<>> /\ r.m = [[[m EXCEPT !.attempt = 1, !.valid = cf.valid, !.lists = l] EXCEPT !.out = Append(@, a)]
                                 EXCEPT !.permit = @ \cup (new \cup {})]
    BY <2>2, <2>3 DEF r, Handle, mm_answer_pwnamallow, Plain, Permit, Answer, Named, Straightforward, a, l
  <2>7. s = [m EXCEPT !.attempt = 1, !.valid = cf.valid, !.lists = l, !.out = <<a>>, !.permit = (m.permit \cup new) \ {"PWNAM"}]
    BY ZenonT(40), <1>1, <2>3, <2>5, <2>6 DEF s, Monitor_, MON_ONCE
  <2>8. (m.permit \cup new) \ {"PWNAM"} \in SUBSET (ReqType \ {"KEYEXPORT"})
    BY <1>1 DEF Monitor_, ReqType, MON_ONCE
  <2>9. /\ s \in Monitor_ /\ s.phase = "preauth" /\ s.failures = 0 /\ s.out = <<a>> /\ s.valid = cf.valid /\ s.lists = l
        /\ s.permit = (m.permit \cup new) \ {"PWNAM"} /\ s.prev_keys = {} /\ s.force_command = m.force_command
    BY <1>1, <1>2, <2>2, <2>4, <2>5, <2>7, <2>8 DEF Monitor_
  <2>10. Alike(m', s) /\ m'.failures = s.failures
    <3>1. ~Unpermitted(m, q) /\ q.type \notin MON_AUTHDECIDE
      BY <2>2, <2>3 DEF Unpermitted, MON_AUTHDECIDE, Named
    <3>2. s.failures <= cf.max_authtries
      BY ONLY <1>1, <2>9
    <3>3. m' = IF s.phase = "fatal" THEN s ELSE Judge(s, q.type, <<>>)
      BY <1>6, <2>6, <3>1
    <3> QED BY ONLY <1>1, <2>9, <3>1, <3>2, <3>3, EarlyTurn
  <2>11. SetUp' /\ new \subseteq m'.permit
    BY <1>2, <1>4, <2>2, <2>9, <2>10, ConfigKept DEF SetUp, Popped, Alike, l
  <2>12. Told(Said(cf.valid))' /\ c'.attempt > 0
    BY <1>2, <1>4, <2>2, <2>3, <2>9, <2>10 DEF Told, Alike, a, Said, Popped
  <2>13. AtPwnam'
    BY <2>11, <2>12 DEF AtPwnam
  <2> QED BY <1>3, <1>4, <1>11, <2>9, <2>10, <2>13, AgreeAt DEF Popped, Alike
<1>12. CASE c.pc = "banner"
  <2>1. c.attempt > 0 /\ SetUp /\ c.valid = cf.valid /\ m.failures = 0
    BY <1>12 DEF AgreeInv, AtBanner, SetUp
  <2>2. CASE c.out = <<Req("AUTHSERV"), Req("READ_BANNER")>> /\ {"AUTHSERV", "READ_BANNER"} \subseteq m.permit
    <3>1. q = Req("AUTHSERV") /\ q.type = "AUTHSERV" /\ c'.out = <<Req("READ_BANNER")>>
      BY <1>4, <2>2, Singles, ReqTyped DEF q
    <3>2. r = [m |-> [m EXCEPT !.permit = @ \cup MON_AUTH], proof |-> <<>>]
      BY <3>1 DEF r, Handle, mm_answer_authserv, Plain, Permit
    <3>3. s = [m EXCEPT !.permit = (m.permit \cup MON_AUTH) \ {"AUTHSERV"}]
      BY <1>1, <3>1, <3>2 DEF s, Monitor_, MON_ONCE
    <3>4. (m.permit \cup MON_AUTH) \ {"AUTHSERV"} \in SUBSET (ReqType \ {"KEYEXPORT"})
      BY <1>1 DEF Monitor_, ReqType, MON_ONCE, MON_AUTH, MON_AUTHDECIDE
    <3>5. /\ s \in Monitor_ /\ s.phase = "preauth" /\ s.failures = 0 /\ s.out = <<>>
          /\ s.permit = (m.permit \cup MON_AUTH) \ {"AUTHSERV"} /\ s.valid = m.valid /\ s.lists = m.lists
          /\ s.prev_keys = m.prev_keys /\ s.force_command = m.force_command
      BY <1>1, <1>2, <1>3, <2>1, <3>3, <3>4 DEF Monitor_
    <3>6. Alike(m', s) /\ m'.failures = s.failures
      <4>1. r.proof = <<>> /\ ~Unpermitted(m, q) /\ q.type \notin MON_AUTHDECIDE
        BY <2>2, <3>1, <3>2 DEF Unpermitted, MON_AUTHDECIDE
      <4>2. s.failures <= cf.max_authtries
        BY ONLY <1>1, <3>5
      <4>3. m' = IF s.phase = "fatal" THEN s ELSE Judge(s, q.type, <<>>)
        BY <1>6, <4>1
      <4> QED BY ONLY <1>1, <3>5, <4>1, <4>2, <4>3, EarlyTurn
    <3>7. SetUp' /\ c'.attempt > 0 /\ c'.valid = cf'.valid
      BY <1>2, <1>4, <2>1, <3>5, <3>6, ConfigKept DEF SetUp, Popped, Alike
    <3>8. "READ_BANNER" \in m'.permit /\ AuthPermitted'
      BY <2>2, <3>5, <3>6 DEF Alike, AuthPermitted, MON_AUTH, MON_AUTHDECIDE
    <3>9. AsksFor(Req("READ_BANNER"))'
      BY <3>1, <3>5, <3>6 DEF AsksFor, Req, Alike
    <3>10. AtBanner'
      BY <3>7, <3>8, <3>9 DEF AtBanner
    <3> QED BY <1>3, <1>4, <1>12, <3>5, <3>6, <3>10, AgreeAt DEF Popped, Alike
  <2>3. CASE c.out = <<Req("READ_BANNER")>> /\ "READ_BANNER" \in m.permit /\ AuthPermitted
    <3>1. q = Req("READ_BANNER") /\ q.type = "READ_BANNER" /\ c'.out = <<>>
      BY <1>4, <2>3, Singles, ReqTyped DEF q
    <3>2. r = [m |-> [m EXCEPT !.out = Append(@, "banner")], proof |-> <<>>]
      BY <3>1 DEF r, Handle, mm_answer_auth2_read_banner, Plain, Answer
    <3>3. Append(m.out, "banner") = <<"banner">> /\ <<"banner">> \in Seq(Reply)
      BY <1>3, Singles DEF Reply
    <3>4. s = [m EXCEPT !.out = <<"banner">>, !.permit = m.permit \ {"READ_BANNER"}]
      BY <1>1, <3>1, <3>2, <3>3 DEF s, Monitor_, MON_ONCE
    <3>5. m.permit \ {"READ_BANNER"} \in SUBSET (ReqType \ {"KEYEXPORT"})
      BY <1>1 DEF Monitor_
    <3>6. /\ s \in Monitor_ /\ s.phase = "preauth" /\ s.failures = 0 /\ s.out = <<"banner">>
          /\ s.permit = m.permit \ {"READ_BANNER"} /\ s.valid = m.valid /\ s.lists = m.lists
          /\ s.prev_keys = m.prev_keys /\ s.force_command = m.force_command
      BY <1>1, <1>2, <2>1, <3>3, <3>4, <3>5 DEF Monitor_
    <3>7. Alike(m', s) /\ m'.failures = s.failures
      <4>1. r.proof = <<>> /\ ~Unpermitted(m, q) /\ q.type \notin MON_AUTHDECIDE
        BY <2>3, <3>1, <3>2 DEF Unpermitted, MON_AUTHDECIDE
      <4>2. s.failures <= cf.max_authtries
        BY ONLY <1>1, <3>6
      <4>3. m' = IF s.phase = "fatal" THEN s ELSE Judge(s, q.type, <<>>)
        BY <1>6, <4>1
      <4> QED BY ONLY <1>1, <3>6, <4>1, <4>2, <4>3, EarlyTurn
    <3>8. SetUp' /\ c'.attempt > 0 /\ c'.valid = cf'.valid
      BY <1>2, <1>4, <2>1, <3>6, <3>7, ConfigKept DEF SetUp, Popped, Alike
    <3>9. AuthPermitted' /\ Told("banner")'
      BY <2>3, <3>1, <3>6, <3>7 DEF Alike, AuthPermitted, Told
    <3>10. AtBanner'
      BY <3>8, <3>9 DEF AtBanner
    <3> QED BY <1>3, <1>4, <1>12, <3>6, <3>7, <3>10, AgreeAt DEF Popped, Alike
  <2>4. AtBanner
    BY <1>12 DEF AgreeInv
  <2> QED BY <1>5, <2>2, <2>3, <2>4 DEF AtBanner, AsksFor
<1>13. CASE c.pc = "password"
  <2> DEFINE ok == auth_password(m, q.arg)
             s0 == [m EXCEPT !.called = TRUE, !.out = <<Said(ok)>>]
  <2>1. c.attempt > 0 /\ Candidate({"password"}) /\ AuthPermitted
    BY <1>13 DEF AgreeInv, AtPassword
  <2>2. c.out = <<PasswordReq>> /\ Level(0)
    BY <1>5, <1>13 DEF AgreeInv, AtPassword, AsksFor
  <2>3. q = PasswordReq /\ q.type = "AUTHPASSWORD" /\ c'.out = <<>>
    <3>1. PasswordReq.type = "AUTHPASSWORD"
      BY DEF PasswordReq, Req
    <3> QED BY <1>4, <2>2, <3>1, Singles DEF q
  <2>4. ok \in BOOLEAN /\ (ok => q.arg # "empty" /\ cf.valid)
    BY <2>2, <1>1 DEF auth_password, Straightforward, Level, Monitor_, PasswordRootOk
  <2>5. Append(m.out, Said(ok)) = <<Said(ok)>> /\ <<Said(ok)>> \in Seq(Reply)
    BY <1>3, Singles DEF Reply, Said
  <2>6. c.packet.method = "password" /\ Enabled("password") /\ auth2_method_allowed(c.lists, "password", "")
    BY <2>1 DEF Candidate
  <2> DEFINE method == IF q.arg = "empty" /\ ~m.called THEN "none" ELSE "password"
  <2>7. /\ r.m = [[m EXCEPT !.called = TRUE] EXCEPT !.out = Append(@, Said(ok))]
        /\ r.proof = IF ok THEN <<Proof(method, "", NoKey)>> ELSE <<>>
    BY <2>3, <2>6 DEF r, Handle, mm_answer_authpassword, Answer, Result
  <2> HIDE DEF ok
  <2>8. s = s0
    BY <1>1, <2>3, <2>5, <2>7 DEF s, Monitor_, MON_ONCE
  <2>9. /\ s \in Monitor_ /\ s.phase = "preauth" /\ s.failures = m.failures /\ s.out = <<Said(ok)>>
        /\ s.permit = m.permit /\ s.valid = cf.valid /\ s.lists = c.lists /\ s.prev_keys = c.prev_keys
        /\ s.force_command = ""
    BY <1>1, <1>2, <1>3, <2>2, <2>5, <2>8 DEF Monitor_, Level
  <2>10. m.failures < cf.max_authtries /\ m.failures <= c.failures
    <3>1. c.failures < cf.max_authtries /\ m.failures <= c.failures + 0
      BY <1>7, <1>13, <2>2 DEF Level, Asking
    <3> QED BY ONLY <1>1, <3>1
  <2>11. m' = Judge(s, q.type, r.proof) /\ q.type \in MON_AUTHDECIDE
    BY <1>6, <2>1, <2>3, <2>9 DEF Unpermitted, AuthPermitted, MON_AUTHDECIDE
  <2>12. CASE ~ok
    <3>1. m' = [[s EXCEPT !.failures = s.failures + 1] EXCEPT !.phase = "preauth"]
      <4>1. s.failures < cf.max_authtries
        BY <2>9, <2>10
      <4>2. m' = Judge(s, q.type, <<>>)
        BY <2>7, <2>11, <2>12
      <4> QED BY ONLY <1>1, <2>9, <2>11, <4>1, <4>2, JudgeNo
    <3>2. /\ m'.phase = "preauth" /\ m'.failures = m.failures + 1 /\ m'.out = <<"no">> /\ m'.permit = m.permit
          /\ m'.valid = cf.valid /\ m'.lists = c.lists /\ m'.prev_keys = c.prev_keys /\ m'.force_command = ""
      BY <2>9, <2>12, <3>1 DEF Monitor_, Said
    <3>3. m.failures + 1 <= c.failures + 1
      BY ONLY <1>1, <2>10
    <3>4. Level(1)' /\ Told("no")' /\ AuthPermitted'
      BY <1>4, <2>1, <2>2, <2>3, <3>2, <3>3 DEF Level, Told, AuthPermitted, Popped
    <3>5. Candidate({"password"})' /\ c'.attempt > 0
      BY <1>2, <1>4, <2>1, ConfigKept DEF Candidate, Popped
    <3>6. AtPassword'
      BY <3>4, <3>5 DEF AtPassword
    <3> QED BY <1>4, <1>13, <3>2, <3>6, AgreeAt DEF Popped
  <2>13. CASE ok
    <3> DEFINE u == auth2_update_methods_lists(c.lists, "password", "")
    <3>1. r.proof = <<Proof("password", "", NoKey)>>
      BY <2>4, <2>7, <2>13
    <3>2. s.failures <= cf.max_authtries /\ s.valid
      <4>1. s.failures <= cf.max_authtries
        <5>1. s.failures = m.failures /\ m.failures < cf.max_authtries
          BY <2>9, <2>10
        <5> QED BY ONLY <1>1, <5>1
      <4> QED BY <2>4, <2>9, <2>13, <4>1
    <3>3. NoSubs(s.lists) /\ auth2_method_allowed(s.lists, "password", "")
      BY <1>3, <2>6, <2>9
    <3>4. /\ m'.out = s.out /\ m'.prev_keys = s.prev_keys /\ m'.failures = s.failures /\ m'.valid = s.valid
          /\ m'.permit = s.permit /\ m'.force_command = s.force_command
          /\ m'.lists = (IF Configured THEN u.lists ELSE s.lists)
          /\ m'.phase = IF Configured /\ ~u.complete THEN "preauth" ELSE "export"
      <4>1. m' = Judge(s, q.type, <<Proof("password", "", NoKey)>>)
        BY <2>11, <3>1
      <4>2. s \in Monitor_ /\ q.type \in MON_AUTHDECIDE /\ s.lists = c.lists
        BY <2>9, <2>11
      <4>3. Granted(m', s, "password")
        BY ONLY Straightforward, <1>1, <3>2, <3>3, <4>1, <4>2, JudgeYes
      <4> QED BY <4>2, <4>3 DEF Granted
    <3> HIDE DEF u
    <3>5. Removed' = u /\ (Configured' <=> Configured)
      BY <1>2, <1>4, <2>6, ConfigKept DEF Removed, Popped, u
    <3>6. Accepted({})'
      BY <1>2, <1>4, <2>2, <2>4, <2>9, <2>10, <2>13, <3>4, <3>5 DEF Accepted, Popped, Level
    <3>7. Told("yes")' /\ AuthPermitted' /\ m'.phase # "fatal" /\ m'.force_command = ""
      BY <2>1, <2>3, <2>9, <2>13, <3>4 DEF Told, AuthPermitted, Said
    <3>8. Candidate({"password"})' /\ c'.attempt > 0
      BY <1>2, <1>4, <2>1, ConfigKept DEF Candidate, Popped
    <3>9. AtPassword'
      BY <3>6, <3>7, <3>8 DEF AtPassword
    <3> QED BY <1>4, <1>13, <3>7, <3>9, AgreeAt DEF Popped
  <2> QED BY <2>4, <2>12, <2>13
<1>14. CASE c.pc = "allowed"
  <2> DEFINE none == [kind |-> "", key |-> NoKey]
             allowed == /\ m.valid /\ Enabled(q.kind) /\ ~auth2_key_already_used(m, q.key)
                        /\ q.key \in cf.authorized
             b == IF allowed THEN [kind |-> q.kind, key |-> q.key] ELSE none
  <2>1. c.attempt > 0 /\ Candidate({"publickey", "hostbased"}) /\ AuthPermitted /\ Level(0)
    BY <1>14 DEF AgreeInv, AtAllowed
  <2>2. c.out = <<PubkeyReq(c.packet)>>
    BY <1>5, <1>14 DEF AgreeInv, AtAllowed, AsksFor
  <2>3. q = PubkeyReq(c.packet) /\ c'.out = <<>>
    BY <1>4, <2>2, Singles DEF q
  <2>4. q.type = "KEYALLOWED" /\ q.kind = c.packet.method /\ q.key = c.packet.key
    BY <2>3 DEF PubkeyReq
  <2>5. c.packet.method \in {"publickey", "hostbased"} /\ c.packet.key \in Keys
    BY <1>1, <2>1 DEF Candidate, Child_, PacketRec
  <2>6. b \in [kind : Kind, key : KeyOrNone] /\ (allowed => b = Blob /\ cf.valid)
    <3>1. Blob = [kind |-> q.kind, key |-> q.key] /\ (m.valid = cf.valid)
      BY <2>1, <2>4 DEF Blob, Level
    <3>2. q.kind \in Kind /\ q.key \in KeyOrNone /\ "" \in Kind /\ NoKey \in KeyOrNone
      BY <2>4, <2>5 DEF Kind, KeyOrNone, Method
    <3>3. [kind |-> q.kind, key |-> q.key] \in [kind : Kind, key : KeyOrNone] /\ none \in [kind : Kind, key : KeyOrNone]
      BY <3>2
    <3> QED BY <3>1, <3>3
  <2>7. Append(m.out, Said(allowed)) = <<Said(allowed)>> /\ <<Said(allowed)>> \in Seq(Reply)
    BY <1>3, Singles DEF Reply, Said
  <2>8. r.m = [[m EXCEPT !.key_blob = b] EXCEPT !.out = Append(@, Said(allowed))] /\ r.proof = <<>>
    BY <2>4 DEF r, Handle, mm_answer_keyallowed, Answer, Plain
  <2> HIDE DEF allowed, b
  <2>9. s = [m EXCEPT !.key_blob = b, !.out = <<Said(allowed)>>]
    BY <1>1, <2>4, <2>7, <2>8 DEF s, Monitor_, MON_ONCE
  <2>10. /\ s \in Monitor_ /\ s.phase = "preauth" /\ s.failures = m.failures /\ s.out = <<Said(allowed)>>
         /\ s.permit = m.permit /\ s.valid = m.valid /\ s.lists = m.lists /\ s.prev_keys = m.prev_keys
         /\ s.force_command = "" /\ s.key_blob = b
    BY <1>1, <1>2, <1>3, <2>6, <2>7, <2>9 DEF Monitor_
  <2>11. m.failures <= cf.max_authtries
    <3>1. c.failures < cf.max_authtries /\ m.failures <= c.failures + 0
      BY <1>7, <1>14, <2>1 DEF Level, Asking
    <3> QED BY ONLY <1>1, <3>1
  <2>12. Alike(m', s) /\ m'.failures = s.failures
    <3>1. ~Unpermitted(m, q) /\ q.type \notin MON_AUTHDECIDE
      BY <2>1, <2>4 DEF Unpermitted, AuthPermitted, MON_AUTHDECIDE
    <3>2. s.failures <= cf.max_authtries /\ s \in Monitor_ /\ s.phase = "preauth"
      BY <2>10, <2>11
    <3>3. m' = IF s.phase = "fatal" THEN s ELSE Judge(s, q.type, <<>>)
      BY <1>6, <2>8, <3>1
    <3> QED BY ONLY <1>1, <3>1, <3>2, <3>3, EarlyTurn
  <2>13. Level(0)' /\ AuthPermitted'
    BY <1>2, <1>4, <2>1, <2>10, <2>12 DEF Level, AuthPermitted, Alike, Popped
  <2>14. Candidate({"publickey", "hostbased"})' /\ c'.attempt > 0
    BY <1>2, <1>4, <2>1, ConfigKept DEF Candidate, Popped
  <2>15. Told("no")' \/ (Told("yes")' /\ m'.key_blob = Blob' /\ cf'.valid)
    BY <1>2, <1>4, <2>3, <2>6, <2>10, <2>12 DEF Told, Alike, Said, Blob, Popped
  <2>16. AtAllowed'
    BY <2>13, <2>14, <2>15 DEF AtAllowed
  <2> QED BY <1>3, <1>4, <1>14, <2>10, <2>12, <2>16, AgreeAt DEF Popped, Alike
<1>15. CASE c.pc = "verify"
  <2> DEFINE none == [kind |-> "", key |-> NoKey]
             k == c.packet.key
             ok == q.arg = "good"
             s0 == [m EXCEPT !.key_blob = none]
             s1 == auth2_record_key(s0, ok, k)
             s2 == IF ok /\ m.key_blob.kind = "publickey" THEN auth_activate_options(s1, k) ELSE s1
             keys == IF ok THEN m.prev_keys \cup {k} ELSE m.prev_keys
  <2>1. c.attempt > 0 /\ Candidate({"publickey", "hostbased"}) /\ AuthPermitted
    BY <1>15 DEF AgreeInv, AtVerify
  <2>2. c.out = <<VerifyReq>> /\ m.key_blob = Blob /\ Level(0) /\ cf.valid
    BY <1>5, <1>15 DEF AgreeInv, AtVerify, AsksFor
  <2>3. q = VerifyReq /\ c'.out = <<>>
    BY <1>4, <2>2, Singles DEF q
  <2>4. q.type = "KEYVERIFY" /\ q.key = k
    BY <2>3 DEF VerifyReq, PubkeyReq
  <2>5. /\ c.packet.method \in {"publickey", "hostbased"} /\ k \in Keys /\ Enabled(c.packet.method)
        /\ auth2_method_allowed(c.lists, c.packet.method, "")
    BY <1>1, <2>1 DEF Candidate, Child_, PacketRec
  <2>6. m.key_blob.key = k /\ m.key_blob.kind = c.packet.method /\ k # NoKey
    <3>1. k # NoKey
      BY <2>5, AuthAssumption
    <3>2. Blob.key = k /\ Blob.kind = c.packet.method
      BY DEF Blob
    <3> QED BY <2>2, <3>1, <3>2
  <2>7. Append(m.out, Said(ok)) = <<Said(ok)>> /\ <<Said(ok)>> \in Seq(Reply)
    BY <1>3, Singles DEF Reply, Said
  <2>8. r.m = [s2 EXCEPT !.out = Append(@, Said(ok))] /\ r.proof = IF ok THEN <<Proof(c.packet.method, "", k)>> ELSE <<>>
    BY <1>3, <2>4, <2>6 DEF r, Handle, mm_answer_keyverify, Answer, Result
  <2>9. s0 \in Monitor_ /\ s0.prev_keys = m.prev_keys /\ s0.force_command = "" /\ s0.out = <<>>
    BY <1>1, <1>3 DEF Monitor_, Kind, KeyOrNone
  <2>10. s1 = [s0 EXCEPT !.prev_keys = keys] /\ keys \in SUBSET KeyOrNone
    <3>1. keys \in SUBSET KeyOrNone
      BY <1>1, <2>5 DEF Monitor_, KeyOrNone
    <3> QED BY <2>9, <3>1 DEF auth2_record_key, Monitor_
  <2> HIDE DEF s0, keys
  <2>11. s1 \in Monitor_ /\ s1.force_command = ""
    BY ZenonT(40), <2>9, <2>10 DEF Monitor_
  <2>12. s2 = s1
    <3>1. cf.force[k] = ""
      BY <2>5 DEF Straightforward
    <3>2. auth_activate_options(s1, k) = s1
      BY <2>11, <3>1 DEF auth_activate_options, Monitor_
    <3> QED BY <3>2
  <2> HIDE DEF s1, s2, ok
  <2>13. r.m = [m EXCEPT !.key_blob = none, !.prev_keys = keys, !.out = <<Said(ok)>>]
    BY <1>1, <1>3, <2>7, <2>8, <2>10, <2>12 DEF s0, Monitor_
  <2>14. s = r.m
    BY <1>1, <2>4, <2>13 DEF s, Monitor_, MON_ONCE
  <2>15. /\ s \in Monitor_ /\ s.phase = "preauth" /\ s.failures = m.failures /\ s.out = <<Said(ok)>>
         /\ s.permit = m.permit /\ s.valid = cf.valid /\ s.lists = c.lists /\ s.prev_keys = keys
         /\ s.force_command = ""
    <3>1. none \in [kind : Kind, key : KeyOrNone]
      BY DEF Kind, KeyOrNone
    <3>2. m.valid = cf.valid /\ m.lists = c.lists
      BY <2>2 DEF Level
    <3> HIDE DEF none
    <3> QED BY ZenonT(40), <1>1, <1>2, <1>3, <2>7, <2>10, <2>13, <2>14, <3>1, <3>2 DEF Monitor_
  <2>16. m.failures < cf.max_authtries /\ m.failures <= c.failures
    <3>1. c.failures < cf.max_authtries /\ m.failures <= c.failures + 0
      BY <1>7, <1>15, <2>2 DEF Level, Asking
    <3> QED BY ONLY <1>1, <3>1
  <2>17. m' = Judge(s, q.type, r.proof) /\ q.type \in MON_AUTHDECIDE
    BY <1>6, <2>1, <2>4, <2>15 DEF Unpermitted, AuthPermitted, MON_AUTHDECIDE
  <2>18. Candidate({"publickey", "hostbased"})' /\ c'.attempt > 0
    BY <1>2, <1>4, <2>1, ConfigKept DEF Candidate, Popped
  <2>19. CASE ~ok
    <3>1. m' = [[s EXCEPT !.failures = s.failures + 1] EXCEPT !.phase = "preauth"]
      <4>1. s.failures < cf.max_authtries
        BY <2>15, <2>16
      <4>2. m' = Judge(s, q.type, <<>>)
        BY <2>8, <2>17, <2>19
      <4> QED BY ONLY <1>1, <2>15, <2>17, <4>1, <4>2, JudgeNo
    <3>2. /\ m'.phase = "preauth" /\ m'.failures = m.failures + 1 /\ m'.out = <<"no">> /\ m'.permit = m.permit
          /\ m'.valid = cf.valid /\ m'.lists = c.lists /\ m'.prev_keys = m.prev_keys /\ m'.force_command = ""
      BY <2>15, <2>19, <3>1 DEF Monitor_, Said, keys
    <3>3. m.failures + 1 <= c.failures + 1
      BY ONLY <1>1, <2>16
    <3>4. Level(1)' /\ Told("no")' /\ AuthPermitted'
      BY <1>2, <1>4, <2>1, <2>2, <2>3, <3>2, <3>3 DEF Level, Told, AuthPermitted, Popped
    <3>5. AtVerify'
      BY <2>18, <3>4 DEF AtVerify
    <3> QED BY <1>4, <1>15, <3>2, <3>5, AgreeAt DEF Popped
  <2>20. CASE ok
    <3> DEFINE method == c.packet.method
               u == auth2_update_methods_lists(c.lists, method, "")
    <3>1. s.failures <= cf.max_authtries /\ s.valid
      <4>1. s.failures = m.failures /\ m.failures < cf.max_authtries
        BY <2>15, <2>16
      <4>2. s.failures <= cf.max_authtries
        BY ONLY <1>1, <4>1
      <4> QED BY <2>2, <2>15, <4>2
    <3>2. NoSubs(s.lists) /\ auth2_method_allowed(s.lists, method, "")
      BY <1>3, <2>5, <2>15
    <3>3. /\ m'.out = s.out /\ m'.prev_keys = s.prev_keys /\ m'.failures = s.failures /\ m'.valid = s.valid
          /\ m'.permit = s.permit /\ m'.force_command = s.force_command
          /\ m'.lists = (IF Configured THEN u.lists ELSE s.lists)
          /\ m'.phase = IF Configured /\ ~u.complete THEN "preauth" ELSE "export"
      <4>1. m' = Judge(s, q.type, <<Proof(method, "", k)>>)
        BY <2>8, <2>17, <2>20
      <4>2. s \in Monitor_ /\ q.type \in MON_AUTHDECIDE /\ s.lists = c.lists
        BY <2>15, <2>17
      <4> HIDE DEF method, k
      <4>3. Granted(m', s, method)
        BY ONLY Straightforward, <1>1, <3>1, <3>2, <4>1, <4>2, JudgeYes
      <4> QED BY <4>2, <4>3 DEF Granted
    <3> HIDE DEF u
    <3>4. Removed' = u /\ (Configured' <=> Configured)
      BY <1>2, <1>4, ConfigKept DEF Removed, Popped, u
    <3>5. Accepted({c.packet.key})'
      BY <1>2, <1>4, <2>2, <2>15, <2>16, <2>20, <3>3, <3>4 DEF Accepted, Popped, Level, keys
    <3>6. Told("yes")' /\ AuthPermitted' /\ m'.phase # "fatal" /\ m'.force_command = ""
      BY <2>1, <2>3, <2>15, <2>20, <3>3 DEF Told, AuthPermitted, Said
    <3>7. AtVerify'
      BY <2>18, <3>5, <3>6 DEF AtVerify
    <3> QED BY <1>4, <1>15, <3>6, <3>7, AgreeAt DEF Popped
  <2> QED BY <2>19, <2>20
<1> QED BY <1>8, <1>9, <1>10, <1>11, <1>12, <1>13, <1>14, <1>15

\* Every step keeps the two in step.
LEMMA StepAgrees ==
    ASSUME IInv, AgreeInv, TypeInv', [Next]_vars
    PROVE  AgreeInv'
<1>1. cf' = cf
  BY DEF Next, Child, Monitor, ClientRequest, ClientResponse, ClientClose, ChildResume, ChildEOF, MonitorRead,
         MonitorAccount, mm_get_keystate, MonitorEOF, vars
<1>2. CASE ~Straightforward
  BY <1>1, <1>2, ConfigKept DEF AgreeInv
<1> SUFFICES ASSUME Straightforward PROVE AgreeInv'
  BY <1>2
<1>3. m.phase # "fatal" /\ m.force_command = "" /\ c.why = "" /\ ~c.kbd /\ c.force_command = "" /\ NoSubs(c.lists)
  BY DEF AgreeInv, NoSubs
<1>4. c \in Child_ /\ m \in Monitor_
  BY DEF IInv, TypeInv
<1>5. m.phase = "account" => c.out = <<>>
  BY DEF AgreeInv, AtState, AtSign, AtIdle, AtPwnam, AtBanner, AtPassword, AtAllowed, AtVerify, AtDone, AtGone,
         Nameless, SetUp, Level, Accepted
<1>6. Waiting /\ m.out = <<>> => Alive
  <2>1. Alive \/ c.pc \in {"idle", "done", "gone"} \/ m.phase = "post"
    BY DEF AgreeInv, AtState, AtSign, AtPwnam, AtBanner, AtPassword, AtAllowed, AtVerify,
           Nameless, SetUp, Level, Accepted, Alive
  <2>2. m.phase = "post" => c.pc \in {"done", "gone"}
    BY DEF AgreeInv, AtState, AtSign, AtPwnam, AtIdle, AtBanner, AtPassword, AtAllowed, AtVerify,
           Nameless, SetUp, Level, Accepted
  <2> QED BY <2>1, <2>2 DEF Waiting, Running
<1>7. ClientRequest \/ ClientResponse \/ ClientClose => AgreeInv'
  BY ClientAgrees
<1>8. ChildResume => AgreeInv'
  BY ResumeAgrees
<1>9. ~ChildEOF
  BY <1>6 DEF ChildEOF
<1>10. ASSUME NEW word \in PamWord, MonitorRead(word) PROVE AgreeInv'
  BY <1>10, ReadAgrees
<1>11. ~MonitorAccount
  BY <1>5 DEF MonitorAccount
<1>12. CASE mm_get_keystate
  <2>1. m.phase = "export" /\ c.out # <<>> /\ c' = [c EXCEPT !.out = Tail(@)]
    BY <1>12 DEF mm_get_keystate
  <2>2. m.out = <<>>
    BY <2>1 DEF IInv, PipeInv
  <2>3. c.pc = "done" /\ AtDone
    BY <2>1, <2>2 DEF AgreeInv, AtState, AtSign, AtPwnam, AtIdle, AtBanner, AtPassword, AtAllowed, AtVerify, AtGone,
           Nameless, SetUp, Level, Told
  <2>4. c.out = <<Req("KEYEXPORT")>>
    BY <2>1, <2>3 DEF AtDone
  <2>5. Head(c.out).type = "KEYEXPORT" /\ Tail(c.out) = <<>>
    BY <2>4, Singles, ReqTyped
  <2>6. m' = [m EXCEPT !.phase = "post"]
    BY <1>12, <2>5 DEF mm_get_keystate
  <2>7. Settled /\ c'.pc = "done" /\ c'.out = <<>>
    BY <1>3, <1>4, <2>1, <2>3, <2>5 DEF Settled, Child_
  <2>8. m'.phase = "post" /\ m'.out = <<>> /\ m'.force_command = ""
    BY <1>3, <1>4, <2>2, <2>6 DEF Monitor_
  <2>9. AtDone'
    BY <2>7, <2>8 DEF AtDone
  <2> QED BY <1>1, <2>7, <2>8, <2>9, AgreeAt
<1>13. CASE MonitorEOF
  <2>1. Alive /\ c.out = <<>> /\ c.pc \in {"gone", "done"} /\ c' = c /\ m' = [m EXCEPT !.phase = "exit"]
    BY <1>13 DEF MonitorEOF, Running
  <2>2. c.pc = "gone"
    <3>1. AtDone => m.phase = "post"
      BY <2>1 DEF AtDone
    <3>2. m.phase # "post"
      BY <2>1 DEF Alive
    <3> QED BY <2>1, <3>1, <3>2 DEF AgreeInv
  <2>3. Settled /\ AtGone' /\ m'.phase = "exit" /\ m'.force_command = ""
    BY <1>3, <1>4, <2>1 DEF Settled, AtGone, Monitor_
  <2> QED BY <1>1, <2>1, <2>2, <2>3, AgreeAt
<1>14. CASE UNCHANGED vars
  <2>1. c' = c /\ m' = m /\ Settled
    BY <1>3, <1>14 DEF vars, Settled
  <2>2. AtState => AtState'
    BY <2>1 DEF AtState, Nameless, AsksFor, Told, Req
  <2>3. AtSign => AtSign'
    BY <2>1 DEF AtSign, Nameless, Named, AsksFor, Told, Req
  <2>4. AtIdle => AtIdle'
    BY <1>1, <2>1 DEF AtIdle, Nameless, Named, Level, AuthPermitted
  <2>5. (SetUp => SetUp') /\ (AuthPermitted => AuthPermitted')
    BY <1>1, <2>1, ConfigKept DEF SetUp, AuthPermitted
  <2>6. AtPwnam => AtPwnam'
    BY <1>1, <2>1, <2>5 DEF AtPwnam, Named, AsksFor, Told, Req, Said
  <2>7. AtBanner => AtBanner'
    BY <1>1, <2>1, <2>5 DEF AtBanner, AsksFor, Told, Req
  <2>8. /\ \A methods : Candidate(methods) => Candidate(methods)'
        /\ Removed' = Removed /\ (Configured' <=> Configured)
    BY <1>1, <2>1, ConfigKept DEF Candidate, Removed
  <2>9. AtPassword => AtPassword'
    BY <1>1, <2>1, <2>5, <2>8 DEF AtPassword, AsksFor, Told, PasswordReq, Req, Level, Accepted
  <2>10. AtAllowed => AtAllowed'
    BY <1>1, <2>1, <2>5, <2>8 DEF AtAllowed, AsksFor, Told, PubkeyReq, Level, Blob
  <2>11. AtVerify => AtVerify'
    BY <1>1, <2>1, <2>5, <2>8 DEF AtVerify, AsksFor, Told, VerifyReq, PubkeyReq, Level, Accepted, Blob
  <2>12. (AtDone => AtDone') /\ (AtGone => AtGone')
    BY <2>1 DEF AtDone, AtGone, Req
  <2> QED BY <1>1, <1>3, <2>1, <2>2, <2>3, <2>4, <2>6, <2>7, <2>9, <2>10, <2>11, <2>12, AgreeAt DEF AgreeInv
<1> QED BY <1>7, <1>8, <1>9, <1>10, <1>11, <1>12, <1>13, <1>14 DEF Next, Child, Monitor

\* They start in step.
LEMMA InitAgrees == Init => AgreeInv
<1> SUFFICES ASSUME Init PROVE AgreeInv
  OBVIOUS
<1>1. /\ c.pc = "state" /\ c.attempt = 0 /\ c.prev_keys = {} /\ c.why = "" /\ ~c.kbd /\ c.force_command = ""
      /\ c.lists = NoLists /\ c.out = <<Req("STATE")>>
  BY DEF Init
<1>2. /\ m.phase = "preauth" /\ m.permit = {"STATE", "SETCOMPAT", "SIGN"} /\ m.attempt = 0 /\ m.failures = 0
      /\ m.prev_keys = {} /\ m.force_command = "" /\ m.out = <<>>
  BY DEF Init
<1>3. AtState
  BY <1>1, <1>2 DEF AtState, Nameless, AsksFor
<1>4. DOMAIN c.lists = {}
  BY <1>1 DEF NoLists
<1> QED BY <1>1, <1>2, <1>3, <1>4 DEF AgreeInv

\* ContextsAgree of Auth: for a user without root's rules, forced commands,
\* PAM, empty passwords and submethods, the monitor never gets a request it
\* does not permit or expect, no process meets what it takes for impossible,
\* and whenever both rest the lists that are left and the keys used are the
\* same in the two Authctxts and the monitor has counted no failure more.
THEOREM ContextsStayInStep == Spec => []ContextsAgree
<1>1. Init => IInv /\ AgreeInv
  BY InitInv, InitAgrees
<1>2. IInv /\ AgreeInv /\ [Next]_vars => (IInv /\ AgreeInv)'
  <2> SUFFICES ASSUME IInv, AgreeInv, [Next]_vars PROVE IInv' /\ AgreeInv'
    OBVIOUS
  <2>1. IInv'
    BY NextInv
  <2>2. TypeInv'
    BY <2>1 DEF IInv
  <2> QED BY <2>1, <2>2, StepAgrees
<1>3. IInv /\ AgreeInv => ContextsAgree
  <2> SUFFICES ASSUME IInv, AgreeInv, Straightforward,
                      c.pc = "idle" /\ m.phase = "preauth" /\ c.attempt > 0
               PROVE  c.lists = m.lists /\ c.prev_keys = m.prev_keys /\ m.failures <= c.failures
    BY DEF ContextsAgree, AgreeInv
  <2>1. c.attempt \in Nat /\ c.failures \in Nat /\ m.failures \in Nat
    BY DEF IInv, TypeInv, Child_, Monitor_
  <2>2. c.attempt # 0
    BY ONLY <2>1, c.pc = "idle" /\ m.phase = "preauth" /\ c.attempt > 0
  <2>3. Level(0)
    BY <2>2 DEF AgreeInv, AtIdle
  <2>4. c.lists = m.lists /\ c.prev_keys = m.prev_keys /\ m.failures <= c.failures + 0
    BY <2>3 DEF Level
  <2> QED BY ONLY <2>1, <2>4
<1> QED BY <1>1, <1>2, <1>3, PTL DEF Spec

=============================================================================
