-------------------------------- MODULE Auth --------------------------------
(***************************************************************************)
(* User authentication on the server: the unprivileged sshd-auth (auth2.c, *)
(* auth2-*.c, monitor_wrap.c) which reads the client's packets, and the    *)
(* privileged monitor in sshd-session (monitor.c) which it asks over a     *)
(* pipe.  Each keeps its own Authctxt: failures, what is left of the       *)
(* AuthenticationMethods lists, keys already used, options of the keys.    *)
(* The monitor alone decides whether a session starts, from the requests   *)
(* it sees; the client is told what sshd-auth believes.  GSSAPI and BSD    *)
(* authentication are left out; signatures, passwords, PAM and             *)
(* authorized_keys are facts of the configuration.                         *)
(***************************************************************************)
EXTENDS Integers, Sequences

CONSTANTS Keys,          \* public keys of users and hosts
          Configs,       \* the server configurations and users considered
          AttemptLimit   \* 1024 requests per connection

NoKey == "nokey"
Method == {"none", "password", "publickey", "hostbased", "kbdint"}

\* An entry of AuthenticationMethods: a method, with or without a submethod.
Entry == [method : Method, sub : STRING]

\* The options read here, and the user: the password, the authorized keys and
\* the command each forces, what PAM says of the account, whether the user
\* exists and is root, whether the service asked for is ssh-connection.
Config == [lists : Seq(Seq(Entry)), enabled : SUBSET Method, max_authtries : Nat,
           permit_empty_passwd : BOOLEAN, password : STRING, root : BOOLEAN, permit_root_login : STRING,
           pam : BOOLEAN, pam_account : BOOLEAN, valid : BOOLEAN, ssh_connection : BOOLEAN,
           authorized : SUBSET Keys, force : [Keys -> STRING]]

ASSUME AuthAssumption == /\ AttemptLimit \in Nat /\ NoKey \notin Keys
                         /\ \A x \in Configs : x \in Config

VARIABLES cf,    \* configuration, and the facts about the user who logs in
          c,     \* sshd-auth: Authctxt, where it is, and its pipe to the monitor
          m,     \* the monitor: Authctxt, permitted requests, answers
          proven,  \* what the monitor has verified, in order
          guesses  \* how many wrong passwords and signatures it has refused

vars == <<cf, c, m, proven, guesses>>

Proof(method, sub, key) == [method |-> method, sub |-> sub, key |-> key]

MON_ONCE == {"STATE", "SETCOMPAT", "SIGN", "PWNAM", "AUTHSERV", "READ_BANNER", "PAM_START",
             "PAM_INIT_CTX", "PAM_RESPOND", "PAM_FREE_CTX"}
MON_AUTHDECIDE == {"AUTHPASSWORD", "PAM_FREE_CTX", "KEYVERIFY"}
MON_AUTH == MON_AUTHDECIDE \cup {"KEYALLOWED"}

----------------------------------------------------------------------------
(* What both processes compute in the same way. *)

Configured == cf.lists # <<>>
Enabled(method) == method \in cf.enabled

list_starts_with(l, method, sub) ==
    IF l = <<>> \/ Head(l).method # method THEN "MATCH_NONE"
    ELSE IF Head(l).sub = "" THEN "MATCH_METHOD"
    ELSE IF sub = "" THEN "MATCH_PARTIAL"
    ELSE IF Head(l).sub = sub THEN "MATCH_BOTH" ELSE "MATCH_NONE"

Removable(l, method, sub) == list_starts_with(l, method, sub) \in {"MATCH_METHOD", "MATCH_BOTH"}

auth2_method_allowed(lists, method, sub) ==
    \/ ~Configured
    \/ \E i \in DOMAIN lists : list_starts_with(lists[i], method, sub) # "MATCH_NONE"

auth2_methods_valid(l) == \A i \in 1..Len(l) : Enabled(l[i].method) \/ l[i].method = "none"

\* The lists that may be used keep the places they have in the option.
NoLists == [i \in {} |-> <<>>]
auth2_setup_methods_lists ==
    [i \in {j \in DOMAIN cf.lists : auth2_methods_valid(cf.lists[j])} |-> cf.lists[i]]

AllListsShrink(lists, method, sub) ==
    [found |-> TRUE, complete |-> \E i \in DOMAIN lists : Len(lists[i]) = 1,
     lists |-> [i \in DOMAIN lists |-> Tail(lists[i])]]

\* Every list that starts with the method loses it, up to the first list
\* that is complete.
auth2_update_methods_lists(lists, method, sub) ==
    LET hits == {i \in DOMAIN lists : Removable(lists[i], method, sub)}
        full == {i \in hits : Len(lists[i]) = 1}
    IN  [found |-> hits # {}, complete |-> full # {},
         lists |-> [i \in DOMAIN lists |->
                       IF i \in hits /\ \A j \in full : i <= j THEN Tail(lists[i]) ELSE lists[i]]]

NeverUsed(p, k) == FALSE

auth2_key_already_used(p, k) == k \in p.prev_keys

auth2_record_key(p, authenticated, k) ==
    IF authenticated THEN [p EXCEPT !.prev_keys = @ \cup {k}] ELSE p

auth_root_allowed(p, method) ==
    \/ cf.permit_root_login = "yes"
    \/ cf.permit_root_login = "no_passwd" /\ method \in {"publickey", "hostbased"}
    \/ cf.permit_root_login = "forced" /\ p.force_command # ""

\* auth_root_allowed reads the options that a conflict has set to NULL.
RootCheckCrashes(p) == cf.root /\ cf.permit_root_login = "forced" /\ p.force_command = "NULL"

\* The forced commands of the keys used so far; "NULL" after a conflict,
\* because auth_activate_options has stored the failed result.
auth_activate_options(p, k) ==
    LET new == cf.force[k]
    IN  [p EXCEPT !.force_command =
            IF @ # "" /\ new # "" /\ @ # new THEN "NULL" ELSE IF @ = "" THEN new ELSE @]

----------------------------------------------------------------------------
(* sshd-auth.  A handler that asks the monitor is cut at the question.  *)

Ask(r, pc, requests) == [r EXCEPT !.pc = pc, !.out = @ \o requests]
Req(type) == [type |-> type, arg |-> "", key |-> NoKey, kind |-> ""]
Gone(r) == [r EXCEPT !.pc = "gone"]
Assertion(r, what) == [r EXCEPT !.pc = "gone", !.why = what]

NeverCounts(r, method, partial) == FALSE

CountsFailure(r, method, partial) == ~partial /\ (r.attempt > 1 \/ method # "none")

userauth_success(r) == [Ask(r, "done", <<Req("KEYEXPORT")>>) EXCEPT !.success = TRUE]

userauth_finish(r, authenticated, method, sub) ==
    LET ok == authenticated /\ (cf.root => auth_root_allowed(r, method))
        u == auth2_update_methods_lists(r.lists, method, sub)
        partial == ok /\ Configured /\ ~u.complete
        r1 == IF ok /\ Configured THEN [r EXCEPT !.lists = u.lists] ELSE r
        failures == r1.failures + (IF CountsFailure(r1, method, partial) THEN 1 ELSE 0)
    IN  IF authenticated /\ ~r.valid THEN Assertion(r, "authenticated invalid user")
        ELSE IF authenticated /\ RootCheckCrashes(r) THEN Gone(r)
        ELSE IF ok /\ Configured /\ ~u.found THEN Assertion(r, "method not in AuthenticationMethods")
        ELSE IF r.postponed THEN [r1 EXCEPT !.pc = "idle"]
        ELSE IF ok /\ ~partial
             THEN IF cf.pam THEN Ask(r1, "account", <<Req("PAM_ACCOUNT")>>) ELSE userauth_success(r1)
        ELSE IF failures >= cf.max_authtries THEN Gone([r1 EXCEPT !.failures = failures])
        ELSE [r1 EXCEPT !.failures = failures, !.pc = "idle"]

PubkeyReq(pk) == [type |-> "KEYALLOWED", arg |-> "", key |-> pk.key, kind |-> pk.method]

\* kbdint_next_device offers the pam device if the lists let it.
HasDevice(r) == cf.pam /\ auth2_method_allowed(r.lists, "kbdint", "pam")

authmethod_lookup(r, method) ==
    /\ IF method = "none" THEN r.none_enabled ELSE Enabled(method)
    /\ auth2_method_allowed(r.lists, method, "")

Refused(r) == userauth_finish(r, FALSE, r.packet.method, "")

userauth_none(r) ==
    LET r1 == [r EXCEPT !.none_enabled = FALSE]
    IN  IF cf.permit_empty_passwd /\ Enabled("password")
        THEN Ask(r1, "password", <<[Req("AUTHPASSWORD") EXCEPT !.arg = "empty"]>>)
        ELSE Refused(r1)

\* A request to change the password never reaches the monitor.
userauth_passwd(r) ==
    IF r.packet.pw = "change" THEN Refused(r)
    ELSE Ask(r, "password", <<[Req("AUTHPASSWORD") EXCEPT !.arg = r.packet.pw]>>)

userauth_pubkey(r) ==
    IF ~r.valid \/ auth2_key_already_used(r, r.packet.key) THEN Refused(r)
    ELSE Ask(r, "allowed", <<PubkeyReq(r.packet)>>)

userauth_hostbased(r) ==
    IF ~r.valid THEN Refused(r) ELSE Ask(r, "allowed", <<PubkeyReq(r.packet)>>)

userauth_kbdint(r) ==
    IF HasDevice(r) THEN Ask(r, "init", <<Req("PAM_INIT_CTX")>>) ELSE Refused(r)

\* input_userauth_request from "try to authenticate user" on.
Try(r0) ==
    LET method == r0.packet.method
        r == [r0 EXCEPT !.postponed = FALSE]
    IN  IF ~authmethod_lookup(r, method) \/ r.failures >= cf.max_authtries THEN Refused(r)
        ELSE CASE method = "none"      -> userauth_none(r)
               [] method = "password"  -> userauth_passwd(r)
               [] method = "publickey" -> userauth_pubkey(r)
               [] method = "hostbased" -> userauth_hostbased(r)
               [] method = "kbdint"    -> userauth_kbdint(r)

\* auth2_challenge_stop: a conversation that is still open is given up.
auth2_challenge_stop(r, pc) ==
    IF r.kbd THEN Ask([r EXCEPT !.kbd = FALSE], pc, <<Req("PAM_FREE_CTX")>>) ELSE [r EXCEPT !.pc = pc]

input_userauth_request(r, pk) ==
    LET r1 == [r EXCEPT !.attempt = @ + 1, !.packet = pk]
    IN  IF r.attempt >= AttemptLimit THEN Gone(r)
        ELSE IF r.attempt = 0 THEN Ask(r1, "pwnam", <<Req("PWNAM")>>)
        ELSE IF pk.user # "same" THEN Gone(r)
        ELSE IF r.kbd THEN auth2_challenge_stop(r1, "stopping") ELSE Try(r1)

\* The answer to the PWNAM request, then the one to READ_BANNER.
mm_getpwnamallow(r) ==
    Ask([r EXCEPT !.valid = cf.valid /\ cf.ssh_connection], "banner", (IF cf.pam THEN <<Req("PAM_START")>> ELSE <<>>)
                     \o <<Req("AUTHSERV"), Req("READ_BANNER")>>)

SetupDone(r) ==
    IF Configured /\ DOMAIN auth2_setup_methods_lists = {} THEN Gone(r)
    ELSE Try([r EXCEPT !.lists = auth2_setup_methods_lists])

mm_auth_password(r, ans) ==
    userauth_finish(r, ans = "yes", r.packet.method, "")

\* userauth_pubkey and userauth_hostbased after mm_key_allowed.
KeyAllowed(r, ans) ==
    LET pk == r.packet
    IN  IF ans = "no" THEN userauth_finish(r, FALSE, pk.method, "")
        ELSE IF pk.sig = "none" THEN userauth_finish([r EXCEPT !.postponed = TRUE], FALSE, pk.method, "")
        ELSE Ask(r, "verify", <<[PubkeyReq(pk) EXCEPT !.type = "KEYVERIFY", !.arg = pk.sig]>>)

KeyNotRecorded(r, ans) == userauth_finish(r, ans = "yes", r.packet.method, "")

mm_sshkey_verify(r, ans) ==
    LET pk == r.packet
        ok == ans = "yes"
        r1 == auth2_record_key(r, ok, pk.key)
        r2 == IF ok /\ pk.method = "publickey" THEN auth_activate_options(r1, pk.key) ELSE r1
    IN  IF r.force_command = "NULL" /\ ok /\ pk.method = "publickey" THEN Gone(r)  \* no options to merge with
        ELSE userauth_finish(r2, ok /\ (pk.method = "publickey" => r2.force_command # "NULL"), pk.method, "")

mm_sshpam_init_ctx(r, ans) ==
    IF ans = "no" THEN userauth_finish(r, FALSE, "kbdint", "")
    ELSE Ask([r EXCEPT !.kbd = TRUE], "query", <<Req("PAM_QUERY")>>)

\* send_userauth_info_request.  When PAM fails at the first question the
\* request fails; when it fails later there is no other device to go on to.
mm_sshpam_query(r, ans) ==
    IF ans # "error" THEN [r EXCEPT !.nreq = IF ans = "prompt" THEN 1 ELSE 0, !.postponed = TRUE, !.pc = "idle"]
    ELSE auth2_challenge_stop(r, "refused")

input_userauth_info_response(r, resp) ==
    LET n == IF resp = "nothing" THEN 0 ELSE 1
        r1 == [r EXCEPT !.postponed = FALSE]
    IN  IF ~r.kbd \/ n # r.nreq THEN Gone(r)
        ELSE Ask(r1, "respond", <<[Req("PAM_RESPOND") EXCEPT !.arg = resp]>>)

mm_sshpam_respond(r, ans) ==
    CASE ans = "ok" -> auth2_challenge_stop(r, IF r.valid THEN "accepted" ELSE "refused")
      [] ans = "again" -> Ask(r, "query", <<Req("PAM_QUERY")>>)
      [] ans = "error" -> auth2_challenge_stop(r, "refused")

mm_do_pam_account(r, ans) == IF ans = "yes" THEN userauth_success(r) ELSE Gone(r)

\* How sshd-auth goes on with the answer it waited for.
Resume(r, ans) ==
    CASE r.pc = "state"    -> Ask(r, "sign", <<Req("SETCOMPAT"), Req("SIGN")>>)
      [] r.pc = "sign"     -> [r EXCEPT !.pc = "idle"]
      [] r.pc = "pwnam"    -> mm_getpwnamallow(r)
      [] r.pc = "banner"   -> SetupDone(r)
      [] r.pc = "password" -> mm_auth_password(r, ans)
      [] r.pc = "allowed"  -> KeyAllowed(r, ans)
      [] r.pc = "verify"   -> mm_sshkey_verify(r, ans)
      [] r.pc = "init"     -> mm_sshpam_init_ctx(r, ans)
      [] r.pc = "query"    -> mm_sshpam_query(r, ans)
      [] r.pc = "respond"  -> mm_sshpam_respond(r, ans)
      [] r.pc = "stopping" -> Try(r)
      [] r.pc = "accepted" -> userauth_finish(r, TRUE, "kbdint", "pam")
      [] r.pc = "refused"  -> userauth_finish(r, FALSE, "kbdint", "pam")
      [] r.pc = "account"  -> mm_do_pam_account(r, ans)

----------------------------------------------------------------------------
(* The monitor.  A handler returns its state, and what it verified or <<>>. *)

Fatal(s, what) == [s EXCEPT !.phase = "fatal", !.why = what]
Permit(s, types) == [s EXCEPT !.permit = @ \cup types]
Answer(s, a) == [s EXCEPT !.out = Append(@, a)]
Said(b) == IF b THEN "yes" ELSE "no"
Plain(s) == [m |-> s, proof |-> <<>>]
Result(s, ok, proof) == [m |-> s, proof |-> IF ok THEN <<proof>> ELSE <<>>]

mm_answer_state(s) == Plain(Answer(s, "state"))
mm_answer_setcompat(s) == Plain([s EXCEPT !.compat_set = TRUE])

mm_answer_sign(s) ==
    IF ~s.compat_set THEN Plain(Fatal(s, "state error"))
    ELSE Plain(Permit(Answer(s, "signature"), {"PWNAM"}))

mm_answer_pwnamallow(s) ==
    IF ~s.compat_set THEN Plain(Fatal(s, "state error"))
    ELSE IF s.attempt # 0 THEN Plain(Fatal(s, "multiple attempts"))
    ELSE Plain(Permit(Answer([s EXCEPT !.attempt = 1, !.valid = cf.valid,
                                       !.lists = auth2_setup_methods_lists], Said(cf.valid)),
                      {"AUTHSERV", "READ_BANNER"} \cup (IF cf.pam THEN {"PAM_START"} ELSE {})))

mm_answer_authserv(s) == Plain(Permit(s, MON_AUTH))
mm_answer_auth2_read_banner(s) == Plain(Answer(s, "banner"))

PasswordRootOk == cf.root => cf.permit_root_login = "yes"

auth_password(s, pw) ==
    /\ s.valid /\ PasswordRootOk
    /\ pw = "empty" => cf.permit_empty_passwd
    /\ pw = cf.password

\* An empty password in the first request is taken for method "none".
mm_answer_authpassword(s, q) ==
    LET ok == auth_password(s, q.arg)
        method == IF q.arg = "empty" /\ ~s.called THEN "none" ELSE "password"
    IN  IF ~Enabled("password") THEN Plain(Fatal(s, "password authentication not enabled"))
        ELSE Result(Answer([s EXCEPT !.called = TRUE], Said(ok)), ok, Proof(method, "", NoKey))

mm_answer_pam_start(s) ==
    Plain(Permit(s, {"PAM_ACCOUNT"} \cup (IF Enabled("kbdint") THEN {"PAM_INIT_CTX"} ELSE {})))

mm_answer_pam_account(s) == Answer(s, Said(cf.pam_account))

\* What the PAM thread may say next; "error" also when it cannot be started.
PamWord == {"text", "prompt", "granted", "error"}

mm_answer_pam_init_ctx(s, word) ==
    IF s.ctxt # "none" THEN Plain(Fatal(s, "already called"))
    ELSE IF word = "error" THEN Plain(Answer([s EXCEPT !.authok = FALSE], "no"))
    ELSE Plain(Permit(Answer([s EXCEPT !.ctxt = "asking", !.told = "nothing", !.authok = FALSE], "yes"),
                      {"PAM_FREE_CTX", "PAM_QUERY"}))

\* sshpam_query waits for the PAM thread, which shows a text, asks (again)
\* for a password, or has decided; it grants nothing before it was told the
\* right one.  pam_done is the context's state.
mm_answer_pam_query(s, word) ==
    LET said == IF s.ctxt \notin {"asking", "Again"} \/ (word = "granted" /\ s.told # "good") THEN "error"
                ELSE word
        s1 == [s EXCEPT !.ctxt = CASE said = "text" -> "Again" [] said = "prompt" -> "prompted"
                                   [] said = "granted" -> "Authenticated" [] OTHER -> "Error",
                        !.authok = said = "granted"]
    IN  IF s.ctxt = "none" THEN Plain(Fatal(s, "no context"))
        ELSE Plain(Permit(Answer(s1, said), {"PAM_RESPOND"}))

\* The PAM thread gets a wrong password instead of the one for a user who
\* may not log in.
mm_answer_pam_respond(s, q) ==
    LET good == q.arg = cf.password /\ s.valid /\ PasswordRootOk
        said == CASE s.ctxt = "Authenticated" -> "ok" [] s.ctxt = "Again" -> "again"
                  [] s.ctxt = "prompted" -> IF q.arg = "nothing" THEN "error" ELSE "again"
                  [] OTHER -> "error"
        s1 == [s EXCEPT !.authok = said = "ok",
                        !.ctxt = IF @ = "prompted" /\ said = "again" THEN "asking" ELSE @,
                        !.told = IF s.ctxt = "prompted" /\ said = "again" THEN (IF good THEN "good" ELSE "bad") ELSE @]
    IN  IF s.ctxt = "none" THEN Plain(Fatal(s, "no context")) ELSE Plain(Answer(s1, said))

\* A conversation that ends although PAM has not decided on a wrong password.
GivenUp(s) == s.ctxt \notin {"none", "Error"} /\ s.told = "bad"

FreeUnanswered(s) == Result(Permit([s EXCEPT !.ctxt = "none"], {"PAM_INIT_CTX"}), s.authok, Proof("kbdint", "pam", NoKey))

mm_answer_pam_free_ctx(s) ==
    IF s.ctxt = "none" THEN Plain(Fatal(s, "no context"))
    ELSE Result(Permit(Answer([s EXCEPT !.ctxt = "none", !.authok = FALSE,
                                        !.given_up = @ + (IF GivenUp(s) THEN 1 ELSE 0)], "freed"), {"PAM_INIT_CTX"}),
                s.authok, Proof("kbdint", "pam", NoKey))

mm_answer_keyallowed(s, q) ==
    LET allowed == /\ s.valid /\ Enabled(q.kind)
                   /\ ~auth2_key_already_used(s, q.key)
                   /\ q.key \in cf.authorized
    IN  Plain(Answer([s EXCEPT !.key_blob = IF allowed THEN [kind |-> q.kind, key |-> q.key]
                                            ELSE [kind |-> "", key |-> NoKey]], Said(allowed)))

mm_answer_keyverify(s, q) ==
    LET ok == q.arg = "good"
        s1 == auth2_record_key([s EXCEPT !.key_blob = [kind |-> "", key |-> NoKey]], ok, q.key)
        s2 == IF ok /\ s.key_blob.kind = "publickey" THEN auth_activate_options(s1, q.key) ELSE s1
    IN  IF s.key_blob.key = NoKey \/ s.key_blob.key # q.key THEN Plain(Fatal(s, "bad key, not previously allowed"))
        ELSE IF ok /\ s.key_blob.kind = "publickey" /\ s.force_command = "NULL" THEN Plain(Fatal(s, "crash"))
        ELSE Result(Answer(s2, Said(ok)), ok, Proof(s.key_blob.kind, "", q.key))

Handle(s, q, word) ==
    CASE q.type = "STATE"        -> mm_answer_state(s)
      [] q.type = "SETCOMPAT"    -> mm_answer_setcompat(s)
      [] q.type = "SIGN"         -> mm_answer_sign(s)
      [] q.type = "PWNAM"        -> mm_answer_pwnamallow(s)
      [] q.type = "AUTHSERV"     -> mm_answer_authserv(s)
      [] q.type = "READ_BANNER"  -> mm_answer_auth2_read_banner(s)
      [] q.type = "AUTHPASSWORD" -> mm_answer_authpassword(s, q)
      [] q.type = "PAM_START"    -> mm_answer_pam_start(s)
      [] q.type = "PAM_ACCOUNT"  -> Result(mm_answer_pam_account(s), cf.pam_account, Proof("unknown", "", NoKey))
      [] q.type = "PAM_INIT_CTX" -> mm_answer_pam_init_ctx(s, word)
      [] q.type = "PAM_QUERY"    -> mm_answer_pam_query(s, word)
      [] q.type = "PAM_RESPOND"  -> mm_answer_pam_respond(s, q)
      [] q.type = "PAM_FREE_CTX" -> mm_answer_pam_free_ctx(s)
      [] q.type = "KEYALLOWED"   -> mm_answer_keyallowed(s, q)
      [] q.type = "KEYVERIFY"    -> mm_answer_keyverify(s, q)

\* The end of one turn of monitor_child_preauth.
Decide(s, type, authenticated, partial) ==
    LET s1 == IF type \in MON_AUTHDECIDE /\ ~partial /\ ~authenticated
              THEN [s EXCEPT !.failures = @ + 1] ELSE s
    IN  IF s1.failures > cf.max_authtries THEN Fatal(s1, "too many authentication attempts")
        ELSE IF ~authenticated THEN [s1 EXCEPT !.phase = "preauth"]
        ELSE IF ~s1.valid THEN Fatal(s1, "authenticated invalid user")
        ELSE [s1 EXCEPT !.phase = "export"]

\* The first part of the turn, after monitor_read has returned 1 or 0.
Judge(s, type, proof) ==
    LET u == auth2_update_methods_lists(s.lists, proof[1].method, proof[1].sub)
        s1 == IF Configured THEN [s EXCEPT !.lists = u.lists] ELSE s
        partial == Configured /\ ~u.complete
        ok == ~partial /\ (cf.root => auth_root_allowed(s, proof[1].method))
    IN  IF proof = <<>> THEN Decide(s, type, FALSE, FALSE)
        ELSE IF Configured /\ ~u.found THEN Fatal(s, "method not in AuthenticationMethods")
        ELSE IF ~partial /\ type \notin MON_AUTHDECIDE THEN Fatal(s, "unexpected authentication")
        ELSE IF ~partial /\ RootCheckCrashes(s) THEN Fatal(s, "crash")
        ELSE IF ok /\ cf.pam THEN [s1 EXCEPT !.phase = "account", !.pending = type]
        ELSE Decide(s1, type, ok, partial)

Unpermitted(s, q) == q.type \notin s.permit

----------------------------------------------------------------------------
Packet ==
    [method : {"none", "kbdint"}, user : {"same"}, pw : {""}, key : {NoKey}, sig : {"none"}]
    \cup [method : {"none"}, user : {"other"}, pw : {""}, key : {NoKey}, sig : {"none"}]
    \cup [method : {"password"}, user : {"same"}, pw : {"good", "bad", "empty", "change"}, key : {NoKey}, sig : {"none"}]
    \cup [method : {"publickey"}, user : {"same"}, pw : {""}, key : Keys, sig : {"none", "good", "bad"}]
    \cup [method : {"hostbased"}, user : {"same"}, pw : {""}, key : Keys, sig : {"good", "bad"}]

Init ==
    /\ cf \in Configs
    /\ c = [pc |-> "state", attempt |-> 0, failures |-> 0, lists |-> NoLists, prev_keys |-> {},
            none_enabled |-> TRUE, kbd |-> FALSE, nreq |-> 0, postponed |-> FALSE, valid |-> FALSE,
            force_command |-> "", packet |-> CHOOSE p \in Packet : p.method = "none" /\ p.user = "same",
            success |-> FALSE, why |-> "", out |-> <<Req("STATE")>>]
    /\ m = [phase |-> "preauth", why |-> "", permit |-> {"STATE", "SETCOMPAT", "SIGN"}, compat_set |-> FALSE,
            attempt |-> 0, valid |-> FALSE, failures |-> 0, lists |-> NoLists, prev_keys |-> {}, called |-> FALSE,
            ctxt |-> "none", told |-> "nothing", given_up |-> 0, authok |-> FALSE, key_blob |-> [kind |-> "", key |-> NoKey],
            force_command |-> "", pending |-> "", out |-> <<>>]
    /\ proven = <<>> /\ guesses = 0

Running == c.pc \notin {"gone", "done"}
Waiting == Running /\ c.pc # "idle"
Alive == m.phase \in {"preauth", "account", "export"}

ClientRequest ==
    /\ c.pc = "idle"
    /\ \E pk \in Packet : c' = input_userauth_request(c, pk)
    /\ UNCHANGED <<cf, m, proven, guesses>>

ClientResponse ==
    /\ c.pc = "idle"
    /\ \E resp \in {"nothing", "good", "bad", "empty"} : c' = input_userauth_info_response(c, resp)
    /\ UNCHANGED <<cf, m, proven, guesses>>

ClientClose ==
    /\ c.pc = "idle"
    /\ c' = Gone(c)
    /\ UNCHANGED <<cf, m, proven, guesses>>

\* mm_request_receive in sshd-auth returns the answer, or the pipe is closed.
ChildResume ==
    /\ Waiting /\ m.out # <<>>
    /\ c' = Resume(c, Head(m.out))
    /\ m' = [m EXCEPT !.out = Tail(@)]
    /\ UNCHANGED <<cf, proven, guesses>>

ChildEOF ==
    /\ Waiting /\ m.out = <<>> /\ ~Alive
    /\ c' = Gone(c)
    /\ UNCHANGED <<cf, m, proven, guesses>>

\* A wrong password or signature, or a conversation PAM has ended because of one.
Wrong(s, q, r) ==
    \/ q.type \in {"AUTHPASSWORD", "KEYVERIFY"} /\ r.m.phase # "fatal" /\ r.proof = <<>>
    \/ q.type = "PAM_FREE_CTX" /\ s.ctxt = "Error" /\ s.told = "bad"

MonitorRead(word) ==
    LET q == Head(c.out)
        r == Handle(m, q, word)
        s == [r.m EXCEPT !.permit = IF q.type \in MON_ONCE THEN @ \ {q.type} ELSE @]
    IN  /\ m.phase = "preauth" /\ c.out # <<>>
        /\ c' = [c EXCEPT !.out = Tail(@)]
        /\ IF Unpermitted(m, q)
           THEN m' = Fatal(m, "unpermitted request") /\ UNCHANGED <<proven, guesses>>
           ELSE /\ m' = IF s.phase = "fatal" THEN s ELSE Judge(s, q.type, r.proof)
                /\ proven' = proven \o r.proof
                /\ guesses' = IF Wrong(m, q, r) THEN guesses + 1 ELSE guesses
        /\ UNCHANGED cf

MonitorAccount ==
    /\ m.phase = "account" /\ c.out # <<>>
    /\ c' = [c EXCEPT !.out = Tail(@)]
    /\ m' = IF Head(c.out).type = "PAM_ACCOUNT"
            THEN Decide(mm_answer_pam_account(m), m.pending, cf.pam_account, FALSE)
            ELSE Fatal(m, "read unexpected type")
    /\ UNCHANGED <<cf, proven, guesses>>

mm_get_keystate ==
    /\ m.phase = "export" /\ c.out # <<>>
    /\ c' = [c EXCEPT !.out = Tail(@)]
    /\ m' = IF Head(c.out).type = "KEYEXPORT" THEN [m EXCEPT !.phase = "post"]
            ELSE Fatal(m, "read unexpected type")
    /\ UNCHANGED <<cf, proven, guesses>>

MonitorEOF ==
    /\ Alive /\ c.out = <<>> /\ ~Running
    /\ m' = [m EXCEPT !.phase = "exit"]
    /\ UNCHANGED <<cf, c, proven, guesses>>

Monitor == (\E word \in PamWord : MonitorRead(word)) \/ MonitorAccount \/ mm_get_keystate \/ MonitorEOF
Child == ChildResume \/ ChildEOF
Next == ClientRequest \/ ClientResponse \/ ClientClose \/ Child \/ Monitor

\* Both processes run; the client need not.
Fairness == WF_vars(Child) /\ WF_vars(Monitor)
Spec == Init /\ [][Next]_vars /\ Fairness

----------------------------------------------------------------------------
\* The methods of list l were verified one after the other, perhaps with
\* others in between.
Satisfied(l) ==
    \E f \in [1..Len(l) -> 1..Len(proven)] :
        /\ \A i, j \in 1..Len(l) : i < j => f[i] < f[j]
        /\ \A i \in 1..Len(l) : /\ proven[f[i]].method = l[i].method
                                /\ l[i].sub # "" => proven[f[i]].sub = l[i].sub

\* A session starts (mm_get_keystate returned) only for a user who exists
\* and may log in, after every method of one configured list was verified by
\* the monitor in the order of the list, or any one method when none is
\* configured; and sshd-auth had come to the same conclusion.
SessionJustified ==
    m.phase = "post" =>
        /\ cf.valid /\ c.success
        /\ cf.pam => cf.pam_account
        /\ cf.root => auth_root_allowed(m, proven[Len(proven)].method)
        /\ IF Configured THEN \E i \in 1..Len(cf.lists) : auth2_methods_valid(cf.lists[i]) /\ Satisfied(cf.lists[i])
           ELSE proven # <<>>

\* auth2_key_already_used: one key never counts twice, although sshd-auth
\* and the monitor each keep their own record of the keys used and
\* hostbased authentication asks only the monitor's.
KeysCountOnce ==
    \A i, j \in 1..Len(proven) :
        i # j /\ proven[i].key # NoKey => proven[i].key # proven[j].key

\* MaxAuthTries bounds the wrong passwords and signatures, and the PAM
\* conversations that fail on a wrong password, whatever the mixture; the
\* initial "none" may cost one more when it tries the empty password.  A
\* conversation that the client leaves before PAM has decided is a failure
\* for the monitor only, which admits one more than MaxAuthTries with them.
GuessesBounded ==
    /\ guesses <= cf.max_authtries + (IF cf.permit_empty_passwd THEN 1 ELSE 0)
    /\ guesses + m.given_up <= cf.max_authtries + 1

\* Neither root nor forced commands, PAM, empty passwords, submethods (which
\* only PAM has) or another service.
Straightforward ==
    /\ ~cf.root /\ ~cf.pam /\ ~cf.permit_empty_passwd /\ cf.ssh_connection
    /\ \A k \in Keys : cf.force[k] = ""
    /\ \A i \in 1..Len(cf.lists) : \A j \in 1..Len(cf.lists[i]) : cf.lists[i][j].sub = ""

\* For straightforward users the monitor never meets a request it does not
\* permit or expect, neither process a condition it takes for impossible, and
\* whenever both rest the two Authctxts say the same; the monitor counts no
\* failure that sshd-auth does not.
ContextsAgree ==
    Straightforward =>
        /\ m.phase # "fatal" /\ c.why = ""
        /\ c.pc = "idle" /\ m.phase = "preauth" /\ c.attempt > 0 =>
             /\ c.lists = m.lists /\ c.prev_keys = m.prev_keys
             /\ m.failures <= c.failures

\* Every request is answered or the connection ends: sshd-auth and the
\* monitor never wait for each other.
RequestsAnswered == Waiting ~> ~Waiting
=============================================================================
