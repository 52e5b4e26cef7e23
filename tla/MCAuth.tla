------------------------------- MODULE MCAuth -------------------------------
(* Instances of Auth for TLC: sets of configurations. *)
EXTENDS Auth

Item(method) == [method |-> method, sub |-> ""]
PamItem == [method |-> "kbdint", sub |-> "pam"]

Base == [lists |-> <<>>, enabled |-> {"password", "publickey"}, max_authtries |-> 2,
         permit_empty_passwd |-> FALSE, password |-> "good", root |-> FALSE, permit_root_login |-> "yes",
         pam |-> FALSE, pam_account |-> TRUE, valid |-> TRUE, ssh_connection |-> TRUE,
         authorized |-> Keys, force |-> [k \in Keys |-> ""]]

PubkeyPassword == <<Item("publickey"), Item("password")>>
TwoKeys == <<Item("publickey"), Item("publickey")>>
PasswordPubkey == <<Item("password"), Item("publickey")>>
HostThenKey == <<Item("hostbased"), Item("publickey")>>

\* An ordinary user, or none, perhaps with one authorized key only, with and without required lists.
Ordinary ==
    {[Base EXCEPT !.lists = l, !.valid = v] :
        l \in {<<>>, <<PubkeyPassword>>, <<TwoKeys, PasswordPubkey>>, <<PubkeyPassword, PasswordPubkey>>},
        v \in BOOLEAN}
    \cup {[Base EXCEPT !.lists = l, !.enabled = @ \cup {"hostbased"}] : l \in {<<>>, <<HostThenKey>>}}
    \cup {[Base EXCEPT !.lists = l, !.authorized = {CHOOSE k \in Keys : TRUE}] : l \in {<<>>, <<TwoKeys>>}}

\* Root under each PermitRootLogin, keys with forced commands, PAM with
\* abandoned conversations, empty passwords, other services.
Commands == [Keys -> {"", "cmd"}] \cup [Keys -> {"cmd", "other"}]
Users ==
    Ordinary \cup
    {[Base EXCEPT !.lists = l, !.root = TRUE, !.permit_root_login = p, !.force = f] :
        l \in {<<>>, <<PubkeyPassword, TwoKeys>>}, p \in {"no", "no_passwd", "forced"}, f \in Commands}
    \cup {[Base EXCEPT !.lists = <<TwoKeys>>, !.force = f] : f \in Commands}
    \cup {[Base EXCEPT !.lists = l, !.permit_empty_passwd = TRUE, !.password = p] :
        l \in {<<>>, <<PasswordPubkey>>}, p \in {"good", "empty"}}
    \cup {[Base EXCEPT !.lists = l, !.enabled = {"kbdint", "publickey"}, !.pam = TRUE, !.pam_account = a] :
        l \in {<<>>, <<<<PamItem, Item("publickey")>>>>}, a \in BOOLEAN}
    \cup {[Base EXCEPT !.ssh_connection = FALSE]}
=============================================================================
