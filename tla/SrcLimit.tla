------------------------------ MODULE SrcLimit ------------------------------
(***************************************************************************)
(* srclimit.c: what sshd's listener knows of the sources of connections.   *)
(* The list of unauthenticated connections (MaxPersource) is a set of      *)
(* <<id, block>> pairs, the id being the listener's end of the child's     *)
(* socket pair.  The penalty table maps an address block to the time its   *)
(* penalty has left to run (expiry - now, the only form in which the code  *)
(* uses an expiry) and whether it is being enforced.                       *)
(*                                                                         *)
(* Addresses are abstracted to hosts, each in one block (its address under *)
(* the configured mask) of one address family.  Blocks are numbers, whose  *)
(* order is addr_cmp's.  Time is counted in whole units.                   *)
(***************************************************************************)
EXTENDS Integers, FiniteSets, Functions

CONSTANTS
    Hosts,          \* the remote hosts
    NoHost,         \* a peer whose address is unknown (not a TCP socket)
    Block,          \* Block[h]: the block of h's address
    Family,         \* Family[b]: the address family of block b
    Exempt,         \* PerSourcePenaltyExemptList
    Secs,           \* Secs[t]: the penalty configured for an exit of type t
    PenaltyMin,
    PenaltyMax,
    MaxSources,     \* MaxSources[f]: size of family f's penalty table
    DenyAll,        \* the families with overflow mode deny-all
    MaxPersource,   \* PerSourceMaxStartups
    MaxStartups

Blocks == {Block[h] : h \in Hosts}
Families == {"v4", "v6"}
PenaltyTypes == {"crash", "authfail", "grace", "noauth", "refused", "invaliduser"}

ASSUME SourceAssumption == /\ NoHost \notin Hosts
                           /\ Block \in [Hosts -> Nat]
                           /\ Family \in [Blocks -> Families]
                           /\ Exempt \subseteq Hosts
                           /\ Secs \in [PenaltyTypes -> Nat]
                           /\ PenaltyMin \in Nat /\ PenaltyMax \in Nat
                           /\ MaxSources \in [Families -> Nat]
                           /\ DenyAll \subseteq Families
ASSUME LimitAssumption == MaxPersource \in Nat /\ MaxStartups \in Nat \ {0}

----------------------------------------------------------------------------
(* Unauthenticated connections per source.                                 *)

srclimit_check_allow(src, host) ==
    \/ host = NoHost
    \/ /\ Cardinality(src) < MaxStartups
       /\ Cardinality({e \in src : e[2] = Block[host]}) < MaxPersource

\* The entry srclimit_check_allow stores when it allows the connection.
Stored(src, host, id) ==
    IF host = NoHost THEN src ELSE src \cup {<<id, Block[host]>>}

srclimit_done(src, id) == {e \in src : e[1] # id}

----------------------------------------------------------------------------
(* Penalties.                                                              *)

Entries(tab, f) == {b \in DOMAIN tab : Family[b] = f}
TableFull(tab, f) == Cardinality(Entries(tab, f)) >= MaxSources[f]

\* Mutant: penalties never run out.
LazyExpire(tab) == tab

expire_penalties(tab) == Restrict(tab, {b \in DOMAIN tab : tab[b].left >= 0})

\* Whether srclimit_penalty_check_allow refuses the host; the table it leaves.
Penalised(tab, host) ==
    /\ host \in Hosts \ Exempt
    /\ LET t == expire_penalties(tab)
           b == Block[host]
       IN  \/ Family[b] \in DenyAll /\ TableFull(t, Family[b])
           \/ b \in DOMAIN t /\ t[b].active
AfterCheck(tab, host) ==
    IF host \in Hosts \ Exempt THEN expire_penalties(tab) ELSE tab

\* The order of the expiry tree: later expiry, then higher address.
Outlasts(tab, c, b) ==
    \/ tab[c].left > tab[b].left
    \/ tab[c].left = tab[b].left /\ c > b

\* Mutants: evicts nothing; ranks both families together.
EvictNone(tab) == tab
EvictAnyFamily(tab) ==
    Restrict(tab, {b \in DOMAIN tab :
        Cardinality({c \in DOMAIN tab : Outlasts(tab, c, b)})
            < MaxSources[Family[b]]})

\* The soonest to expire go until each family fits its table.
srclimit_early_expire_penalties(tab) ==
    Restrict(tab, {b \in DOMAIN tab :
        Cardinality({c \in Entries(tab, Family[b]) : Outlasts(tab, c, b)})
            < MaxSources[Family[b]]})

\* A first offence is entered as it is; later ones add up, to PenaltyMax.
Accrued(tab, b, secs) ==
    IF b \notin DOMAIN tab
    THEN [left |-> secs, active |-> secs > PenaltyMin]
    ELSE LET sum == tab[b].left + secs
             left == IF sum > PenaltyMax THEN PenaltyMax ELSE sum
         IN  [left |-> left, active |-> tab[b].active \/ left > PenaltyMin]

Entered(tab, b, e) == [c \in DOMAIN tab \cup {b} |-> IF c = b THEN e ELSE tab[c]]

srclimit_penalise(tab, host, type) ==
    LET t == expire_penalties(tab)
        b == Block[host]
    IN  IF host \notin Hosts \ Exempt \/ type = "none" \/ Secs[type] = 0 THEN tab
        ELSE IF Family[b] \in DenyAll /\ TableFull(t, Family[b]) THEN t
        ELSE LET u == Entered(t, b, Accrued(t, b, Secs[type]))
             IN  IF b \in DOMAIN t THEN u ELSE srclimit_early_expire_penalties(u)
=====
