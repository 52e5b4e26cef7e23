----------------------------- MODULE Penalties -----------------------------
(***************************************************************************)
(* The penalty tables of srclimit.c by themselves: any host may be         *)
(* penalised or ask to connect at any time, and time passes.  The listener *)
(* that uses them is module Listener.                                      *)
(***************************************************************************)
EXTENDS SrcLimit

VARIABLE tab        \* the penalty tables of both families

Init == tab = <<>>

Penalise(h, type) == tab' = srclimit_penalise(tab, h, type)

CheckAllow(h) == tab' = AfterCheck(tab, h)

\* An entry that has run out stays, overdue, until somebody looks.
Older(t) ==
    [b \in DOMAIN t |-> [t[b] EXCEPT !.left = IF @ < 0 THEN @ ELSE @ - 1]]
Tick == tab # <<>> /\ tab' = Older(tab)

Next ==
    \/ \E h \in Hosts : CheckAllow(h) \/ \E type \in PenaltyTypes : Penalise(h, type)
    \/ Tick

Spec == Init /\ [][Next]_tab

\* Neither table outgrows its configured size, in either overflow mode
\* (srclimit_penalise counts npenalties by hand and evicts one at a time).
TableBounded ==
    \A f \in Families : Cardinality(Entries(tab, f)) <= MaxSources[f]

\* A penalty in force only ends by running out, or to make room for a new
\* entry of its own family that is not in deny-all mode, and then nothing
\* that stays expires sooner; and no offence and no connection attempt, but
\* only time, lifts its enforcement or shortens it to less than the maximum
\* (srclimit_early_expire_penalties, srclimit_penalise: a first offence is
\* entered as it is, and a later one caps it).
Stands ==
    /\ \A b \in DOMAIN tab \ DOMAIN tab' :
        \/ tab[b].left < 0
        \/ /\ Family[b] \notin DenyAll
           /\ \E c \in DOMAIN tab' \ DOMAIN tab : Family[c] = Family[b]
           /\ \A c \in Entries(tab', Family[b]) \cap DOMAIN tab : Outlasts(tab, c, b)
    /\ \A b \in DOMAIN tab \cap DOMAIN tab' :
        tab[b].left >= 0 =>
            /\ tab[b].active => tab'[b].active
            /\ tab'[b].left < tab[b].left => tab' = Older(tab) \/ tab'[b].left = PenaltyMax
PenaltiesStand == [][Stands]_tab
=====
