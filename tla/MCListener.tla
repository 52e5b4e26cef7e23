----------------------------- MODULE MCListener -----------------------------
(***************************************************************************)
(* Instances of Listener: two hosts of one block and one of another.  A    *)
(* behaviour of MCSpec is either the listener's or one of the penalty      *)
(* tables alone, with more sources than the listener could be given: three *)
(* blocks of IPv4 in a table of two in deny-all mode, two blocks of IPv6   *)
(* in a table of one in permissive mode.                                   *)
(***************************************************************************)
EXTENDS Listener

CONSTANTS h1, h2, h3, h4, h5, h6

\* Process ids are only compared.
PidSymmetry == Permutations(Pids)

HostBlock == [h \in Hosts |-> IF h = h3 THEN 2 ELSE 1]
BlockFamily == [b \in Blocks |-> "v4"]
OneEach == [f \in Families |-> 1]
SecsOne == [t \in PenaltyTypes |-> 1]

----------------------------------------------------------------------------
VARIABLE scenario

\* Penalties of zero to three units, of which one has no effect by itself,
\* and one is more than the maximum.
Tables == INSTANCE Penalties WITH
    Hosts <- {h1, h2, h3, h4, h5, h6},
    Block <- h1 :> 1 @@ h5 :> 1 @@ h2 :> 2 @@ h3 :> 3 @@ h4 :> 4 @@ h6 :> 5,
    Family <- 1 :> "v4" @@ 2 :> "v4" @@ 3 :> "v4" @@ 4 :> "v6" @@ 5 :> "v6",
    Exempt <- {h5},
    Secs <- [t \in PenaltyTypes |-> CASE t = "crash" -> 3 [] t = "noauth" -> 0
                                      [] t = "authfail" -> 1 [] OTHER -> 2],
    PenaltyMin <- 1, PenaltyMax <- 2,
    MaxSources <- [f \in Families |-> IF f = "v4" THEN 2 ELSE 1],
    DenyAll <- {"v4"}

MCInit == Init /\ scenario \in {"listener", "tables"}
MCNext ==
    /\ UNCHANGED scenario
    /\ \/ scenario = "listener" /\ Next
       \/ /\ scenario = "tables" /\ Tables!Next
          /\ UNCHANGED <<slot, active, listening, src, flags, world, fault>>
MCSpec == MCInit /\ [][MCNext]_<<vars, scenario>>

ListenerInit == Init /\ scenario = "listener"
MCFairSpec == ListenerInit /\ [][MCNext]_<<vars, scenario>> /\ Fairness

\* Neither table outgrows its configured size, in either overflow mode
\* (srclimit_penalise counts npenalties by hand and evicts one at a time).
TableBounded == scenario = "tables" => Tables!TableBounded

\* A penalty in force ends by running out or, in permissive mode, to make
\* room for one of its family that expires later; no offence and no
\* connection attempt shortens it to less than the maximum
\* (srclimit_early_expire_penalties, srclimit_penalise).
PenaltiesStand == [][scenario = "tables" => Tables!Stands]_tab
=====
