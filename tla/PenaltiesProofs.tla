-------------------------- MODULE PenaltiesProofs --------------------------
(***************************************************************************)
(* Proofs about the penalty tables of srclimit.c, for any hosts, blocks,   *)
(* table sizes, penalties and overflow modes: the tables keep to their     *)
(* sizes and a penalty ends only by time or to make room for another.      *)
(*                                                                         *)
(* Both rest on what one eviction does to a table that is over its size by *)
(* one entry: it removes the entry that all others outlast (Evicts).       *)
(***************************************************************************)
EXTENDS Penalties, FiniteSetTheorems, WellFoundedInduction, TLAPS

\* A table: of blocks of known hosts, each with its time left.
Table(t) ==
    /\ t \in [DOMAIN t -> [left : Int, active : BOOLEAN]]
    /\ DOMAIN t \subseteq Blocks /\ IsFiniteSet(DOMAIN t)
Running(t) == \A b \in DOMAIN t : t[b].left \in Nat
Fits(t) == \A f \in Families : Cardinality(Entries(t, f)) <= MaxSources[f]

\* The entries of one family are finitely many.
LEMMA EntriesFinite ==
    ASSUME NEW t, Table(t), NEW f
    PROVE  IsFiniteSet(Entries(t, f)) /\ Cardinality(Entries(t, f)) \in Nat
<1>1. Entries(t, f) \in SUBSET DOMAIN t
  BY DEF Entries
<1>2. IsFiniteSet(Entries(t, f))
  BY <1>1, FS_Subset DEF Table
<1> QED BY <1>2, FS_CardinalityType

\* A set of naturals has a least element.
LEMMA Least ==
    ASSUME NEW S, S \subseteq Nat, S # {}
    PROVE  \E x \in S : \A y \in S : x <= y
<1>1. PICK x \in S : \A y \in S : ~(<<y, x>> \in OpToRel(<, Nat))
  BY NatLessThanWellFounded, WFMin
<1>2. \A y \in S : ~(y < x)
  BY <1>1 DEF OpToRel
<1>3. \A y \in S : x <= y
  BY <1>2
<1> QED BY <1>3

\* One entry of a family expires before all others (the order of the tree is
\* total: penalty_expiry_cmp falls back on the address).
LEMMA Soonest ==
    ASSUME NEW t, Table(t), Running(t), NEW f, Entries(t, f) # {}
    PROVE  \E x \in Entries(t, f) : \A c \in Entries(t, f) \ {x} : Outlasts(t, c, x)
<1> DEFINE E == Entries(t, f)
           L == {t[b].left : b \in E}
<1>1. E \subseteq DOMAIN t /\ E \subseteq Nat
  BY SourceAssumption DEF Entries, Table, Blocks
<1>2. L \subseteq Nat /\ L # {}
  BY <1>1 DEF Running
<1> HIDE DEF E
<1>3. PICK m \in L : \A y \in L : m <= y
  <2> HIDE DEF L
  <2> QED BY <1>2, Least
<1> DEFINE B == {b \in E : t[b].left = m}
<1>4. B \subseteq Nat /\ B # {}
  BY <1>1, <1>3
<1>5. PICK x \in B : \A y \in B : x <= y
  <2> HIDE DEF B
  <2> QED BY <1>4, Least
<1>6. x \in E /\ t[x].left = m
  BY <1>5
<1>7. ASSUME NEW c \in E \ {x} PROVE Outlasts(t, c, x)
  <2>1. t[c].left \in L /\ t[c].left \in Nat /\ m \in Nat /\ m <= t[c].left /\ c \in Nat /\ x \in Nat
    BY <1>1, <1>2, <1>3, <1>6, <1>7 DEF Running
  <2>2. CASE t[c].left = m
    <3>1. c \in B
      BY <1>7, <2>2
    <3>2. x <= c /\ c # x
      BY <1>5, <1>7, <3>1
    <3> QED BY <1>6, <2>1, <2>2, <3>2 DEF Outlasts
  <2>3. CASE t[c].left # m
    BY <1>6, <2>1, <2>3 DEF Outlasts
  <2> QED BY <2>2, <2>3
<1> QED BY <1>6, <1>7 DEF E

\* No entry outlasts itself, and of two only one the other.
LEMMA OutlastsOrder ==
    ASSUME NEW t, Table(t), NEW b \in DOMAIN t, NEW c \in DOMAIN t
    PROVE  ~Outlasts(t, b, b) /\ ~(Outlasts(t, c, b) /\ Outlasts(t, b, c))
<1>1. t[b].left \in Int /\ t[c].left \in Int /\ b \in Nat /\ c \in Nat
  BY SourceAssumption DEF Table, Blocks
<1> QED BY <1>1 DEF Outlasts

\* srclimit_early_expire_penalties on a family that is over its size by at
\* most one entry.
LEMMA Evicts ==
    ASSUME NEW u, Table(u), Running(u), NEW f \in Families,
           Cardinality(Entries(u, f)) <= MaxSources[f] + 1
    PROVE  LET v == srclimit_early_expire_penalties(u)
           IN  /\ Cardinality(Entries(v, f)) <= MaxSources[f]
               /\ \A b \in Entries(u, f) \ DOMAIN v :
                    /\ Cardinality(Entries(u, f)) = MaxSources[f] + 1
                    /\ \A c \in Entries(u, f) \ {b} : c \in DOMAIN v /\ Outlasts(u, c, b)
<1> DEFINE E == Entries(u, f)
           M == MaxSources[f]
           H(b) == {c \in E : Outlasts(u, c, b)}
           v == srclimit_early_expire_penalties(u)
<1>1. IsFiniteSet(E) /\ Cardinality(E) \in Nat /\ M \in Nat /\ E \subseteq DOMAIN u
  BY EntriesFinite, SourceAssumption DEF Entries
<1>2. \A b \in E : b \in DOMAIN v <=> Cardinality(H(b)) < M
  BY DEF srclimit_early_expire_penalties, Restrict, Entries
<1>3. Entries(v, f) \subseteq E /\ Entries(v, f) = {b \in E : b \in DOMAIN v}
  BY DEF srclimit_early_expire_penalties, Restrict, Entries
<1> HIDE DEF E, M, v
<1>4. ASSUME NEW b \in E
      PROVE  /\ H(b) \in SUBSET (E \ {b}) /\ IsFiniteSet(E \ {b}) /\ Cardinality(E \ {b}) = Cardinality(E) - 1
             /\ Cardinality(H(b)) \in Nat /\ Cardinality(H(b)) <= Cardinality(E) - 1
             /\ Cardinality(H(b)) = Cardinality(E) - 1 => H(b) = E \ {b}
  <2>1. IsFiniteSet(E \ {b}) /\ Cardinality(E \ {b}) = Cardinality(E) - 1
    BY <1>1, <1>4, FS_RemoveElement
  <2>2. H(b) \in SUBSET (E \ {b})
    BY <1>1, <1>4, OutlastsOrder
  <2> HIDE DEF H
  <2>3. IsFiniteSet(H(b)) /\ Cardinality(H(b)) <= Cardinality(E \ {b})
        /\ (Cardinality(E \ {b}) = Cardinality(H(b)) => E \ {b} = H(b))
    BY <2>1, <2>2, FS_Subset
  <2>4. Cardinality(H(b)) \in Nat
    BY <2>3, FS_CardinalityType
  <2> QED BY <2>1, <2>2, <2>3, <2>4
<1>5. ASSUME NEW b \in E, b \notin DOMAIN v
      PROVE  /\ Cardinality(E) = M + 1
             /\ \A c \in E \ {b} : c \in DOMAIN v /\ Outlasts(u, c, b)
  <2>1. ~(Cardinality(H(b)) < M)
    BY <1>2, <1>5
  <2>2. Cardinality(H(b)) = Cardinality(E) - 1 /\ Cardinality(E) = M + 1
    <3> HIDE DEF H
    <3>1. Cardinality(E) <= M + 1
      BY DEF E, M
    <3>2. Cardinality(H(b)) \in Nat /\ Cardinality(H(b)) <= Cardinality(E) - 1
      BY <1>4, <1>5
    <3> QED BY <1>1, <2>1, <3>1, <3>2
  <2>3. H(b) = E \ {b}
    BY <1>4, <1>5, <2>2
  <2>4. ASSUME NEW c \in E \ {b} PROVE c \in DOMAIN v /\ Outlasts(u, c, b)
    <3>1. Outlasts(u, c, b)
      BY <2>3, <2>4
    <3>2. b \notin H(c)
      BY <1>1, <1>5, <2>4, <3>1, OutlastsOrder
    <3>3. H(c) \in SUBSET (E \ {c}) /\ Cardinality(E \ {c}) = M /\ IsFiniteSet(E \ {c}) /\ Cardinality(H(c)) \in Nat
      <4> HIDE DEF H
      <4>1. H(c) \in SUBSET (E \ {c}) /\ IsFiniteSet(E \ {c}) /\ Cardinality(H(c)) \in Nat
            /\ Cardinality(E \ {c}) = Cardinality(E) - 1
        BY <1>4, <2>4
      <4> QED BY <1>1, <2>2, <4>1
    <3>4. Cardinality(H(c)) <= M /\ Cardinality(H(c)) # M
      <4>1. Cardinality(H(c)) = M => E \ {c} = H(c)
        BY <3>3, FS_Subset
      <4>2. b \in E \ {c}
        BY <1>5, <2>4
      <4>3. Cardinality(H(c)) <= M
        BY <3>3, FS_Subset
      <4> QED BY <3>2, <4>1, <4>2, <4>3
    <3>5. Cardinality(H(c)) < M
      <4> HIDE DEF H
      <4> QED BY <1>1, <3>3, <3>4
    <3> QED BY <1>2, <2>4, <3>1, <3>5
  <2> QED BY <2>2, <2>4
<1>6. Cardinality(Entries(v, f)) <= M
  <2>1. CASE Cardinality(E) <= M
    <3>1. Entries(v, f) \in SUBSET E
      BY <1>3
    <3>2. Cardinality(Entries(v, f)) <= Cardinality(E) /\ IsFiniteSet(Entries(v, f))
      BY <1>1, <3>1, FS_Subset
    <3>3. Cardinality(Entries(v, f)) \in Nat
      BY <3>2, FS_CardinalityType
    <3> QED BY <1>1, <2>1, <3>2, <3>3
  <2>2. CASE ~(Cardinality(E) <= M)
    <3>0. Cardinality(E) = M + 1
      <4>1. Cardinality(E) <= M + 1
        BY DEF E, M
      <4> QED BY <1>1, <2>2, <4>1
    <3>1. E # {}
      BY <1>1, <3>0, FS_EmptySet
    <3>2. PICK x \in E : \A c \in E \ {x} : Outlasts(u, c, x)
      BY <3>1, Soonest DEF E
    <3>3. H(x) = E \ {x}
      BY <1>4, <3>2
    <3>4. Cardinality(H(x)) = M
      <4> HIDE DEF H
      <4>1. Cardinality(E \ {x}) = Cardinality(E) - 1
        BY <1>4, <3>2
      <4> QED BY <1>1, <3>0, <3>3, <4>1
    <3>5. x \notin DOMAIN v
      BY <1>1, <1>2, <3>2, <3>4
    <3>6. Entries(v, f) \in SUBSET (E \ {x}) /\ IsFiniteSet(E \ {x}) /\ Cardinality(E \ {x}) = M
      <4> HIDE DEF H
      <4>1. Cardinality(E \ {x}) = Cardinality(E) - 1 /\ IsFiniteSet(E \ {x})
        BY <1>4, <3>2
      <4>2. Entries(v, f) \in SUBSET (E \ {x})
        BY <1>3, <3>5
      <4> QED BY <1>1, <3>0, <4>1, <4>2
    <3> QED BY <3>6, FS_Subset
  <2> QED BY <2>1, <2>2
<1> QED BY <1>5, <1>6 DEF E, M, v

----------------------------------------------------------------------------
(* Operations on the tables.                                               *)

\* Taking entries out of a table that fits leaves one that fits.
LEMMA Restricted ==
    ASSUME NEW t, Table(t), NEW S \in SUBSET DOMAIN t
    PROVE  /\ Table(Restrict(t, S)) /\ DOMAIN Restrict(t, S) = S
           /\ \A b \in S : Restrict(t, S)[b] = t[b]
           /\ Fits(t) => Fits(Restrict(t, S))
<1> DEFINE r == Restrict(t, S)
<1>1. DOMAIN r = S /\ \A b \in S : r[b] = t[b]
  BY DEF Restrict
<1>2. r \in [S -> [left : Int, active : BOOLEAN]]
  BY DEF Restrict, Table
<1>3. IsFiniteSet(S)
  BY FS_Subset DEF Table
<1>4. Table(r)
  BY <1>1, <1>2, <1>3 DEF Table
<1>5. ASSUME Fits(t), NEW f \in Families PROVE Cardinality(Entries(r, f)) <= MaxSources[f]
  <2>1. Entries(r, f) \in SUBSET Entries(t, f)
    BY <1>1 DEF Entries
  <2>2. Cardinality(Entries(r, f)) <= Cardinality(Entries(t, f))
    BY <2>1, EntriesFinite, FS_Subset
  <2>3. Cardinality(Entries(t, f)) \in Nat /\ Cardinality(Entries(r, f)) \in Nat /\ MaxSources[f] \in Nat
    BY <1>4, EntriesFinite, SourceAssumption
  <2> QED BY <1>5, <2>2, <2>3 DEF Fits
<1>6. Fits(t) => Fits(r)
  BY <1>5 DEF Fits
<1> QED BY <1>1, <1>4, <1>6

LEMMA Expires ==
    ASSUME NEW t, Table(t), Fits(t)
    PROVE  LET u == expire_penalties(t)
           IN  /\ Table(u) /\ Fits(u) /\ Running(u)
               /\ DOMAIN u = {b \in DOMAIN t : t[b].left >= 0}
               /\ \A b \in DOMAIN u : u[b] = t[b]
<1> DEFINE S == {b \in DOMAIN t : t[b].left >= 0}
           u == expire_penalties(t)
<1>1. S \in SUBSET DOMAIN t /\ u = Restrict(t, S)
  BY DEF expire_penalties
<1> HIDE DEF S, u
<1>2. Table(u) /\ Fits(u) /\ DOMAIN u = S /\ \A b \in S : u[b] = t[b]
  BY <1>1, Restricted
<1>3. \A b \in S : t[b].left \in Nat
  BY DEF S, Table
<1>4. Running(u)
  BY <1>2, <1>3 DEF Running
<1> QED BY <1>2, <1>4 DEF S, u

\* A penalty of nonnegative length is an entry, and longer than what the
\* block had left if no penalty is longer than the maximum.
LEMMA Accrues ==
    ASSUME NEW t, Table(t), Running(t), NEW b, NEW secs \in Nat
    PROVE  LET e == Accrued(t, b, secs)
           IN  /\ e \in [left : Nat, active : BOOLEAN]
               /\ b \in DOMAIN t => /\ t[b].active => e.active
                                    /\ e.left >= t[b].left \/ e.left = PenaltyMax
<1>1. PenaltyMax \in Nat /\ PenaltyMin \in Nat
  BY SourceAssumption
<1>2. CASE b \in DOMAIN t
  <2>1. t[b].left \in Nat /\ t[b].active \in BOOLEAN
    BY <1>2 DEF Table, Running
  <2> QED BY <1>1, <1>2, <2>1 DEF Accrued
<1>3. CASE b \notin DOMAIN t
  BY <1>1, <1>3 DEF Accrued
<1> QED BY <1>2, <1>3

\* An entry adds at most itself, to the table of its family.
LEMMA Enters ==
    ASSUME NEW t, Table(t), Running(t), Fits(t), NEW b \in Blocks,
           NEW e \in [left : Nat, active : BOOLEAN]
    PROVE  LET u == Entered(t, b, e)
           IN  /\ Table(u) /\ Running(u) /\ DOMAIN u = DOMAIN t \cup {b}
               /\ u[b] = e /\ \A c \in DOMAIN t \ {b} : u[c] = t[c]
               /\ b \in DOMAIN t => Fits(u)
               /\ \A f \in Families :
                    /\ Cardinality(Entries(u, f)) <= Cardinality(Entries(t, f)) + 1
                    /\ Cardinality(Entries(u, f)) <= MaxSources[f] + 1
<1> DEFINE u == Entered(t, b, e)
<1>1. /\ DOMAIN u = DOMAIN t \cup {b} /\ u[b] = e
      /\ \A c \in DOMAIN t \ {b} : u[c] = t[c]
      /\ u = [c \in DOMAIN u |-> u[c]]
  BY DEF Entered
<1>2. IsFiniteSet(DOMAIN t \cup {b})
  BY FS_AddElement DEF Table
<1>3. \A c \in DOMAIN t : t[c] \in [left : Nat, active : BOOLEAN]
  BY DEF Table, Running
<1>4. \A c \in DOMAIN u : u[c] \in [left : Nat, active : BOOLEAN]
  BY <1>1, <1>3
<1> HIDE DEF u
<1>5. u \in [DOMAIN u -> [left : Int, active : BOOLEAN]]
  BY <1>1, <1>4
<1>6. Table(u) /\ Running(u)
  BY <1>1, <1>2, <1>4, <1>5 DEF Table, Running
<1>7. ASSUME NEW f \in Families
      PROVE  /\ Cardinality(Entries(u, f)) <= Cardinality(Entries(t, f)) + 1
             /\ Cardinality(Entries(u, f)) <= MaxSources[f] + 1
             /\ b \in DOMAIN t => Cardinality(Entries(u, f)) <= MaxSources[f]
  <2>1. /\ IsFiniteSet(Entries(t, f)) /\ Cardinality(Entries(t, f)) \in Nat
        /\ Cardinality(Entries(t, f)) <= MaxSources[f] /\ MaxSources[f] \in Nat
    BY EntriesFinite, SourceAssumption DEF Fits
  <2>2. Entries(u, f) = Entries(t, f) \/ (b \notin DOMAIN t /\ Entries(u, f) = Entries(t, f) \cup {b})
    BY <1>1 DEF Entries
  <2>3. b \notin DOMAIN t => Cardinality(Entries(t, f) \cup {b}) = Cardinality(Entries(t, f)) + 1
    <3>1. b \notin DOMAIN t => b \notin Entries(t, f)
      BY DEF Entries
    <3> QED BY <2>1, <3>1, FS_AddElement
  <2> HIDE DEF u
  <2>4. Cardinality(Entries(u, f)) = Cardinality(Entries(t, f))
        \/ (b \notin DOMAIN t /\ Cardinality(Entries(u, f)) = Cardinality(Entries(t, f)) + 1)
    BY <2>2, <2>3
  <2> QED BY <2>1, <2>4
<1>8. b \in DOMAIN t => Fits(u)
  BY <1>7 DEF Fits
<1> QED BY <1>1, <1>6, <1>7, <1>8 DEF u

----------------------------------------------------------------------------
(* What every operation on the tables does.                                *)

\* What stood in t and is gone from u made room.
Gone(t, u) ==
    \A b \in DOMAIN t \ DOMAIN u :
        \/ t[b].left < 0
        \/ /\ Family[b] \notin DenyAll
           /\ \E c \in DOMAIN u \ DOMAIN t : Family[c] = Family[b]
           /\ \A c \in Entries(u, Family[b]) \cap DOMAIN t : Outlasts(t, c, b)

\* What stands in both is no weaker in u, but for the maximum.
Kept(t, u) ==
    \A b \in DOMAIN t \cap DOMAIN u :
        t[b].left >= 0 => /\ t[b].active => u[b].active
                          /\ u[b].left >= t[b].left \/ u[b].left = PenaltyMax

Stood(t, u) == Table(u) /\ Fits(u) /\ Gone(t, u) /\ Kept(t, u)

LEMMA Unmoved ==
    ASSUME NEW t, Table(t), Fits(t)
    PROVE  Stood(t, t)
<1>1. \A b \in DOMAIN t : t[b].left \in Int
  BY DEF Table
<1>2. Kept(t, t)
  BY <1>1 DEF Kept
<1> QED BY <1>2 DEF Stood, Gone

LEMMA ExpiryStands ==
    ASSUME NEW t, Table(t), Fits(t)
    PROVE  Stood(t, expire_penalties(t))
<1> DEFINE u == expire_penalties(t)
<1>1. /\ Table(u) /\ Fits(u) /\ DOMAIN u = {b \in DOMAIN t : t[b].left >= 0}
      /\ \A b \in DOMAIN u : u[b] = t[b]
  BY Expires
<1>2. \A b \in DOMAIN t : t[b].left \in Int
  BY DEF Table
<1> HIDE DEF u
<1>3. Gone(t, u)
  BY <1>1, <1>2 DEF Gone
<1>4. Kept(t, u)
  BY <1>1, <1>2 DEF Kept
<1> QED BY <1>1, <1>3, <1>4 DEF Stood, u

\* A penalty added to one that the block already has.
LEMMA Worsened ==
    ASSUME NEW t, Table(t), Fits(t), NEW b \in Blocks, NEW type \in PenaltyTypes,
           b \in DOMAIN expire_penalties(t)
    PROVE  LET s == expire_penalties(t)
           IN  Stood(t, Entered(s, b, Accrued(s, b, Secs[type])))
<1> DEFINE s == expire_penalties(t)
           e == Accrued(s, b, Secs[type])
           u == Entered(s, b, e)
<1>1. /\ Table(s) /\ Fits(s) /\ Running(s) /\ DOMAIN s = {c \in DOMAIN t : t[c].left >= 0}
      /\ \A c \in DOMAIN s : s[c] = t[c]
  BY Expires
<1>2. Secs[type] \in Nat /\ PenaltyMax \in Nat
  BY SourceAssumption
<1> HIDE DEF s
<1>3. /\ e \in [left : Nat, active : BOOLEAN]
      /\ (s[b].active => e.active) /\ (e.left >= s[b].left \/ e.left = PenaltyMax)
  BY <1>1, <1>2, Accrues DEF s
<1> HIDE DEF e
<1>4. /\ Table(u) /\ Fits(u) /\ DOMAIN u = DOMAIN s
      /\ u[b] = e /\ \A c \in DOMAIN s \ {b} : u[c] = s[c]
  <2>1. e \in [left : Nat, active : BOOLEAN] /\ Table(s) /\ Running(s) /\ Fits(s)
    BY <1>1, <1>3
  <2>2. b \in DOMAIN s
    BY DEF s
  <2>3. Table(u) /\ DOMAIN u = DOMAIN s \cup {b} /\ (b \in DOMAIN s => Fits(u))
    BY <2>1, Enters
  <2>4. u[b] = e /\ \A c \in DOMAIN s \ {b} : u[c] = s[c]
    BY DEF Entered
  <2> HIDE DEF u
  <2> QED BY <2>2, <2>3, <2>4
<1> HIDE DEF u
<1>5. \A c \in DOMAIN t : t[c].left \in Int
  BY DEF Table
<1>6. Gone(t, u)
  BY <1>1, <1>4, <1>5 DEF Gone
<1>7. b \in DOMAIN s
  BY DEF s
<1>8. ASSUME NEW c \in DOMAIN s
      PROVE  (t[c].active => u[c].active) /\ (u[c].left >= t[c].left \/ u[c].left = PenaltyMax)
  <2>1. CASE c = b
    BY <1>1, <1>3, <1>4, <1>7, <2>1
  <2>2. CASE c # b
    BY <1>1, <1>4, <1>5, <1>8, <2>2
  <2> QED BY <2>1, <2>2
<1>9. Kept(t, u)
  BY <1>1, <1>4, <1>8 DEF Kept
<1> QED BY <1>4, <1>6, <1>9 DEF Stood, u, e, s

\* A new entry, and the eviction that may follow.  If it evicts, the family
\* had exactly its size of running entries: the block was not in the table
\* as an overdue one, and the family is not in deny-all mode.
LEMMA MakesRoom ==
    ASSUME NEW t, Table(t), Fits(t), NEW b \in Blocks, NEW type \in PenaltyTypes,
           b \notin DOMAIN expire_penalties(t),
           ~(Family[b] \in DenyAll /\ TableFull(expire_penalties(t), Family[b]))
    PROVE  LET s == expire_penalties(t)
           IN  Stood(t, srclimit_early_expire_penalties(Entered(s, b, Accrued(s, b, Secs[type]))))
<1> DEFINE s == expire_penalties(t)
           e == Accrued(s, b, Secs[type])
           u == Entered(s, b, e)
           v == srclimit_early_expire_penalties(u)
           S == {c \in DOMAIN u : Cardinality({d \in Entries(u, Family[c]) : Outlasts(u, d, c)})
                                    < MaxSources[Family[c]]}
<1>1. /\ Table(s) /\ Fits(s) /\ Running(s) /\ DOMAIN s = {c \in DOMAIN t : t[c].left >= 0}
      /\ \A c \in DOMAIN s : s[c] = t[c]
  BY Expires
<1>2. /\ Secs[type] \in Nat /\ PenaltyMax \in Nat /\ Family[b] \in Families
      /\ \A f \in Families : MaxSources[f] \in Nat
  BY SourceAssumption
<1>3. b \notin DOMAIN s /\ ~(Family[b] \in DenyAll /\ TableFull(s, Family[b]))
  OBVIOUS
<1> HIDE DEF s
<1>4. e \in [left : Nat, active : BOOLEAN]
  BY <1>1, <1>2, Accrues
<1> HIDE DEF e
<1>5. /\ Table(u) /\ Running(u) /\ DOMAIN u = DOMAIN s \cup {b}
      /\ u[b] = e /\ \A c \in DOMAIN s \ {b} : u[c] = s[c]
      /\ \A f \in Families : /\ Cardinality(Entries(u, f)) <= Cardinality(Entries(s, f)) + 1
                             /\ Cardinality(Entries(u, f)) <= MaxSources[f] + 1
  <2>1. e \in [left : Nat, active : BOOLEAN] /\ Table(s) /\ Running(s) /\ Fits(s)
    BY <1>1, <1>4
  <2> QED BY ONLY <2>1, Enters
<1> HIDE DEF u
<1>6. Table(v) /\ DOMAIN v \subseteq DOMAIN u /\ \A c \in DOMAIN v : v[c] = u[c]
  <2>1. S \in SUBSET DOMAIN u /\ v = Restrict(u, S)
    BY DEF srclimit_early_expire_penalties
  <2> HIDE DEF S, v
  <2> QED BY <1>5, <2>1, Restricted
<1>7. ASSUME NEW f \in Families
      PROVE  /\ Cardinality(Entries(v, f)) <= MaxSources[f]
             /\ \A x \in Entries(u, f) \ DOMAIN v :
                  /\ Cardinality(Entries(u, f)) = MaxSources[f] + 1
                  /\ \A c \in Entries(u, f) \ {x} : c \in DOMAIN v /\ Outlasts(u, c, x)
  BY <1>5, Evicts
<1> HIDE DEF v
<1>8. Fits(v)
  BY <1>7 DEF Fits
<1>9. ASSUME NEW x \in DOMAIN t \ DOMAIN v, ~(t[x].left < 0)
      PROVE  /\ Family[x] \notin DenyAll
             /\ \E c \in DOMAIN v \ DOMAIN t : Family[c] = Family[x]
             /\ \A c \in Entries(v, Family[x]) \cap DOMAIN t : Outlasts(t, c, x)
  <2> DEFINE f == Family[x]
  <2>1. x \in DOMAIN s /\ x # b /\ f \in Families /\ x \in Entries(u, f)
    <3>1. t[x].left \in Int /\ x \in Blocks
      BY <1>9 DEF Table
    <3>2. x \in DOMAIN s
      BY <1>1, <1>9, <3>1
    <3> QED BY <1>3, <1>5, <3>1, <3>2, SourceAssumption DEF Entries
  <2> HIDE DEF f
  <2>2. /\ Cardinality(Entries(u, f)) = MaxSources[f] + 1
        /\ \A c \in Entries(u, f) \ {x} : c \in DOMAIN v /\ Outlasts(u, c, x)
    BY <1>7, <1>9, <2>1
  <2>3. Cardinality(Entries(t, f)) <= MaxSources[f] /\ Cardinality(Entries(t, f)) \in Nat
        /\ Cardinality(Entries(s, f)) \in Nat /\ Cardinality(Entries(s, f)) <= MaxSources[f]
        /\ MaxSources[f] \in Nat /\ IsFiniteSet(Entries(t, f))
    BY <1>1, <1>2, <2>1, EntriesFinite DEF Fits
  <2>4. ASSUME Entries(u, f) \in SUBSET Entries(t, f) PROVE FALSE
    <3>1. Cardinality(Entries(u, f)) <= Cardinality(Entries(t, f))
      BY <2>3, <2>4, FS_Subset
    <3> QED BY <2>2, <2>3, <3>1
  <2>5. Family[b] = f /\ b \notin DOMAIN t
    BY <1>1, <1>5, <2>4 DEF Entries
  <2>6. f \notin DenyAll
    <3>1. Cardinality(Entries(s, f)) >= MaxSources[f]
      <4>1. Cardinality(Entries(u, f)) <= Cardinality(Entries(s, f)) + 1
        BY <1>5, <2>1
      <4> QED BY <2>2, <2>3, <4>1
    <3> QED BY <1>3, <2>5, <3>1 DEF TableFull
  <2>7. b \in DOMAIN v
    BY <1>5, <2>1, <2>2, <2>5 DEF Entries
  <2>8. ASSUME NEW c \in Entries(v, f) \cap DOMAIN t PROVE Outlasts(t, c, x)
    <3>1. c \in Entries(u, f) /\ c # x /\ c # b
      BY <1>6, <1>9, <2>5, <2>8 DEF Entries
    <3>2. Outlasts(u, c, x)
      BY <2>2, <3>1
    <3>3. u[c] = t[c] /\ u[x] = t[x]
      BY <1>1, <1>5, <2>1, <3>1 DEF Entries
    <3> QED BY <3>2, <3>3 DEF Outlasts
  <2> QED BY <2>5, <2>6, <2>7, <2>8 DEF f
<1>10. Gone(t, v)
  BY <1>9 DEF Gone
<1>11. Kept(t, v)
  <2>1. ASSUME NEW c \in DOMAIN t \cap DOMAIN v, t[c].left >= 0
        PROVE  v[c] = t[c] /\ t[c].left \in Int
    BY <1>1, <1>3, <1>5, <1>6, <2>1 DEF Table
  <2> QED BY <2>1 DEF Kept
<1> QED BY <1>6, <1>8, <1>10, <1>11 DEF Stood, v, u, e, s

LEMMA PenaliseStands ==
    ASSUME NEW t, Table(t), Fits(t), NEW h \in Hosts, NEW type \in PenaltyTypes
    PROVE  Stood(t, srclimit_penalise(t, h, type))
<1> DEFINE s == expire_penalties(t)
           b == Block[h]
           u == Entered(s, b, Accrued(s, b, Secs[type]))
<1>1. b \in Blocks
  BY DEF Blocks
<1>2. \/ srclimit_penalise(t, h, type) = t
      \/ srclimit_penalise(t, h, type) = s
      \/ b \in DOMAIN s /\ srclimit_penalise(t, h, type) = u
      \/ /\ b \notin DOMAIN s /\ ~(Family[b] \in DenyAll /\ TableFull(s, Family[b]))
         /\ srclimit_penalise(t, h, type) = srclimit_early_expire_penalties(u)
  BY DEF srclimit_penalise
<1>3. Stood(t, t) /\ Stood(t, s)
  BY Unmoved, ExpiryStands
<1>4. b \in DOMAIN s => Stood(t, u)
  BY <1>1, Worsened
<1>5. b \notin DOMAIN s /\ ~(Family[b] \in DenyAll /\ TableFull(s, Family[b]))
      => Stood(t, srclimit_early_expire_penalties(u))
  BY <1>1, MakesRoom
<1> HIDE DEF s, u, b
<1> QED BY <1>2, <1>3, <1>4, <1>5

\* Time takes one unit from every penalty still running.
LEMMA Ages ==
    ASSUME NEW t, Table(t), Fits(t)
    PROVE  /\ Table(Older(t)) /\ Fits(Older(t)) /\ DOMAIN Older(t) = DOMAIN t
           /\ \A b \in DOMAIN t : Older(t)[b].active = t[b].active /\ Older(t)[b].left <= t[b].left
<1>1. ASSUME NEW b \in DOMAIN t
      PROVE  /\ Older(t)[b] \in [left : Int, active : BOOLEAN]
             /\ Older(t)[b].active = t[b].active /\ Older(t)[b].left <= t[b].left
  <2>1. t[b] \in [left : Int, active : BOOLEAN]
    BY DEF Table
  <2>2. Older(t)[b] = [t[b] EXCEPT !.left = IF @ < 0 THEN @ ELSE @ - 1]
    BY DEF Older
  <2> QED BY <2>1, <2>2
<1>2. DOMAIN Older(t) = DOMAIN t /\ Older(t) = [b \in DOMAIN t |-> Older(t)[b]]
  BY DEF Older
<1>3. Older(t) \in [DOMAIN t -> [left : Int, active : BOOLEAN]]
  BY <1>1, <1>2
<1>4. Table(Older(t))
  BY <1>2, <1>3 DEF Table
<1>5. \A f : Entries(Older(t), f) = Entries(t, f)
  BY <1>2 DEF Entries
<1> QED BY <1>1, <1>2, <1>4, <1>5 DEF Fits

----------------------------------------------------------------------------
(* The theorems.                                                           *)

TableInv == Table(tab) /\ Fits(tab)

LEMMA Empty == Init => TableInv
<1> SUFFICES ASSUME Init PROVE TableInv
  OBVIOUS
<1>1. DOMAIN tab = {} /\ tab = [b \in {} |-> 0]
  BY DEF Init
<1>2. Table(tab)
  BY <1>1, FS_EmptySet DEF Table
<1>3. \A f : Entries(tab, f) = {}
  BY <1>1 DEF Entries
<1>4. Fits(tab)
  <2>1. Cardinality({}) = 0
    BY FS_EmptySet
  <2>2. \A f \in Families : MaxSources[f] \in Nat
    BY SourceAssumption
  <2> QED BY <1>3, <2>1, <2>2 DEF Fits
<1> QED BY <1>1, <1>2, <1>4 DEF TableInv

\* A step is time passing, or one after which every penalty has stood.
LEMMA StepStands ==
    ASSUME TableInv, Next
    PROVE  tab' = Older(tab) \/ Stood(tab, tab')
<1>1. ASSUME NEW h \in Hosts, CheckAllow(h) PROVE Stood(tab, tab')
  BY <1>1, Unmoved, ExpiryStands DEF CheckAllow, AfterCheck, TableInv
<1>2. ASSUME NEW h \in Hosts, NEW type \in PenaltyTypes, Penalise(h, type) PROVE Stood(tab, tab')
  BY <1>2, PenaliseStands DEF Penalise, TableInv
<1> QED BY <1>1, <1>2 DEF Next, Tick

LEMMA TableInvStep == TableInv /\ [Next]_tab => TableInv'
<1>1. ASSUME TableInv, Next PROVE TableInv'
  BY <1>1, StepStands, Ages DEF Stood, TableInv
<1>2. ASSUME TableInv, UNCHANGED tab PROVE TableInv'
  BY <1>2 DEF TableInv, Table, Fits
<1> QED BY <1>1, <1>2

\* Neither penalty table outgrows its configured size, whatever the order of
\* offences, connection attempts and time, in either overflow mode
\* (srclimit_penalise, srclimit_early_expire_penalties).
THEOREM TablesAreBounded == Spec => []TableBounded
<1>1. TableInv => TableBounded
  BY DEF TableInv, Fits, TableBounded
<1> QED BY <1>1, Empty, TableInvStep, PTL DEF Spec

\* For every configuration: a penalty in force ends only by time or to make
\* room for a new one of its family, with nothing that stays expiring sooner;
\* it keeps being enforced; and only time shortens it below the configured
\* maximum (srclimit_penalise, srclimit_early_expire_penalties,
\* expire_penalties).
THEOREM PenaltiesHold == Spec => PenaltiesStand
<1>1. ASSUME TableInv, [Next]_tab PROVE [Stands]_tab
  <2>1. CASE tab' = Older(tab)
    <3>1. DOMAIN tab' = DOMAIN tab /\ \A b \in DOMAIN tab : tab'[b].active = tab[b].active
      BY <1>1, <2>1, Ages DEF TableInv
    <3> QED BY <2>1, <3>1 DEF Stands
  <2>2. CASE Stood(tab, tab')
    <3>1. Gone(tab, tab') /\ Kept(tab, tab') /\ Table(tab) /\ Table(tab')
      BY <1>1, <2>2 DEF Stood, TableInv
    <3>2. ASSUME NEW b \in DOMAIN tab \cap DOMAIN tab', tab[b].left >= 0
          PROVE  /\ tab[b].active => tab'[b].active
                 /\ tab'[b].left < tab[b].left => tab'[b].left = PenaltyMax
      <4>1. tab[b].left \in Int /\ tab'[b].left \in Int
        BY <3>1 DEF Table
      <4> QED BY <3>1, <3>2, <4>1 DEF Kept
    <3> QED BY <3>1, <3>2 DEF Stands, Gone
  <2> QED BY <1>1, <2>1, <2>2, StepStands
<1>2. TableInv /\ [Next]_tab => [Stands]_tab
  BY <1>1
<1> QED BY <1>2, Empty, TableInvStep, PTL DEF Spec, PenaltiesStand
=====
