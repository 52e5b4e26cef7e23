--------------------------- MODULE ListenerProofs ---------------------------
(***************************************************************************)
(* Proofs about Listener, for any number of slots, processes and sources.  *)
(*                                                                         *)
(* The inductive invariant IInv says that the two counters count what they *)
(* are meant to (Counts), that no two slots share a pipe or a process      *)
(* (Apart), how a slot and its process agree (Owned, Procs), and what may  *)
(* be in a pipe depending on how far both have come (Talk).                *)
(***************************************************************************)
EXTENDS Listener, FiniteSetTheorems, SequenceTheorems, WellFoundedInduction, TLAPS

EarlySlots == {i \in Slots : slot[i].early /\ slot[i].pipe # None}

Counts ==
    /\ active = Cardinality(UsedSlots)
    /\ listening = Cardinality(EarlySlots)

Apart ==
    \A i, j \in Slots : i # j =>
        /\ slot[i].pipe = slot[j].pipe => slot[i].pipe = None
        /\ slot[i].pid = slot[j].pid => slot[i].pid = None

Owned ==
    \A i \in Slots : slot[i].pid # None =>
        /\ proc[slot[i].pid].st # "none"
        /\ proc[slot[i].pid].host = slot[i].host

\* A process with an open pipe has the slot of that pipe; one that has not
\* authenticated has a pipe.
Procs ==
    \A p \in Pids :
        /\ proc[p].st = "waiting" => proc[p].fd # None
        /\ proc[p].st = "ready" /\ proc[p].ours /\ ~proc[p].authed => proc[p].fd # None
        /\ proc[p].fd # None =>
             /\ proc[p].st \in {"waiting", "ready"} /\ ~proc[p].authed
             /\ sock[proc[p].fd].open
             /\ \E i \in Slots : slot[i].pid = p /\ slot[i].pipe = proc[p].fd

\* What a pipe may hold.
Talk ==
    \A i \in Slots : slot[i].pipe # None =>
        LET s == sock[slot[i].pipe]
            p == slot[i].pid
        IN  /\ slot[i].stage = "config" => s.got = 0
            /\ slot[i].stage = "keys" => s.got = 1
            /\ slot[i].early => s.said \in {<<>>, <<0>>, <<0, 1>>}
            /\ s.said # <<>> => slot[i].stage = "done"
            /\ ~slot[i].early => s.said \in {<<>>, <<1>>} /\ slot[i].stage = "done"
            /\ s.open => p # None /\ proc[p].fd = slot[i].pipe
            /\ s.open /\ proc[p].st = "waiting" => slot[i].early /\ s.said = <<>>
            /\ s.open /\ proc[p].st = "ready" =>
                  s.said = IF slot[i].early THEN <<0>> ELSE <<>>

Sources ==
    \A e \in Fds \X Blocks :
        e \in src <=> \E i \in Slots : /\ slot[i].pipe # None /\ slot[i].host # NoHost
                                       /\ e = <<slot[i].pipe, Block[slot[i].host]>>

SourcesLimited ==
    \A b \in Blocks : Cardinality({e \in src : e[2] = b}) <= MaxPersource

Core == TypeOK /\ NoFault /\ Apart /\ Owned /\ Procs /\ Talk
IInv == Core /\ Counts /\ Sources /\ SourcesLimited

----------------------------------------------------------------------------
(* Facts about the sets involved.                                          *)

LEMMA SlotFacts ==
    /\ MaxStartups \in Nat \ {0} /\ MaxPersource \in Nat
    /\ None \notin Pids /\ None \notin Fds /\ None = 0
    /\ Slots \subseteq Nat
    /\ IsFiniteSet(Slots) /\ Cardinality(Slots) = MaxStartups
    /\ IsFiniteSet(Fds) /\ Cardinality(Fds) = MaxStartups + 1
<1>1. MaxStartups \in Nat \ {0} /\ MaxPersource \in Nat
  BY LimitAssumption
<1>2. None \notin Pids /\ None \notin Fds /\ None = 0
  BY StartAssumption, <1>1 DEF None, Fds
<1>3. Slots \subseteq Nat
  BY <1>1 DEF Slots
<1>4. IsFiniteSet(Slots) /\ Cardinality(Slots) = MaxStartups
  BY <1>1, FS_Interval DEF Slots
<1>5. IsFiniteSet(Fds) /\ Cardinality(Fds) = MaxStartups + 1
  BY <1>1, FS_Interval DEF Fds
<1> QED
  BY <1>1, <1>2, <1>3, <1>4, <1>5

LEMMA SlotSetsFinite ==
    /\ IsFiniteSet(UsedSlots) /\ Cardinality(UsedSlots) \in Nat
    /\ Cardinality(UsedSlots) <= MaxStartups
    /\ IsFiniteSet(EarlySlots) /\ Cardinality(EarlySlots) \in Nat
<1>1. UsedSlots \in SUBSET Slots /\ EarlySlots \in SUBSET Slots
  BY DEF UsedSlots, EarlySlots
<1> QED
  BY <1>1, SlotFacts, FS_Subset, FS_CardinalityType

\* A set of naturals that is not empty has a least element.
LEMMA Least ==
    ASSUME NEW T \in SUBSET Nat, T # {}
    PROVE  \E x \in T : \A y \in T : x <= y
<1>1. PICK x \in T : \A y \in T : ~ (<<y, x>> \in OpToRel(<, Nat))
  BY WFMin, NatLessThanWellFounded, Zenon
<1>2. \A y \in T : ~(y < x)
  BY <1>1 DEF OpToRel
<1> QED
  BY <1>2

LEMMA NewSlotFree ==
    ASSUME UsedSlots # Slots
    PROVE  NewSlot \in Slots \ UsedSlots
<1>1. UsedSlots \subseteq Slots
  BY DEF UsedSlots
<1>2. \E i \in Slots \ UsedSlots : \A j \in Slots \ UsedSlots : i <= j
  BY <1>1, Least, SlotFacts
<1> QED
  BY <1>2 DEF NewSlot

LEMMA NewFdFree ==
    ASSUME TypeOK
    PROVE  NewFd \in Fds /\ \A i \in Slots : slot[i].pipe # NewFd
<1>1. \E fd \in Fds : \A i \in Slots : slot[i].pipe # fd
  <2>1. SUFFICES ASSUME \A fd \in Fds : \E i \in Slots : slot[i].pipe = fd
                 PROVE  FALSE
    OBVIOUS
  <2> DEFINE f == [fd \in Fds |-> CHOOSE i \in Slots : slot[i].pipe = fd]
  <2>2. \A fd \in Fds : f[fd] \in Slots /\ slot[f[fd]].pipe = fd
    BY <2>1
  <2>3. f \in [Fds -> Slots]
    BY <2>2
  <2>4. Cardinality(Slots) < Cardinality(Fds)
    BY SlotFacts
  <2>5. \E x, y \in Fds : x # y /\ f[x] = f[y]
    <3> HIDE DEF f
    <3> QED
      BY <2>3, <2>4, SlotFacts, FS_PigeonHole
  <2> QED
    BY <2>2, <2>5
<1> QED
  BY <1>1 DEF NewFd

\* The entries of one block: at most one per pipe.
LEMMA SourcesFinite ==
    ASSUME TypeOK, NEW b
    PROVE  IsFiniteSet({e \in src : e[2] = b})
<1> DEFINE S == {e \in src : e[2] = b}
<1> DEFINE f == [e \in S |-> e[1]]
<1>1. \A e \in S : e \in Fds \X Blocks /\ e[2] = b
  BY DEF TypeOK
<1>2. f \in [S -> Fds]
  BY <1>1
<1>3. \A x, y \in S : f[x] = f[y] => x = y
  BY <1>1
<1>4. f \in Injection(S, Fds)
  <2> HIDE DEF f, S
  <2> QED
    BY <1>2, <1>3 DEF Injection, IsInjective
<1> HIDE DEF f, S
<1>5. IsFiniteSet(S)
  BY <1>4, SlotFacts, FS_Injection
<1> QED
  BY <1>5 DEF S

----------------------------------------------------------------------------
(* Closing a pipe.                                                         *)

ProcRecord == [st : {"none", "waiting", "ready", "zombie"},
               fd : Fds \cup {None}, host : Hosts \cup {NoHost},
               status : PenaltyTypes \cup {"none"},
               authed : BOOLEAN, ours : BOOLEAN]
SockRecord == [open : BOOLEAN, got : 0..2, said : Seq({0, 1})]
SlotRecord == [pipe : Fds \cup {None}, early : BOOLEAN,
               stage : {"config", "keys", "done"},
               pid : Pids \cup {None}, host : Hosts \cup {NoHost}]

LEMMA ClosedSock == Closed \in SockRecord /\ ~Closed.open
<1>1. <<>> \in Seq({0, 1}) /\ 0 \in 0..2
  OBVIOUS
<1>2. Closed \in SockRecord
  BY <1>1, Zenon DEF SockRecord, Closed
<1>3. ~Closed.open
  BY DEF Closed
<1> QED
  BY <1>2, <1>3

\* The listener closes the pipe of slot i, which no process holds any more.
LEMMA CloseStep ==
    ASSUME IInv, NEW i \in Slots, NEW force_final \in BOOLEAN,
           slot[i].pipe # None, force_final => ~slot[i].early,
           \A p \in Pids : proc[p].fd # slot[i].pipe,
           child_close(i, force_final), Hangup(slot[i].pipe),
           listening' = listening - WasListening(i),
           flags' = flags, fault' = fault
    PROVE  IInv'
<1> DEFINE fd == slot[i].pipe
<1> DEFINE final == slot[i].pid = None \/ force_final
<1> DEFINE n == IF final THEN FreeSlot ELSE [slot[i] EXCEPT !.pipe = None]
<1>t. /\ slot \in [Slots -> SlotRecord] /\ fd \in Fds /\ slot[i] \in SlotRecord
      /\ proc \in [Pids -> [st : {"none", "waiting", "ready", "zombie"},
                           fd : Fds \cup {None}, host : Hosts \cup {NoHost},
                           status : PenaltyTypes \cup {"none"},
                           authed : BOOLEAN, ours : BOOLEAN]]
  BY DEF IInv, Core, TypeOK, SlotRecord
<1>1. proc' = proc
  BY <1>t DEF Hangup
<1>2. sock' = [sock EXCEPT ![fd] = Closed]
  BY DEF Hangup
<1>3. slot' = [slot EXCEPT ![i] = n] /\ active' = IF final THEN active - 1 ELSE active
  BY DEF child_close
<1>4. src' = {e \in src : e[1] # fd}
  BY DEF child_close, srclimit_done
<1>5. /\ n \in SlotRecord /\ n.pipe = None /\ n.pid \in {None, slot[i].pid}
      /\ n.pid # None => n.host = slot[i].host
      /\ final => n = FreeSlot
      /\ ~final => n.pid # None
      /\ n.pid # None => ~final
  BY <1>t DEF FreeSlot, SlotRecord
<1> HIDE DEF n
<1>6. /\ slot'[i] = n /\ \A j \in Slots : j # i => slot'[j] = slot[j]
      /\ slot' \in [Slots -> SlotRecord]
  BY <1>t, <1>3, <1>5
<1>7. \A j \in Slots : j # i => slot[j].pipe # fd
  BY DEF IInv, Core, Apart
<1>8. /\ \A f \in Fds : f # fd => sock'[f] = sock[f]
      /\ sock' \in [Fds -> [open : BOOLEAN, got : 0..2, said : Seq({0, 1})]]
  BY <1>2, <1>t DEF IInv, Core, TypeOK, Closed
<1>9. Counts'
  <2>1. EarlySlots' = EarlySlots \ {i}
    BY <1>5, <1>6 DEF EarlySlots
  <2>2. listening' = Cardinality(EarlySlots')
    <3>1. i \in EarlySlots <=> slot[i].early
      BY DEF EarlySlots
    <3>2. WasListening(i) = IF i \in EarlySlots THEN 1 ELSE 0
      BY <3>1 DEF WasListening
    <3>3. Cardinality(EarlySlots \ {i})
            = IF i \in EarlySlots THEN Cardinality(EarlySlots) - 1 ELSE Cardinality(EarlySlots)
      BY FS_RemoveElement, SlotSetsFinite
    <3>4. listening = Cardinality(EarlySlots) /\ Cardinality(EarlySlots) \in Nat
      BY SlotSetsFinite DEF IInv, Counts
    <3> HIDE DEF EarlySlots
    <3> QED
      BY <2>1, <3>2, <3>3, <3>4
  <2>3. i \in UsedSlots
    BY DEF UsedSlots, Used
  <2>4. CASE final
    <3>1. UsedSlots' = UsedSlots \ {i}
      BY <1>5, <1>6, <2>4 DEF UsedSlots, Used, FreeSlot
    <3> QED
      BY <2>2, <2>3, <2>4, <3>1, <1>3, FS_RemoveElement, SlotSetsFinite DEF IInv, Counts
  <2>5. CASE ~final
    <3>1. UsedSlots' = UsedSlots
      BY <1>5, <1>6, <2>5 DEF UsedSlots, Used
    <3> QED
      BY <2>2, <2>5, <3>1, <1>3 DEF IInv, Counts
  <2> QED
    BY <2>4, <2>5
<1>10. TypeOK'
  <2>1. active' \in Nat /\ listening' \in Nat
    <3>1. UsedSlots' \in SUBSET Slots /\ EarlySlots' \in SUBSET Slots
      BY DEF UsedSlots, EarlySlots
    <3> QED
      BY <3>1, <1>9, SlotFacts, FS_Subset, FS_CardinalityType DEF Counts
  <2>2. src' \in SUBSET (Fds \X Blocks)
    BY <1>4 DEF IInv, Core, TypeOK
  <2> QED
    BY <2>1, <2>2, <1>1, <1>6, <1>8 DEF IInv, Core, TypeOK, SlotRecord
<1>11. Apart'
  BY <1>5, <1>6 DEF IInv, Core, Apart
<1>12. Owned'
  BY <1>1, <1>5, <1>6 DEF IInv, Core, Owned
<1>13. Procs'
  <2> SUFFICES ASSUME NEW p \in Pids
               PROVE  /\ proc[p].st = "waiting" => proc[p].fd # None
                      /\ proc[p].st = "ready" /\ proc[p].ours /\ ~proc[p].authed => proc[p].fd # None
                      /\ proc[p].fd # None =>
                            /\ proc[p].st \in {"waiting", "ready"} /\ ~proc[p].authed
                            /\ sock'[proc[p].fd].open
                            /\ \E j \in Slots : slot'[j].pid = p /\ slot'[j].pipe = proc[p].fd
    BY <1>1 DEF Procs
  <2>1. proc[p].fd # None => /\ sock'[proc[p].fd] = sock[proc[p].fd]
                             /\ \E j \in Slots : slot[j].pid = p /\ slot[j].pipe = proc[p].fd /\ j # i
    BY <1>8, <1>t DEF IInv, Core, Procs
  <2> QED
    BY <2>1, <1>6 DEF IInv, Core, Procs
<1>14. Talk'
  <2> SUFFICES ASSUME NEW j \in Slots, slot'[j].pipe # None
               PROVE  /\ j # i /\ slot'[j] = slot[j] /\ slot[j].pipe # None
                      /\ sock'[slot[j].pipe] = sock[slot[j].pipe]
    BY <1>1 DEF IInv, Core, Talk
  <2>1. j # i /\ slot'[j] = slot[j] /\ slot[j] \in SlotRecord
    BY <1>5, <1>6, <1>t
  <2> QED
    BY <2>1, <1>7, <1>8 DEF SlotRecord
<1>15. Sources'
  <2> SUFFICES ASSUME NEW e \in Fds \X Blocks
               PROVE  e \in src' <=> \E j \in Slots : /\ slot'[j].pipe # None /\ slot'[j].host # NoHost
                                                      /\ e = <<slot'[j].pipe, Block[slot'[j].host]>>
    BY DEF Sources
  <2>1. CASE e[1] = fd
    BY <2>1, <1>4, <1>5, <1>6, <1>7
  <2>2. CASE e[1] # fd
    <3>1. e \in src' <=> e \in src
      BY <1>4, <2>2
    <3>2. e \in src <=> \E j \in Slots : /\ slot[j].pipe # None /\ slot[j].host # NoHost
                                          /\ e = <<slot[j].pipe, Block[slot[j].host]>>
      BY DEF IInv, Sources
    <3> QED
      BY <3>1, <3>2, <1>5, <1>6, <2>2
  <2> QED
    BY <2>1, <2>2
<1>16. SourcesLimited'
  <2> SUFFICES ASSUME NEW b \in Blocks
               PROVE  Cardinality({e \in src' : e[2] = b}) <= MaxPersource
    BY DEF SourcesLimited
  <2>1. IsFiniteSet({e \in src : e[2] = b})
    BY SourcesFinite DEF IInv, Core
  <2>2. {e \in src' : e[2] = b} \in SUBSET {e \in src : e[2] = b}
    BY <1>4
  <2>3. Cardinality({e \in src : e[2] = b}) <= MaxPersource
    BY DEF IInv, SourcesLimited
  <2> HIDE DEF fd
  <2>4. Cardinality({e \in src' : e[2] = b}) <= Cardinality({e \in src : e[2] = b})
    BY <2>1, <2>2, FS_Subset
  <2> QED
    BY <2>1, <2>2, <2>3, <2>4, FS_Subset, FS_CardinalityType, SlotFacts
<1> QED
  BY <1>9, <1>10, <1>11, <1>12, <1>13, <1>14, <1>15, <1>16 DEF IInv, Core, NoFault

----------------------------------------------------------------------------
(* Each action preserves the invariant.                                    *)

\* The steps that leave slots, processes and pipes alone.
LEMMA QuietStep ==
    ASSUME IInv, UNCHANGED <<slot, active, listening, src, world, fault>>,
           flags' \in SUBSET {"SIGCHLD", "SIGHUP", "lameduck"}
    PROVE  IInv'
<1> USE DEF world
<1>1. Core'
  BY DEF IInv, Core, TypeOK, NoFault, Apart, Owned, Procs, Talk
<1>2. UsedSlots' = UsedSlots /\ EarlySlots' = EarlySlots
  BY DEF UsedSlots, EarlySlots
<1>3. Counts'
  BY <1>2 DEF IInv, Counts
<1>4. Sources' /\ SourcesLimited'
  BY DEF IInv, Sources, SourcesLimited
<1> QED
  BY <1>1, <1>3, <1>4 DEF IInv

LEMMA WriteStep ==
    ASSUME IInv, NEW i \in Slots, WriteState(i)
    PROVE  IInv'
<1> DEFINE fd == slot[i].pipe
<1>t. /\ slot \in [Slots -> SlotRecord] /\ fd \in Fds /\ fd # None
      /\ sock \in [Fds -> [open : BOOLEAN, got : 0..2, said : Seq({0, 1})]]
  BY DEF IInv, Core, TypeOK, SlotRecord, WriteState
<1>1. CASE ~sock[fd].open
  <2>1. \A p \in Pids : proc[p].fd # fd
    BY <1>1, <1>t DEF IInv, Core, Procs
  <2>2. child_close(i, FALSE) /\ Hangup(fd) /\ listening' = listening - WasListening(i)
    BY <1>1 DEF WriteState
  <2>3. flags' = flags /\ fault' = fault
    BY DEF WriteState
  <2> QED
    BY <2>1, <2>2, <2>3, <1>t, CloseStep, Zenon
<1>2. CASE sock[fd].open
  <2>1. /\ slot' = [slot EXCEPT ![i].stage = IF @ = "config" THEN "keys" ELSE "done"]
        /\ sock' = [sock EXCEPT ![fd].got = @ + 1]
        /\ UNCHANGED <<active, listening, src, proc, flags, fault>>
        /\ slot[i].stage # "done"
    BY <1>2 DEF WriteState
  <2>2. slot[i].early /\ sock[fd].said = <<>>
    BY <2>1, <1>t DEF IInv, Core, Talk
  <2>3. sock[fd].got = IF slot[i].stage = "config" THEN 0 ELSE 1
    BY <2>1, <1>t DEF IInv, Core, Talk, SlotRecord
  <2>4. /\ slot' \in [Slots -> SlotRecord]
        /\ \A j \in Slots : j # i => slot'[j] = slot[j]
        /\ \A j \in Slots : /\ slot'[j].pipe = slot[j].pipe /\ slot'[j].pid = slot[j].pid
                            /\ slot'[j].early = slot[j].early /\ slot'[j].host = slot[j].host
        /\ slot'[i].stage = IF slot[i].stage = "config" THEN "keys" ELSE "done"
    BY <2>1, <1>t DEF SlotRecord
  <2>5. /\ sock' \in [Fds -> [open : BOOLEAN, got : 0..2, said : Seq({0, 1})]]
        /\ \A f \in Fds : f # fd => sock'[f] = sock[f]
        /\ \A f \in Fds : sock'[f].open = sock[f].open /\ sock'[f].said = sock[f].said
        /\ sock'[fd].got = IF slot[i].stage = "config" THEN 1 ELSE 2
    <3>1. sock[fd] \in [open : BOOLEAN, got : 0..2, said : Seq({0, 1})]
      BY <1>t
    <3>2. sock[fd].got + 1 = (IF slot[i].stage = "config" THEN 1 ELSE 2) /\ sock[fd].got + 1 \in 0..2
      BY <2>3
    <3>3. sock' = [sock EXCEPT ![fd] = [sock[fd] EXCEPT !.got = sock[fd].got + 1]]
      BY <2>1, Zenon
    <3>4. [sock[fd] EXCEPT !.got = sock[fd].got + 1] \in [open : BOOLEAN, got : 0..2, said : Seq({0, 1})]
      BY <3>1, <3>2
    <3>5. /\ \A f \in Fds : f # fd => sock'[f] = sock[f]
          /\ sock'[fd] = [sock[fd] EXCEPT !.got = sock[fd].got + 1]
          /\ sock' \in [Fds -> [open : BOOLEAN, got : 0..2, said : Seq({0, 1})]]
      BY <3>3, <3>4, <1>t
    <3>6. /\ sock'[fd].open = sock[fd].open /\ sock'[fd].said = sock[fd].said
          /\ sock'[fd].got = sock[fd].got + 1
      BY <3>1, <3>5
    <3> QED
      BY <3>2, <3>5, <3>6, <1>t
  <2>6. \A j \in Slots : j # i => slot[j].pipe # fd
    BY <1>t DEF IInv, Core, Apart
  <2>7. TypeOK' /\ NoFault'
    BY <2>1, <2>4, <2>5 DEF IInv, Core, TypeOK, NoFault, SlotRecord
  <2>8. Apart' /\ Owned'
    BY <2>1, <2>4 DEF IInv, Core, Apart, Owned
  <2>9. Procs'
    BY <2>1, <2>4, <2>5 DEF IInv, Core, Procs, TypeOK
  <2>10. Talk'
    <3> SUFFICES ASSUME NEW j \in Slots, slot[j].pipe # None
                 PROVE  Talk!(j)'
      BY <2>4 DEF Talk
    <3>1. CASE j = i
      BY <3>1, <2>1, <2>2, <2>4, <2>5, <1>t DEF IInv, Core, Talk
    <3>2. CASE j # i
      <4>1. slot'[j] = slot[j] /\ sock'[slot[j].pipe] = sock[slot[j].pipe] /\ proc' = proc
        BY <3>2, <2>1, <2>4, <2>5, <2>6, <1>t DEF SlotRecord
      <4> QED
        BY <4>1 DEF IInv, Core, Talk
    <3> QED
      BY <3>1, <3>2
  <2>11. Counts'
    <3>1. EarlySlots' = EarlySlots
      BY <2>4 DEF EarlySlots
    <3>2. Used(slot'[i]) /\ Used(slot[i])
      BY <2>4, <1>t DEF Used
    <3>3. \A j \in Slots : Used(slot'[j]) <=> Used(slot[j])
      BY <2>4, <3>2
    <3>4. UsedSlots' = UsedSlots
      BY <3>3 DEF UsedSlots
    <3> QED
      BY <3>1, <3>4, <2>1 DEF IInv, Counts
  <2>12. Sources' /\ SourcesLimited'
    BY <2>1, <2>4 DEF IInv, Sources, SourcesLimited
  <2> QED
    BY <2>7, <2>8, <2>9, <2>10, <2>11, <2>12 DEF IInv, Core
<1> QED
  BY <1>1, <1>2

LEMMA PipeClosedStep ==
    ASSUME IInv, NEW i \in Slots, PipeClosed(i)
    PROVE  IInv'
<1> DEFINE fd == slot[i].pipe
<1>1. fd \in Fds /\ fd # None /\ ~sock[fd].open
  BY DEF IInv, Core, TypeOK, PipeClosed
<1>2. \A p \in Pids : proc[p].fd # fd
  BY <1>1 DEF IInv, Core, Procs
<1>3. child_close(i, FALSE) /\ Hangup(fd) /\ listening' = listening - WasListening(i)
  BY DEF PipeClosed
<1>4. flags' = flags /\ fault' = fault
  BY DEF PipeClosed
<1> QED
  BY <1>1, <1>2, <1>3, <1>4, CloseStep, Zenon

LEMMA PipeMessageStep ==
    ASSUME IInv, NEW i \in Slots, PipeMessage(i)
    PROVE  IInv'
<1> DEFINE fd == slot[i].pipe
<1>t. /\ slot \in [Slots -> SlotRecord] /\ fd \in Fds /\ fd # None
      /\ sock \in [Fds -> [open : BOOLEAN, got : 0..2, said : Seq({0, 1})]]
      /\ sock[fd].said # <<>>
  BY DEF IInv, Core, TypeOK, SlotRecord, PipeMessage
<1>1. /\ slot[i].stage = "done"
      /\ slot[i].early => sock[fd].said \in {<<0>>, <<0, 1>>}
      /\ ~slot[i].early => sock[fd].said = <<1>>
  BY <1>t DEF IInv, Core, Talk
<1>2. CASE slot[i].early
  <2>1. Head(sock[fd].said) = 0
    BY <1>1, <1>2
  <2>2. /\ slot' = [slot EXCEPT ![i].early = FALSE]
        /\ listening' = listening - 1
        /\ sock' = [sock EXCEPT ![fd].said = Tail(@)]
        /\ UNCHANGED <<active, src, proc, fault, flags>>
    BY <1>1, <1>2, <2>1 DEF PipeMessage
  <2>3. /\ slot' \in [Slots -> SlotRecord]
        /\ \A j \in Slots : j # i => slot'[j] = slot[j]
        /\ \A j \in Slots : /\ slot'[j].pipe = slot[j].pipe /\ slot'[j].pid = slot[j].pid
                            /\ slot'[j].stage = slot[j].stage /\ slot'[j].host = slot[j].host
        /\ slot'[i].early = FALSE
    BY <2>2, <1>t DEF SlotRecord
  <2>4. Tail(sock[fd].said) \in Seq({0, 1})
    BY <1>t
  <2>5. /\ sock' \in [Fds -> [open : BOOLEAN, got : 0..2, said : Seq({0, 1})]]
        /\ \A f \in Fds : f # fd => sock'[f] = sock[f]
        /\ \A f \in Fds : sock'[f].open = sock[f].open /\ sock'[f].got = sock[f].got
        /\ sock'[fd].said = Tail(sock[fd].said)
    <3> DEFINE S == Seq({0, 1})
    <3>1. sock \in [Fds -> [open : BOOLEAN, got : 0..2, said : S]] /\ Tail(sock[fd].said) \in S
      BY <1>t, <2>4
    <3> HIDE DEF S
    <3>2. sock' \in [Fds -> [open : BOOLEAN, got : 0..2, said : S]]
      BY <3>1, <2>2, <1>t
    <3>3. /\ \A f \in Fds : f # fd => sock'[f] = sock[f]
          /\ \A f \in Fds : sock'[f].open = sock[f].open /\ sock'[f].got = sock[f].got
          /\ sock'[fd].said = Tail(sock[fd].said)
      BY <3>1, <2>2, <1>t
    <3> QED
      BY <3>2, <3>3 DEF S
  <2>6. \A j \in Slots : j # i => slot[j].pipe # fd
    BY <1>t DEF IInv, Core, Apart
  <2>7. Counts'
    <3>1. EarlySlots' = EarlySlots \ {i} /\ i \in EarlySlots
      BY <2>3, <1>2, <1>t DEF EarlySlots
    <3>2. UsedSlots' = UsedSlots
      BY <2>3, <1>t DEF UsedSlots, Used
    <3>3. listening = Cardinality(EarlySlots)
      BY DEF IInv, Counts
    <3>4. Cardinality(EarlySlots \ {i}) = Cardinality(EarlySlots) - 1
      BY <3>1, FS_RemoveElement, SlotSetsFinite
    <3> QED
      BY <3>1, <3>2, <3>3, <3>4, <2>2 DEF IInv, Counts
  <2>8. TypeOK' /\ NoFault'
    <3>1. listening' \in Nat
      <4>1. EarlySlots' \in SUBSET Slots
        BY DEF EarlySlots
      <4> QED
        BY <4>1, <2>7, SlotFacts, FS_Subset, FS_CardinalityType DEF Counts
    <3> QED
      BY <3>1, <2>2, <2>3, <2>5 DEF IInv, Core, TypeOK, NoFault, SlotRecord
  <2>9. Apart' /\ Owned'
    BY <2>2, <2>3 DEF IInv, Core, Apart, Owned
  <2>10. Procs'
    BY <2>2, <2>3, <2>5 DEF IInv, Core, Procs, TypeOK
  <2>11. Talk'
    <3> SUFFICES ASSUME NEW j \in Slots, slot[j].pipe # None
                 PROVE  Talk!(j)'
      BY <2>3 DEF Talk
    <3>1. CASE j = i
      <4>t. Tail(<<0>>) = <<>> /\ Tail(<<0, 1>>) = <<1>>
        BY SMTT(30)
      <4>1. sock'[fd].said \in {<<>>, <<1>>}
        BY <1>1, <1>2, <2>5, <4>t, Zenon
      <4>2. sock'[fd].open => sock[fd].said = <<0>> /\ proc[slot[i].pid].st # "waiting"
        <5>1. sock[fd].open /\ proc[slot[i].pid].st = "waiting" => FALSE
          BY <1>t DEF IInv, Core, Talk
        <5>2. sock[fd].open => proc[slot[i].pid].st \in {"waiting", "ready"}
          BY <1>t DEF IInv, Core, Talk, Procs, TypeOK
        <5>3. sock[fd].open /\ proc[slot[i].pid].st = "ready" => sock[fd].said = <<0>>
          BY <1>t, <1>2 DEF IInv, Core, Talk
        <5> QED
          BY <5>1, <5>2, <5>3, <2>5, <1>t
      <4>3. sock'[fd].open => sock'[fd].said = <<>>
        BY <4>2, <2>5, <4>t, Zenon
      <4>4. sock[fd].open => slot[i].pid # None /\ proc[slot[i].pid].fd = fd
        BY <1>t DEF IInv, Core, Talk
      <4>5. /\ sock'[fd].open = sock[fd].open /\ proc' = proc /\ slot'[i].early = FALSE
            /\ slot'[i].pipe = fd /\ slot'[i].pid = slot[i].pid /\ slot'[i].stage = "done"
        BY <1>1, <2>2, <2>3, <2>5, <1>t
      <4> QED
        BY <3>1, <4>1, <4>2, <4>3, <4>4, <4>5
    <3>2. CASE j # i
      <4>1. slot'[j] = slot[j] /\ sock'[slot[j].pipe] = sock[slot[j].pipe] /\ proc' = proc
        BY <3>2, <2>2, <2>3, <2>5, <2>6, <1>t DEF SlotRecord
      <4> QED
        BY <4>1 DEF IInv, Core, Talk
    <3> QED
      BY <3>1, <3>2
  <2>12. Sources' /\ SourcesLimited'
    BY <2>2, <2>3 DEF IInv, Sources, SourcesLimited
  <2> QED
    BY <2>7, <2>8, <2>9, <2>10, <2>11, <2>12 DEF IInv, Core
<1>3. CASE ~slot[i].early
  <2>1. Head(sock[fd].said) = 1
    BY <1>1, <1>3
  <2>2. child_close(i, TRUE) /\ Hangup(fd) /\ UNCHANGED <<listening, fault, flags>>
    BY <1>1, <1>3, <2>1 DEF PipeMessage
  <2>3. \A p \in Pids : proc[p].fd # fd
    <3> SUFFICES ASSUME NEW p \in Pids, proc[p].fd = fd
                 PROVE  FALSE
      OBVIOUS
    <3>1. PICK j \in Slots : slot[j].pid = p /\ slot[j].pipe = fd
      BY <1>t DEF IInv, Core, Procs
    <3>2. j = i
      BY <3>1, <1>t DEF IInv, Core, Apart
    <3>3. sock[fd].open /\ proc[p].st \in {"waiting", "ready"}
      BY <1>t DEF IInv, Core, Procs
    <3> QED
      BY <3>1, <3>2, <3>3, <1>t, <1>3 DEF IInv, Core, Talk
  <2>4. listening' = listening - WasListening(i)
    BY <2>2, <1>3 DEF WasListening, IInv, Core, TypeOK
  <2> QED
    BY <2>2, <2>3, <2>4, <1>t, <1>3, CloseStep, Zenon
<1> QED
  BY <1>2, <1>3

\* should_drop_connection keeps a slot for every connection it lets through.
LEMMA SlotLeft ==
    ASSUME IInv, NEW h, NEW r \in {0, 99}, ~drop_connection(h, r)
    PROVE  UsedSlots # Slots /\ active < MaxStartups
<1>1. active \in Nat /\ active = Cardinality(UsedSlots)
  BY DEF IInv, Core, TypeOK, Counts
<1>2. ~(r < DropProbability(active))
  BY DEF drop_connection
<1>3. active < MaxStartups
  <2> SUFFICES ASSUME active >= MaxStartups PROVE FALSE
    BY <1>1, SlotFacts
  <2>1. Begin <= active /\ Begin \in Nat
    BY <1>1, StartAssumption, SlotFacts
  <2>2. DropProbability(active) = 100
    BY <2>1, <1>1 DEF DropProbability
  <2> QED
    BY <2>2, <1>2
<1> QED
  BY <1>1, <1>3, SlotFacts

LEMMA AcceptStep ==
    ASSUME IInv, NEW h \in Hosts \cup {NoHost}, NEW r \in {0, 99},
           NEW pid \in Pids \cup {None}, AcceptConnection(h, r, pid)
    PROVE  IInv'
<1> DEFINE k == NewSlot
<1> DEFINE fd == NewFd
<1> DEFINE n == [pipe |-> fd, early |-> TRUE, stage |-> "config", pid |-> pid, host |-> h]
<1> DEFINE q == [NoProc EXCEPT !.st = "waiting", !.fd = fd, !.host = h, !.ours = TRUE]
<1> DEFINE z == [Closed EXCEPT !.open = (pid # None)]
<1>1. UsedSlots # Slots /\ active < MaxStartups /\ active \in Nat
  BY SlotLeft DEF AcceptConnection, IInv, Core, TypeOK
<1>2. /\ slot' = [slot EXCEPT ![k] = n]
      /\ active' = active + 1 /\ listening' = listening + 1
      /\ sock' = [sock EXCEPT ![fd] = z]
      /\ proc' = IF pid = None THEN proc ELSE [proc EXCEPT ![pid] = q]
      /\ fault' = fault /\ flags' = flags /\ src' = Stored(src, h, fd)
      /\ pid # None => proc[pid].st = "none"
  BY <1>1, SlotFacts DEF AcceptConnection
<1>t. /\ slot \in [Slots -> SlotRecord] /\ proc \in [Pids -> ProcRecord]
      /\ sock \in [Fds -> SockRecord]
  BY DEF IInv, Core, TypeOK, SlotRecord, ProcRecord, SockRecord
<1>3. k \in Slots \ UsedSlots
  BY <1>1, NewSlotFree
<1>4. fd \in Fds /\ fd # None /\ \A i \in Slots : slot[i].pipe # fd
  BY NewFdFree, SlotFacts DEF IInv, Core
<1> HIDE DEF k, fd
<1>5. slot[k].pipe = None /\ slot[k].pid = None /\ slot[k].stage = "done"
  BY <1>3, <1>t DEF UsedSlots, Used
<1>6. /\ n \in SlotRecord /\ n.pipe = fd /\ n.early /\ n.stage = "config" /\ n.pid = pid /\ n.host = h
  BY <1>4 DEF SlotRecord
<1>7. /\ q \in ProcRecord /\ q.st = "waiting" /\ q.fd = fd /\ q.host = h /\ ~q.authed
  BY <1>4 DEF ProcRecord, NoProc
<1>8. z \in SockRecord /\ (z.open <=> pid # None) /\ z.got = 0 /\ z.said = <<>>
  <2>1. z = [open |-> (pid # None), got |-> 0, said |-> <<>>]
    BY DEF Closed
  <2>2. <<>> \in Seq({0, 1}) /\ 0 \in 0..2 /\ (pid # None) \in BOOLEAN
    OBVIOUS
  <2>3. z \in SockRecord
    BY <2>1, <2>2, Zenon DEF SockRecord
  <2>4. z.got = 0 /\ z.said = <<>>
    BY <2>1
  <2>5. z.open = (pid # None)
    <3>1. CASE pid = None
      <4>1. z = [open |-> FALSE, got |-> 0, said |-> <<>>]
        BY <2>1, <3>1, Zenon
      <4> HIDE DEF z
      <4> QED
        BY <4>1, <3>1
    <3>2. CASE pid # None
      <4>1. (pid # None) = TRUE
        BY <3>2
      <4>2. z = [open |-> TRUE, got |-> 0, said |-> <<>>]
        BY <2>1, <4>1, Zenon
      <4> HIDE DEF z
      <4> QED
        BY <4>1, <4>2
    <3> QED
      BY <3>1, <3>2
  <2> QED
    BY <2>3, <2>4, <2>5, Zenon
<1> HIDE DEF n, q, z
<1>9. /\ slot' \in [Slots -> SlotRecord] /\ slot'[k] = n
      /\ \A j \in Slots : j # k => slot'[j] = slot[j]
  BY <1>2, <1>3, <1>6, <1>t
<1>10. /\ sock' \in [Fds -> SockRecord] /\ sock'[fd] = z
       /\ \A f \in Fds : f # fd => sock'[f] = sock[f]
  BY <1>2, <1>4, <1>8, <1>t
<1>11. /\ proc' \in [Pids -> ProcRecord]
       /\ pid # None => proc'[pid] = q
       /\ \A p \in Pids : p # pid => proc'[p] = proc[p]
  BY <1>2, <1>7, <1>t, SlotFacts
<1>12. \A p \in Pids : proc[p].fd # fd
  BY <1>4 DEF IInv, Core, Procs
<1>13. \A j \in Slots : pid # None => slot[j].pid # pid
  BY <1>2 DEF IInv, Core, Owned
<1>14. Counts'
  <2>1. UsedSlots' = UsedSlots \cup {k}
    BY <1>3, <1>4, <1>6, <1>9 DEF UsedSlots, Used
  <2>2. EarlySlots' = EarlySlots \cup {k} /\ k \notin EarlySlots
    BY <1>3, <1>4, <1>5, <1>6, <1>9 DEF EarlySlots
  <2>3. Cardinality(UsedSlots \cup {k}) = Cardinality(UsedSlots) + 1
    BY <1>3, FS_AddElement, SlotSetsFinite
  <2>4. Cardinality(EarlySlots \cup {k}) = Cardinality(EarlySlots) + 1
    BY <2>2, FS_AddElement, SlotSetsFinite
  <2> QED
    BY <2>1, <2>2, <2>3, <2>4, <1>2 DEF IInv, Counts
<1>15. src' \in SUBSET (Fds \X Blocks)
  BY <1>2, <1>4 DEF Stored, IInv, Core, TypeOK, Blocks
<1>16. TypeOK' /\ NoFault'
  <2>1. active' \in Nat /\ listening' \in Nat
    BY <1>2 DEF IInv, Core, TypeOK
  <2> QED
    BY <2>1, <1>2, <1>9, <1>10, <1>11, <1>15
    DEF IInv, Core, TypeOK, NoFault, SlotRecord, ProcRecord, SockRecord
<1>17. Apart'
  BY <1>4, <1>6, <1>9, <1>13 DEF IInv, Core, Apart
<1>18. Owned'
  <2> SUFFICES ASSUME NEW j \in Slots, slot'[j].pid # None
               PROVE  /\ proc'[slot'[j].pid].st # "none"
                      /\ proc'[slot'[j].pid].host = slot'[j].host
    BY DEF Owned
  <2>1. CASE j = k
    BY <2>1, <1>6, <1>7, <1>9, <1>11
  <2>2. CASE j # k
    BY <2>2, <1>9, <1>11, <1>13, <1>t DEF IInv, Core, Owned, SlotRecord
  <2> QED
    BY <2>1, <2>2
<1>19. Procs'
  <2> SUFFICES ASSUME NEW p \in Pids
               PROVE  Procs!(p)'
    BY DEF Procs
  <2>1. CASE p = pid
    <3>1. proc'[p] = q /\ pid # None
      BY <2>1, <1>11, SlotFacts
    <3>2. sock'[q.fd].open
      BY <3>1, <1>7, <1>8, <1>10
    <3>3. slot'[k].pid = p /\ slot'[k].pipe = q.fd
      BY <2>1, <1>6, <1>7, <1>9
    <3> QED
      BY <3>1, <3>2, <3>3, <1>3, <1>4, <1>7
  <2>2. CASE p # pid
    <3>1. proc'[p] = proc[p]
      BY <2>2, <1>11
    <3>2. proc[p].fd # None => sock'[proc[p].fd] = sock[proc[p].fd]
      BY <1>10, <1>12, <1>t DEF ProcRecord
    <3>3. proc[p].fd # None =>
             \E j \in Slots : slot'[j].pid = p /\ slot'[j].pipe = proc[p].fd
      <4> SUFFICES ASSUME proc[p].fd # None
                   PROVE  \E j \in Slots : slot'[j].pid = p /\ slot'[j].pipe = proc[p].fd
        OBVIOUS
      <4>1. PICK j \in Slots : slot[j].pid = p /\ slot[j].pipe = proc[p].fd
        BY DEF IInv, Core, Procs
      <4>2. j # k
        BY <4>1, <1>5
      <4> QED
        BY <4>1, <4>2, <1>9
    <3> QED
      BY <3>1, <3>2, <3>3 DEF IInv, Core, Procs
  <2> QED
    BY <2>1, <2>2
<1>20. Talk'
  <2> SUFFICES ASSUME NEW j \in Slots, slot'[j].pipe # None
               PROVE  Talk!(j)'
    BY DEF Talk
  <2>1. CASE j = k
    BY <2>1, <1>6, <1>7, <1>8, <1>9, <1>10, <1>11
  <2>2. CASE j # k
    <3>1. slot'[j] = slot[j] /\ slot[j].pipe # None
      BY <2>2, <1>9
    <3>2. sock'[slot[j].pipe] = sock[slot[j].pipe]
      BY <3>1, <1>4, <1>10, <1>t DEF SlotRecord
    <3>3. slot[j].pid # None => proc'[slot[j].pid] = proc[slot[j].pid]
      BY <1>11, <1>13, <1>t DEF SlotRecord
    <3> QED
      BY <3>1, <3>2, <3>3 DEF IInv, Core, Talk
  <2> QED
    BY <2>1, <2>2
<1>21. Sources'
  <2> SUFFICES ASSUME NEW e \in Fds \X Blocks
               PROVE  Sources!(e)'
    BY DEF Sources
  <2>1. \A j \in Slots : slot[j].pipe # None => j # k /\ slot'[j] = slot[j]
    BY <1>5, <1>9
  <2>2. (\E j \in Slots : /\ slot'[j].pipe # None /\ slot'[j].host # NoHost
                          /\ e = <<slot'[j].pipe, Block[slot'[j].host]>>)
        <=> \/ h # NoHost /\ e = <<fd, Block[h]>>
            \/ \E j \in Slots : /\ slot[j].pipe # None /\ slot[j].host # NoHost
                                /\ e = <<slot[j].pipe, Block[slot[j].host]>>
    BY <2>1, <1>3, <1>4, <1>6, <1>9
  <2>3. e \in src' <=> (h # NoHost /\ e = <<fd, Block[h]>>) \/ e \in src
    BY <1>2 DEF Stored
  <2> QED
    BY <2>2, <2>3 DEF IInv, Sources
<1>22. SourcesLimited'
  <2> SUFFICES ASSUME NEW b \in Blocks
               PROVE  Cardinality({e \in src' : e[2] = b}) <= MaxPersource
    BY DEF SourcesLimited
  <2> DEFINE S == {e \in src : e[2] = b}
  <2>1. Cardinality(S) <= MaxPersource /\ IsFiniteSet(S)
    BY SourcesFinite DEF IInv, Core, SourcesLimited
  <2>2. CASE h = NoHost \/ Block[h] # b
    <3>1. {e \in src' : e[2] = b} = S
      BY <2>2, <1>2 DEF Stored
    <3> QED
      BY <3>1, <2>1
  <2>3. CASE h # NoHost /\ Block[h] = b
    <3>1. {e \in src' : e[2] = b} = S \cup {<<fd, b>>}
      BY <2>3, <1>2 DEF Stored
    <3>2. Cardinality(S) < MaxPersource
      BY <2>3 DEF AcceptConnection, drop_connection, srclimit_check_allow
    <3> DEFINE x == <<fd, b>>
    <3>3. Cardinality(S) \in Nat
      BY <2>1, FS_CardinalityType, Zenon
    <3>4. Cardinality(S \cup {x}) = IF x \in S THEN Cardinality(S) ELSE Cardinality(S) + 1
      BY <2>1, FS_AddElement, Zenon
    <3> HIDE DEF S, x
    <3>5. Cardinality(S \cup {x}) <= MaxPersource
      BY <3>2, <3>3, <3>4, SlotFacts
    <3> QED
      BY <3>1, <3>5, Zenon DEF x
  <2> QED
    BY <2>2, <2>3
<1> QED
  BY <1>14, <1>16, <1>17, <1>18, <1>19, <1>20, <1>21, <1>22 DEF IInv, Core

\* Exited processes hold no pipe, so reaping them only frees slots whose
\* pipe is closed.
LEMMA ReapStep ==
    ASSUME IInv, ChildReapAllExited
    PROVE  IInv'
<1> DEFINE finished == {i \in Reaped : slot[i].pipe = None}
<1>t. /\ slot \in [Slots -> SlotRecord] /\ proc \in [Pids -> ProcRecord]
      /\ flags \in SUBSET {"SIGCHLD", "SIGHUP", "lameduck"}
  BY DEF IInv, Core, TypeOK, SlotRecord, ProcRecord
<1>1. /\ slot' = [i \in Slots |-> CASE i \in finished -> FreeSlot
                                    [] i \in Reaped \ finished -> [slot[i] EXCEPT !.pid = None]
                                    [] OTHER -> slot[i]]
      /\ active' = active - Cardinality(finished)
      /\ proc' = [p \in Pids |-> IF p \in Zombies THEN NoProc ELSE proc[p]]
      /\ fault' = IF Cardinality(finished) > active THEN "underflow" ELSE fault
      /\ flags' = flags \ {"SIGCHLD"}
      /\ UNCHANGED <<listening, src, sock>>
  BY DEF ChildReapAllExited
<1>2. /\ Reaped \subseteq Slots /\ finished \subseteq Reaped
      /\ \A i \in Slots : i \in Reaped <=> slot[i].pid \in Zombies
      /\ Zombies \subseteq Pids /\ \A p \in Pids : p \in Zombies <=> proc[p].st = "zombie"
  BY DEF Reaped, Zombies
<1>3. FreeSlot \in SlotRecord /\ NoProc \in ProcRecord
  BY DEF FreeSlot, NoProc, SlotRecord, ProcRecord
<1>4. ASSUME NEW i \in Slots
      PROVE  /\ slot'[i] \in SlotRecord /\ slot'[i].pipe = slot[i].pipe
             /\ slot'[i].pid = IF i \in Reaped THEN None ELSE slot[i].pid
             /\ slot[i].pipe # None =>
                  /\ slot'[i].early = slot[i].early /\ slot'[i].stage = slot[i].stage
                  /\ slot'[i].host = slot[i].host
             /\ i \notin Reaped => slot'[i] = slot[i]
             /\ i \in finished => slot'[i] = FreeSlot
  <2>1. CASE i \in finished
    <3>1. slot'[i] = FreeSlot /\ i \in Reaped /\ slot[i].pipe = None
      BY <2>1, <1>1, <1>2
    <3> QED
      BY <3>1, <1>3 DEF FreeSlot
  <2>2. CASE i \in Reaped \ finished
    <3>1. slot'[i] = [slot[i] EXCEPT !.pid = None]
      BY <2>2, <1>1
    <3> QED
      BY <3>1, <2>2, <1>t DEF SlotRecord
  <2>3. CASE i \notin Reaped
    BY <2>3, <1>1, <1>2, <1>t
  <2> QED
    BY <2>1, <2>2, <2>3
<1>5. slot' \in [Slots -> SlotRecord]
  BY <1>1, <1>4
<1>6. /\ proc' \in [Pids -> ProcRecord]
      /\ \A p \in Pids : proc'[p] = IF p \in Zombies THEN NoProc ELSE proc[p]
  BY <1>1, <1>3, <1>t
<1>7. \A p \in Zombies : proc[p].fd = None
  BY <1>2 DEF IInv, Core, Procs
<1>8. /\ finished \subseteq UsedSlots /\ UsedSlots' = UsedSlots \ finished
  <2>1. finished \subseteq UsedSlots
    BY <1>2, SlotFacts DEF UsedSlots, Used
  <2>2. ASSUME NEW i \in Slots
        PROVE  Used(slot'[i]) <=> Used(slot[i]) /\ i \notin finished
    <3>1. CASE i \in finished
      BY <3>1, <1>4 DEF Used, FreeSlot
    <3>2. CASE i \in Reaped \ finished
      BY <3>2, <1>4 DEF Used
    <3>3. CASE i \notin Reaped
      BY <3>3, <1>2, <1>4
    <3> QED
      BY <3>1, <3>2, <3>3
  <2> QED
    BY <2>1, <2>2 DEF UsedSlots
<1> HIDE DEF finished
<1>9. Counts' /\ fault' = "none" /\ active' \in Nat
  <2>1. EarlySlots' = EarlySlots
    BY <1>4 DEF EarlySlots
  <2>2. /\ Cardinality(UsedSlots \ finished) = Cardinality(UsedSlots) - Cardinality(UsedSlots \cap finished)
        /\ IsFiniteSet(UsedSlots \ finished)
    BY SlotSetsFinite, FS_Difference, Zenon
  <2>3. UsedSlots \cap finished = finished
    BY <1>8
  <2>4. Cardinality(finished) <= Cardinality(UsedSlots) /\ Cardinality(finished) \in Nat
    BY <1>8, SlotSetsFinite, FS_Subset, FS_CardinalityType
  <2>5. active = Cardinality(UsedSlots) /\ listening = Cardinality(EarlySlots) /\ fault = "none"
    BY DEF IInv, Core, NoFault, Counts
  <2>6. active' = active - Cardinality(finished)
    BY <1>1
  <2>7. active' \in Nat /\ ~(Cardinality(finished) > active)
    BY <2>4, <2>5, <2>6, SlotSetsFinite
  <2>8. fault' = "none"
    BY <2>5, <2>7, <1>1
  <2>9. active' = Cardinality(UsedSlots')
    BY <2>2, <2>3, <2>5, <2>6, <1>8
  <2>10. listening' = Cardinality(EarlySlots')
    BY <2>1, <2>5, <1>1
  <2> QED
    BY <2>7, <2>8, <2>9, <2>10 DEF Counts
<1>10. TypeOK' /\ NoFault'
  BY <1>1, <1>5, <1>6, <1>9 DEF IInv, Core, TypeOK, NoFault, SlotRecord, ProcRecord
<1>11. Apart'
  BY <1>4 DEF IInv, Core, Apart
<1>12. Owned'
  <2> SUFFICES ASSUME NEW i \in Slots, slot'[i].pid # None
               PROVE  Owned!(i)!2'
    BY DEF Owned
  <2>1. i \notin Reaped /\ slot'[i] = slot[i] /\ slot[i].pid \in Pids
    BY <1>4, <1>t DEF SlotRecord
  <2>2. proc'[slot[i].pid] = proc[slot[i].pid]
    BY <2>1, <1>2, <1>6
  <2> QED
    BY <2>1, <2>2 DEF IInv, Core, Owned
<1>13. Procs'
  <2> SUFFICES ASSUME NEW p \in Pids
               PROVE  Procs!(p)'
    BY DEF Procs
  <2>1. CASE p \in Zombies
    BY <2>1, <1>6 DEF NoProc
  <2>2. CASE p \notin Zombies
    <3>1. proc'[p] = proc[p]
      BY <2>2, <1>6
    <3>2. \A j \in Slots : slot[j].pid = p => slot'[j] = slot[j]
      BY <2>2, <1>2, <1>4
    <3>3. proc[p].fd # None =>
             \E j \in Slots : slot'[j].pid = p /\ slot'[j].pipe = proc[p].fd
      BY <3>2 DEF IInv, Core, Procs
    <3>4. sock' = sock
      BY <1>1
    <3> QED
      BY <3>1, <3>3, <3>4 DEF IInv, Core, Procs
  <2> QED
    BY <2>1, <2>2
<1>14. Talk'
  <2> SUFFICES ASSUME NEW j \in Slots, slot'[j].pipe # None
               PROVE  Talk!(j)'
    BY DEF Talk
  <2>1. slot[j].pipe # None /\ slot'[j].pipe = slot[j].pipe
    BY <1>4
  <2>2. CASE j \in Reaped
    <3>1. ~sock[slot[j].pipe].open
      BY <2>1, <2>2, <1>2, <1>7 DEF IInv, Core, Talk
    <3>2. sock' = sock
      BY <1>1
    <3>3. slot'[j].early = slot[j].early /\ slot'[j].stage = slot[j].stage
      BY <2>1, <1>4
    <3> QED
      BY <2>1, <3>1, <3>2, <3>3 DEF IInv, Core, Talk
  <2>3. CASE j \notin Reaped
    <3>1. slot'[j] = slot[j]
      BY <2>3, <1>4
    <3>2. slot[j].pid # None => proc'[slot[j].pid] = proc[slot[j].pid]
      BY <2>3, <1>2, <1>6, <1>t DEF SlotRecord
    <3> QED
      BY <2>1, <3>1, <3>2, <1>1 DEF IInv, Core, Talk
  <2> QED
    BY <2>2, <2>3
<1>15. Sources' /\ SourcesLimited'
  <2>1. \A j \in Slots : /\ slot'[j].pipe = slot[j].pipe
                         /\ slot[j].pipe # None => slot'[j].host = slot[j].host
    BY <1>4
  <2>2. src' = src
    BY <1>1
  <2> QED
    BY <2>1, <2>2 DEF IInv, Sources, SourcesLimited
<1> QED
  BY <1>9, <1>10, <1>11, <1>12, <1>13, <1>14, <1>15 DEF IInv, Core

\* What a process p that becomes q may leave on its pipe.
MayLeave(p, q, z) ==
    \A i \in Slots : slot[i].pipe # None /\ slot[i].pipe = proc[p].fd =>
        /\ z.got = sock[slot[i].pipe].got
        /\ slot[i].early => z.said \in {<<>>, <<0>>, <<0, 1>>}
        /\ z.said # <<>> => slot[i].stage = "done"
        /\ ~slot[i].early => z.said \in {<<>>, <<1>>}
        /\ z.open => /\ q.fd = slot[i].pipe
                     /\ z.said = IF slot[i].early THEN <<0>> ELSE <<>>

\* A process p becomes q and leaves z on its pipe.
LEMMA ProcessStep ==
    ASSUME IInv, NEW p \in Pids, NEW q \in ProcRecord, NEW z \in SockRecord,
           proc' = [proc EXCEPT ![p] = q],
           sock' = IF proc[p].fd = None THEN sock ELSE [sock EXCEPT ![proc[p].fd] = z],
           UNCHANGED <<slot, active, listening, src, fault>>,
           flags' \in SUBSET {"SIGCHLD", "SIGHUP", "lameduck"},
           q.st \in {"ready", "zombie"} /\ q.host = proc[p].host,
           q.st = "ready" /\ q.ours /\ ~q.authed => q.fd # None,
           q.fd # None => q.fd = proc[p].fd /\ q.st = "ready" /\ ~q.authed /\ z.open,
           MayLeave(p, q, z)
    PROVE  IInv'
<1> DEFINE fd == proc[p].fd
<1>t. /\ slot \in [Slots -> SlotRecord] /\ proc \in [Pids -> ProcRecord]
      /\ sock \in [Fds -> SockRecord] /\ fd \in Fds \cup {None}
  BY DEF IInv, Core, TypeOK, SlotRecord, ProcRecord, SockRecord
<1>1. /\ proc' \in [Pids -> ProcRecord] /\ proc'[p] = q
      /\ \A o \in Pids : o # p => proc'[o] = proc[o]
  BY <1>t
<1>2. /\ sock' \in [Fds -> SockRecord]
      /\ fd # None => sock'[fd] = z
      /\ \A f \in Fds : f # fd => sock'[f] = sock[f]
  BY <1>t
<1>3. TypeOK' /\ NoFault'
  BY <1>1, <1>2 DEF IInv, Core, TypeOK, NoFault, ProcRecord, SockRecord
<1>4. Apart'
  BY DEF IInv, Core, Apart
<1>5. Owned'
  BY <1>1, <1>t DEF IInv, Core, Owned, SlotRecord
<1>6. fd # None => \E i \in Slots : slot[i].pid = p /\ slot[i].pipe = fd
  BY DEF IInv, Core, Procs
<1>7. \A i \in Slots : fd # None /\ slot[i].pipe = fd => slot[i].pid = p
  BY <1>6 DEF IInv, Core, Apart
<1>8. Procs'
  <2> SUFFICES ASSUME NEW o \in Pids
               PROVE  Procs!(o)'
    BY DEF Procs
  <2>1. CASE o = p
    BY <2>1, <1>1, <1>2, <1>6
  <2>2. CASE o # p
    <3>1. proc'[o] = proc[o] /\ slot' = slot
      BY <2>2, <1>1
    <3>2. proc[o].fd # None => proc[o].fd # fd
      <4> SUFFICES ASSUME proc[o].fd # None, proc[o].fd = fd PROVE FALSE
        OBVIOUS
      <4>1. PICK j \in Slots : slot[j].pid = o /\ slot[j].pipe = proc[o].fd
        BY DEF IInv, Core, Procs
      <4> QED
        BY <4>1, <1>7, <2>2
    <3>3. proc[o].fd # None => sock'[proc[o].fd] = sock[proc[o].fd]
      BY <3>2, <1>2, <1>t DEF ProcRecord
    <3> QED
      BY <3>1, <3>3 DEF IInv, Core, Procs
  <2> QED
    BY <2>1, <2>2
<1>9. Talk'
  <2> SUFFICES ASSUME NEW i \in Slots, slot[i].pipe # None
               PROVE  Talk!(i)'
    BY DEF Talk
  <2>0. slot' = slot /\ slot[i].pipe \in Fds
    BY <1>t DEF SlotRecord
  <2>1. CASE slot[i].pipe = fd
    <3>1. sock'[slot[i].pipe] = z /\ slot[i].pid = p /\ proc'[slot[i].pid] = q /\ fd # None
      BY <2>1, <1>1, <1>2, <1>7
    <3>2. ~slot[i].early => slot[i].stage = "done"
      BY DEF IInv, Core, Talk
    <3>e. z.got = sock[slot[i].pipe].got
      BY <2>1 DEF MayLeave
    <3>3. (slot[i].stage = "config" => z.got = 0) /\ (slot[i].stage = "keys" => z.got = 1)
      BY <2>1, <3>e DEF IInv, Core, Talk
    <3>4. q.st # "waiting" /\ p # None
      BY SlotFacts
    <3> QED
      BY <2>0, <2>1, <3>1, <3>2, <3>3, <3>4 DEF MayLeave
  <2>2. CASE slot[i].pipe # fd
    <3>1. sock'[slot[i].pipe] = sock[slot[i].pipe]
      BY <2>0, <2>2, <1>2
    <3>2. sock[slot[i].pipe].open => slot[i].pid # p /\ slot[i].pid \in Pids
      BY <2>2, <1>t DEF IInv, Core, Talk, SlotRecord
    <3>3. sock[slot[i].pipe].open => proc'[slot[i].pid] = proc[slot[i].pid]
      BY <3>2, <1>1
    <3> QED
      BY <2>0, <3>1, <3>3 DEF IInv, Core, Talk
  <2> QED
    BY <2>1, <2>2
<1>10. Counts' /\ Sources' /\ SourcesLimited'
  <2>1. UsedSlots' = UsedSlots /\ EarlySlots' = EarlySlots
    BY DEF UsedSlots, EarlySlots
  <2>2. Counts'
    BY <2>1 DEF IInv, Counts
  <2> QED
    BY <2>2 DEF IInv, Sources, SourcesLimited
<1> QED
  BY <1>3, <1>4, <1>5, <1>8, <1>9, <1>10 DEF IInv, Core

LEMMA ChildReadyStep ==
    ASSUME IInv, NEW p \in Pids, ChildReady(p)
    PROVE  IInv'
<1> DEFINE fd == proc[p].fd
<1> DEFINE q == [proc[p] EXCEPT !.st = "ready"]
<1> DEFINE z == [sock[fd] EXCEPT !.said = <<0>>, !.open = TRUE]
<1>t. /\ proc[p] \in ProcRecord /\ fd \in Fds /\ sock[fd] \in SockRecord
      /\ proc[p].st = "waiting" /\ fd # None /\ sock[fd].got = 2
  BY DEF ChildReady, IInv, Core, TypeOK, ProcRecord, SockRecord
<1>1. PICK i \in Slots : slot[i].pid = p /\ slot[i].pipe = fd
  BY <1>t DEF IInv, Core, Procs
<1>2. sock[fd].open /\ ~proc[p].authed
  BY <1>t DEF IInv, Core, Procs
<1>3. slot[i].early /\ sock[fd].said = <<>>
  BY <1>1, <1>2, <1>t DEF IInv, Core, Talk
<1>4. slot[i].stage = "done"
  BY <1>1, <1>t DEF IInv, Core, Talk, TypeOK
<1>5. \A j \in Slots : slot[j].pipe = fd => j = i
  BY <1>1, <1>t DEF IInv, Core, Apart
<1>6. proc' = [proc EXCEPT ![p] = q]
  BY DEF ChildReady
<1>7. sock' = [sock EXCEPT ![fd] = z]
  <2>1. sock' = [sock EXCEPT ![fd].said = Append(@, 0), ![fd].open = (0 = 0)]
    BY <1>t, Zenon DEF ChildReady, Say
  <2>2. Append(<<>>, 0) = <<0>> /\ (0 = 0) = TRUE
    OBVIOUS
  <2> QED
    BY <2>1, <2>2, <1>3, <1>t
<1>8. q \in ProcRecord /\ q.st = "ready" /\ q.host = proc[p].host /\ q.fd = fd /\ ~q.authed
  BY <1>t, <1>2 DEF ProcRecord
<1>9. z \in SockRecord /\ z.open /\ z.said = <<0>> /\ z.got = sock[fd].got
  <2>1. <<0>> \in Seq({0, 1})
    OBVIOUS
  <2> QED
    BY <2>1, <1>t DEF SockRecord
<1>10. /\ UNCHANGED <<slot, active, listening, src, fault>>
       /\ flags' \in SUBSET {"SIGCHLD", "SIGHUP", "lameduck"}
  BY DEF ChildReady, IInv, Core, TypeOK
<1> HIDE DEF q, z
<1>11. MayLeave(p, q, z)
  BY <1>1, <1>3, <1>4, <1>5, <1>8, <1>9 DEF MayLeave
<1>12. sock' = IF proc[p].fd = None THEN sock ELSE [sock EXCEPT ![proc[p].fd] = z]
  BY <1>7, <1>t
<1>13. /\ q.st \in {"ready", "zombie"} /\ q.host = proc[p].host
       /\ q.st = "ready" /\ q.ours /\ ~q.authed => q.fd # None
       /\ q.fd # None => q.fd = proc[p].fd /\ q.st = "ready" /\ ~q.authed /\ z.open
  BY <1>t, <1>8, <1>9
<1> QED
  BY <1>6, <1>8, <1>9, <1>10, <1>11, <1>12, <1>13, ProcessStep, ZenonT(30)

LEMMA ChildAuthenticatedStep ==
    ASSUME IInv, NEW p \in Pids, ChildAuthenticated(p)
    PROVE  IInv'
<1> DEFINE fd == proc[p].fd
<1> DEFINE q == [proc[p] EXCEPT !.authed = TRUE, !.fd = None]
<1> DEFINE u == IF fd = None THEN <<>> ELSE Append(sock[fd].said, 1)
<1> DEFINE z == IF fd = None THEN Closed ELSE [sock[fd] EXCEPT !.said = u, !.open = FALSE]
<1>t. /\ proc[p] \in ProcRecord /\ fd \in Fds \cup {None} /\ sock \in [Fds -> SockRecord]
      /\ proc[p].st = "ready" /\ ~proc[p].authed
  BY DEF ChildAuthenticated, IInv, Core, TypeOK, ProcRecord, SockRecord
<1>1. fd # None => sock[fd].open /\ \E i \in Slots : slot[i].pid = p /\ slot[i].pipe = fd
  BY <1>t DEF IInv, Core, Procs
<1>2. \A j \in Slots : fd # None /\ slot[j].pipe = fd =>
         /\ sock[fd].said = IF slot[j].early THEN <<0>> ELSE <<>>
         /\ slot[j].stage = "done"
  <2> SUFFICES ASSUME NEW j \in Slots, fd # None, slot[j].pipe = fd
               PROVE  /\ sock[fd].said = IF slot[j].early THEN <<0>> ELSE <<>>
                      /\ slot[j].stage = "done"
    OBVIOUS
  <2>1. slot[j].pid = p
    BY <1>1 DEF IInv, Core, Apart
  <2>2. sock[fd].said = IF slot[j].early THEN <<0>> ELSE <<>>
    BY <2>1, <1>1, <1>t DEF IInv, Core, Talk
  <2>3. CASE slot[j].early
    <3>1. sock[fd].said # <<>>
      BY <2>2, <2>3
    <3> QED
      BY <3>1, <2>2 DEF IInv, Core, Talk
  <2>4. CASE ~slot[j].early
    BY <2>2, <2>4 DEF IInv, Core, Talk
  <2> QED
    BY <2>3, <2>4
<1>3. \A j \in Slots : fd # None /\ slot[j].pipe = fd =>
         u = IF slot[j].early THEN <<0, 1>> ELSE <<1>>
  <2>1. Append(<<0>>, 1) = <<0, 1>>
    <3> DEFINE v == Append(<<0>>, 1)
    <3>1. v \in Seq({0, 1}) /\ Len(v) = 2 /\ v[1] = 0 /\ v[2] = 1
      OBVIOUS
    <3>2. <<0, 1>> \in Seq({0, 1}) /\ Len(<<0, 1>>) = 2
      OBVIOUS
    <3>3. \A k \in 1..Len(v) : v[k] = <<0, 1>>[k]
      BY <3>1
    <3> HIDE DEF v
    <3>4. v = <<0, 1>>
      BY <3>1, <3>2, <3>3, SeqEqual, Zenon
    <3> QED
      BY <3>4 DEF v
  <2>2. Append(<<>>, 1) = <<1>>
    OBVIOUS
  <2> QED
    BY <1>2, <2>1, <2>2, Zenon
<1>4. u \in Seq({0, 1})
  <2>1. CASE fd = None
    BY <2>1
  <2>2. CASE fd # None
    <3>1. sock[fd].said \in Seq({0, 1})
      BY <2>2, <1>t DEF SockRecord
    <3> QED
      BY <2>2, <3>1
  <2> QED
    BY <2>1, <2>2
<1>6. proc' = [proc EXCEPT ![p] = q]
  BY DEF ChildAuthenticated
<1>7. sock' = IF proc[p].fd = None THEN sock ELSE [sock EXCEPT ![proc[p].fd] = z]
  <2>1. CASE fd = None
    BY <2>1 DEF ChildAuthenticated, Say
  <2>2. CASE fd # None
    <3>1. sock' = [sock EXCEPT ![fd].said = Append(@, 1), ![fd].open = (1 = 0)]
      BY <2>2, Zenon DEF ChildAuthenticated, Say
    <3>2. (1 = 0) = FALSE
      OBVIOUS
    <3>3. z = [sock[fd] EXCEPT !.said = u, !.open = FALSE] /\ u = Append(sock[fd].said, 1)
      BY <2>2
    <3> HIDE DEF z, u
    <3> QED
      BY <3>1, <3>2, <3>3, <2>2, <1>t
  <2> QED
    BY <2>1, <2>2
<1>8. q \in ProcRecord /\ q.st = "ready" /\ q.host = proc[p].host /\ q.fd = None /\ q.authed
  BY <1>t DEF ProcRecord
<1> HIDE DEF u
<1>9. z \in SockRecord /\ ~z.open /\ (fd # None => z.said = u /\ z.got = sock[fd].got)
  <2>1. CASE fd = None
    BY <2>1, ClosedSock
  <2>2. CASE fd # None
    <3>1. z = [sock[fd] EXCEPT !.said = u, !.open = FALSE] /\ sock[fd] \in SockRecord
      BY <2>2, <1>t
    <3> HIDE DEF z
    <3> QED
      BY <3>1, <1>4 DEF SockRecord
  <2> QED
    BY <2>1, <2>2
<1>10. /\ UNCHANGED <<slot, active, listening, src, fault>>
       /\ flags' \in SUBSET {"SIGCHLD", "SIGHUP", "lameduck"}
  BY DEF ChildAuthenticated, IInv, Core, TypeOK
<1> HIDE DEF q, z
<1>11. MayLeave(p, q, z)
  BY <1>2, <1>3, <1>9 DEF MayLeave
<1>13. /\ q.st \in {"ready", "zombie"} /\ q.host = proc[p].host
       /\ q.st = "ready" /\ q.ours /\ ~q.authed => q.fd # None
       /\ q.fd # None => q.fd = proc[p].fd /\ q.st = "ready" /\ ~q.authed /\ z.open
  BY <1>8
<1> QED
  BY <1>6, <1>7, <1>8, <1>9, <1>10, <1>11, <1>13, ProcessStep, ZenonT(30)

LEMMA ChildExitsStep ==
    ASSUME IInv, NEW p \in Pids, NEW status \in Statuses, ChildExits(p, status)
    PROVE  IInv'
<1> DEFINE fd == proc[p].fd
<1> DEFINE q == [proc[p] EXCEPT !.st = "zombie", !.status = status, !.fd = None]
<1> DEFINE z == IF fd = None THEN Closed ELSE [sock[fd] EXCEPT !.open = FALSE]
<1>t. /\ proc[p] \in ProcRecord /\ fd \in Fds \cup {None} /\ sock \in [Fds -> SockRecord]
      /\ proc[p].st \in {"waiting", "ready"}
  BY DEF ChildExits, IInv, Core, TypeOK, ProcRecord, SockRecord
<1>1. proc' = [proc EXCEPT ![p] = q]
  BY DEF ChildExits
<1>2. sock' = IF proc[p].fd = None THEN sock ELSE [sock EXCEPT ![proc[p].fd] = z]
  BY <1>t DEF ChildExits
<1>3. q \in ProcRecord /\ q.st = "zombie" /\ q.host = proc[p].host /\ q.fd = None
  BY <1>t, StartAssumption DEF ProcRecord
<1>4. z \in SockRecord /\ ~z.open /\ (fd # None => z.said = sock[fd].said /\ z.got = sock[fd].got)
  <2>1. CASE fd = None
    BY <2>1, ClosedSock
  <2>2. CASE fd # None
    <3>1. z = [sock[fd] EXCEPT !.open = FALSE] /\ sock[fd] \in SockRecord
      BY <2>2, <1>t
    <3> HIDE DEF z
    <3> QED
      BY <3>1 DEF SockRecord
  <2> QED
    BY <2>1, <2>2
<1>5. /\ UNCHANGED <<slot, active, listening, src, fault>>
      /\ flags' \in SUBSET {"SIGCHLD", "SIGHUP", "lameduck"}
  BY DEF ChildExits, IInv, Core, TypeOK
<1> HIDE DEF q, z
<1>11. MayLeave(p, q, z)
  BY <1>4 DEF IInv, Core, Talk, MayLeave
<1>13. /\ q.st \in {"ready", "zombie"} /\ q.host = proc[p].host
       /\ q.st = "ready" /\ q.ours /\ ~q.authed => q.fd # None
       /\ q.fd # None => q.fd = proc[p].fd /\ q.st = "ready" /\ ~q.authed /\ z.open
  BY <1>3
<1> QED
  BY <1>1, <1>2, <1>3, <1>4, <1>5, <1>11, <1>13, ProcessStep, ZenonT(30)

\* When the listener restarts nobody waits for its state: whoever does is
\* counted in listening.
LEMMA SighupStep ==
    ASSUME IInv, HandleSighup
    PROVE  IInv'
<1>1. CASE ~MayRestart
  <2>1. /\ UNCHANGED <<slot, active, listening, src, world, fault>>
        /\ flags' = flags \cup {"lameduck"}
    BY <1>1 DEF HandleSighup
  <2>2. flags' \in SUBSET {"SIGCHLD", "SIGHUP", "lameduck"}
    BY <2>1 DEF IInv, Core, TypeOK
  <2> QED
    BY <2>1, <2>2, QuietStep
<1>2. CASE MayRestart
  <2>1. /\ slot' = [i \in Slots |-> FreeSlot]
        /\ active' = 0 /\ listening' = 0
        /\ src' = {} /\ flags' = {}
        /\ sock' = [f \in Fds |-> Closed]
        /\ proc' = [p \in Pids |-> [proc[p] EXCEPT !.fd = None, !.ours = FALSE]]
        /\ fault' = fault
    BY <1>2 DEF HandleSighup
  <2>2. EarlySlots = {}
    <3>1. Cardinality(EarlySlots) = 0
      BY <1>2, SlotSetsFinite DEF MayRestart, IInv, Counts
    <3> QED
      BY <3>1, SlotSetsFinite, FS_EmptySet
  <2>3. \A p \in Pids : proc[p].st # "waiting"
    <3> SUFFICES ASSUME NEW p \in Pids, proc[p].st = "waiting" PROVE FALSE
      OBVIOUS
    <3>1. proc[p].fd # None /\ sock[proc[p].fd].open
      BY DEF IInv, Core, Procs
    <3>2. PICK i \in Slots : slot[i].pid = p /\ slot[i].pipe = proc[p].fd
      BY <3>1 DEF IInv, Core, Procs
    <3>3. slot[i].early
      BY <3>1, <3>2 DEF IInv, Core, Talk
    <3> QED
      BY <2>2, <3>1, <3>2, <3>3 DEF EarlySlots
  <2>4. \A i \in Slots : slot'[i] = FreeSlot
    BY <2>1
  <2>5. /\ proc' \in [Pids -> ProcRecord]
        /\ \A p \in Pids : proc'[p].fd = None /\ proc'[p].ours = FALSE /\ proc'[p].st = proc[p].st
    <3>1. proc \in [Pids -> ProcRecord]
      BY DEF IInv, Core, TypeOK, ProcRecord
    <3> QED
      BY <2>1, <3>1 DEF ProcRecord
  <2>6. TypeOK' /\ NoFault'
    <3>1. slot' \in [Slots -> SlotRecord]
      BY <2>1 DEF FreeSlot, SlotRecord
    <3>2. sock' \in [Fds -> SockRecord]
      BY <2>1, ClosedSock
    <3> QED
      BY <2>1, <2>5, <3>1, <3>2 DEF IInv, Core, TypeOK, NoFault, SlotRecord, SockRecord, ProcRecord
  <2>7. Apart' /\ Owned' /\ Talk'
    BY <2>4 DEF Apart, Owned, Talk, FreeSlot
  <2>8. Procs'
    BY <2>3, <2>5 DEF Procs
  <2>9. Counts'
    <3>1. UsedSlots' = {} /\ EarlySlots' = {}
      BY <2>4 DEF UsedSlots, Used, EarlySlots, FreeSlot
    <3> QED
      BY <2>1, <3>1, FS_EmptySet DEF Counts
  <2>10. Sources'
    BY <2>1, <2>4 DEF Sources, FreeSlot
  <2>11. SourcesLimited'
    <3> SUFFICES ASSUME NEW b \in Blocks
                 PROVE  Cardinality({e \in src' : e[2] = b}) <= MaxPersource
      BY DEF SourcesLimited
    <3>1. {e \in src' : e[2] = b} = {}
      BY <2>1
    <3>2. Cardinality({e \in src' : e[2] = b}) = 0
      BY <3>1, FS_EmptySet, Zenon
    <3> QED
      BY <3>2, SlotFacts
  <2> QED
    BY <2>6, <2>7, <2>8, <2>9, <2>10, <2>11 DEF IInv, Core
<1> QED
  BY <1>1, <1>2

LEMMA InitIInv == Init => IInv
<1> SUFFICES ASSUME Init PROVE IInv
  OBVIOUS
<1>1. TypeOK /\ NoFault
  <2>1. slot \in [Slots -> SlotRecord]
    BY DEF Init, FreeSlot, SlotRecord
  <2>2. sock \in [Fds -> SockRecord]
    BY ClosedSock DEF Init
  <2>3. proc \in [Pids -> ProcRecord]
    BY DEF Init, NoProc, ProcRecord
  <2> QED
    BY <2>1, <2>2, <2>3 DEF Init, TypeOK, NoFault, SlotRecord, SockRecord, ProcRecord
<1>2. \A i \in Slots : slot[i] = FreeSlot
  BY DEF Init
<1>3. Apart /\ Owned /\ Talk
  BY <1>2 DEF Apart, Owned, Talk, FreeSlot
<1>4. Procs
  BY DEF Init, Procs, NoProc
<1>5. Counts
  <2>1. UsedSlots = {} /\ EarlySlots = {}
    BY <1>2 DEF UsedSlots, Used, EarlySlots, FreeSlot
  <2> QED
    BY <2>1, FS_EmptySet DEF Init, Counts
<1>6. Sources
  BY <1>2 DEF Init, Sources, FreeSlot
<1>7. SourcesLimited
  <2> SUFFICES ASSUME NEW b \in Blocks
               PROVE  Cardinality({e \in src : e[2] = b}) <= MaxPersource
    BY DEF SourcesLimited
  <2>1. {e \in src : e[2] = b} = {}
    BY DEF Init
  <2>2. Cardinality({e \in src : e[2] = b}) = 0
    BY <2>1, FS_EmptySet, Zenon
  <2> QED
    BY <2>2, SlotFacts
<1> QED
  BY <1>1, <1>3, <1>4, <1>5, <1>6, <1>7 DEF IInv, Core

LEMMA NextIInv ==
    ASSUME IInv, [Next]_vars
    PROVE  IInv'
<1>f. flags \in SUBSET {"SIGCHLD", "SIGHUP", "lameduck"}
  BY DEF IInv, Core, TypeOK
<1>1. ASSUME NEW h \in Hosts \cup {NoHost}, Connect(h)
      PROVE  IInv'
  <2>1. PICK r \in {0, 99} : \/ DropConnection(h, r)
                             \/ \E pid \in Pids \cup {None} : AcceptConnection(h, r, pid)
    BY <1>1 DEF Connect
  <2>2. CASE DropConnection(h, r)
    <3>1. UNCHANGED <<slot, active, listening, src, world, fault>> /\ flags' = flags
      BY <2>2 DEF DropConnection
    <3> QED
      BY <3>1, <1>f, QuietStep
  <2>3. ASSUME NEW pid \in Pids \cup {None}, AcceptConnection(h, r, pid)
        PROVE  IInv'
    BY <2>3, AcceptStep
  <2> QED
    BY <2>1, <2>2, <2>3
<1>2. ASSUME NEW i \in Slots, WriteState(i) \/ PipeClosed(i) \/ PipeMessage(i)
      PROVE  IInv'
  BY <1>2, WriteStep, PipeClosedStep, PipeMessageStep
<1>3. CASE ChildReapAllExited
  BY <1>3, ReapStep
<1>4. CASE ReceiveSighup
  <2>1. /\ UNCHANGED <<slot, active, listening, src, world, fault>>
        /\ flags' = flags \cup {"SIGHUP"}
    BY <1>4 DEF ReceiveSighup
  <2>2. flags' \in SUBSET {"SIGCHLD", "SIGHUP", "lameduck"}
    BY <2>1, <1>f
  <2> QED
    BY <2>1, <2>2, QuietStep
<1>5. CASE HandleSighup
  BY <1>5, SighupStep
<1>6. ASSUME NEW p \in Pids, ChildReady(p) \/ ChildAuthenticated(p)
                             \/ \E status \in Statuses : ChildExits(p, status)
      PROVE  IInv'
  BY <1>6, ChildReadyStep, ChildAuthenticatedStep, ChildExitsStep
<1>7. CASE Tick
  <2>1. UNCHANGED <<slot, active, listening, src, world, fault>> /\ flags' = flags
    BY <1>7 DEF Tick
  <2> QED
    BY <2>1, <1>f, QuietStep
<1>8. CASE UNCHANGED vars
  <2>1. UNCHANGED <<slot, active, listening, src, world, fault>> /\ flags' = flags
    BY <1>8 DEF vars, world
  <2> QED
    BY <2>1, <1>f, QuietStep
<1> QED
  BY <1>1, <1>2, <1>3, <1>4, <1>5, <1>6, <1>7, <1>8 DEF Next

LEMMA IInvariant == Spec => []IInv
<1>1. IInv /\ [Next]_vars => IInv'
  BY NextIInv
<1> QED
  BY InitIInv, <1>1, PTL DEF Spec

----------------------------------------------------------------------------
(* What the invariant implies.                                             *)

LEMMA UnauthenticatedHaveSlots ==
    ASSUME IInv, NEW p \in Unauthenticated
    PROVE  /\ p \in Pids /\ proc[p].fd # None /\ proc[p].fd \in Fds
           /\ \E i \in Slots : slot[i].pid = p /\ slot[i].pipe = proc[p].fd
BY DEF Unauthenticated, IInv, Core, Procs, TypeOK

LEMMA IInvLimits == IInv => StartupsLimited
<1> SUFFICES ASSUME IInv PROVE StartupsLimited
  OBVIOUS
<1> DEFINE U == Unauthenticated
<1> DEFINE f == [p \in U |-> CHOOSE i \in Slots : slot[i].pid = p /\ slot[i].pipe = proc[p].fd]
<1>1. \A p \in U : f[p] \in Slots /\ slot[f[p]].pid = p /\ slot[f[p]].pipe = proc[p].fd
  BY UnauthenticatedHaveSlots
<1>2. f \in [U -> Slots]
  BY <1>1
<1>3. Cardinality(U) <= MaxStartups
  <2>1. f \in Injection(U, Slots)
    <3> HIDE DEF f, U
    <3> QED
      BY <1>1, <1>2 DEF Injection, IsInjective
  <2> HIDE DEF f, U
  <2> QED
    BY <2>1, SlotFacts, FS_Injection
<1>4. ASSUME NEW b \in Blocks
      PROVE  Cardinality({p \in U : proc[p].host # NoHost /\ Block[proc[p].host] = b}) <= MaxPersource
  <2> DEFINE P == {p \in U : proc[p].host # NoHost /\ Block[proc[p].host] = b}
  <2> DEFINE S == {e \in src : e[2] = b}
  <2> DEFINE g == [p \in P |-> <<proc[p].fd, b>>]
  <2>1. \A p \in P : <<proc[p].fd, b>> \in S
    <3> SUFFICES ASSUME NEW p \in P PROVE <<proc[p].fd, b>> \in src
      OBVIOUS
    <3>1. PICK i \in Slots : slot[i].pid = p /\ slot[i].pipe = proc[p].fd
      BY UnauthenticatedHaveSlots
    <3>2. proc[p].fd # None /\ proc[p].fd \in Fds /\ p \in Pids /\ p # None
      BY UnauthenticatedHaveSlots, SlotFacts
    <3>3. slot[i].host = proc[p].host
      BY <3>1, <3>2 DEF IInv, Core, Owned
    <3> DEFINE e == <<proc[p].fd, b>>
    <3>4. e \in Fds \X Blocks
      BY <3>2
    <3>5. slot[i].pipe # None /\ slot[i].host # NoHost /\ e = <<slot[i].pipe, Block[slot[i].host]>>
      BY <3>1, <3>2, <3>3
    <3> HIDE DEF e
    <3>6. e \in src
      BY <3>4, <3>5 DEF IInv, Sources
    <3> QED
      BY <3>6 DEF e
  <2>2. \A p, o \in P : proc[p].fd = proc[o].fd => p = o
    <3> SUFFICES ASSUME NEW p \in P, NEW o \in P, proc[p].fd = proc[o].fd PROVE p = o
      OBVIOUS
    <3>1. PICK i \in Slots : slot[i].pid = p /\ slot[i].pipe = proc[p].fd
      BY UnauthenticatedHaveSlots
    <3>2. PICK j \in Slots : slot[j].pid = o /\ slot[j].pipe = proc[o].fd
      BY UnauthenticatedHaveSlots
    <3>3. proc[p].fd # None
      BY UnauthenticatedHaveSlots
    <3> QED
      BY <3>1, <3>2, <3>3 DEF IInv, Core, Apart
  <2>3. g \in [P -> S] /\ \A p, o \in P : g[p] = g[o] => p = o
    <3> HIDE DEF P, S
    <3> QED
      BY <2>1, <2>2
  <2>4. g \in Injection(P, S)
    <3> HIDE DEF g, P, S
    <3> QED
      BY <2>3 DEF Injection, IsInjective
  <2>5. IsFiniteSet(S) /\ Cardinality(S) <= MaxPersource
    BY SourcesFinite DEF IInv, Core, SourcesLimited
  <2> HIDE DEF g, P, S
  <2>6. IsFiniteSet(P) /\ Cardinality(P) <= Cardinality(S)
    BY <2>4, <2>5, FS_Injection
  <2>7. Cardinality(P) <= MaxPersource
    BY <2>5, <2>6, FS_CardinalityType, SlotFacts
  <2> QED
    BY <2>7 DEF P
<1> QED
  BY <1>3, <1>4 DEF StartupsLimited

LEMMA IInvStranded == IInv => NeverStranded
BY DEF IInv, Core, Procs, NeverStranded

LEMMA IInvTracked == IInv => SourcesTracked
<1> SUFFICES ASSUME IInv PROVE SourcesTracked
  OBVIOUS
<1> DEFINE T == {<<slot[i].pipe, Block[slot[i].host]>> :
                   i \in {j \in Slots : slot[j].pipe # None /\ slot[j].host # NoHost}}
<1>1. src \subseteq Fds \X Blocks
  BY DEF IInv, Core, TypeOK
<1>2. T \subseteq Fds \X Blocks
  BY DEF IInv, Core, TypeOK, Blocks
<1>3. \A e \in Fds \X Blocks : e \in src <=> e \in T
  BY DEF IInv, Sources
<1> HIDE DEF T
<1>4. src = T
  BY <1>1, <1>2, <1>3
<1> QED
  BY <1>4 DEF SourcesTracked, T

\* Type correctness: in particular neither counter of the accept loop goes
\* below zero (children_active, listening).
THEOREM TypeCorrect == Spec => []TypeOK
<1>1. IInv => TypeOK
  BY DEF IInv, Core
<1> QED
  BY <1>1, IInvariant, PTL

\* The accept loop never dies over its slots and never meets a message it
\* does not expect (child_register, child_finish, problem_child).
THEOREM FaultFree == Spec => []NoFault
<1>1. IInv => NoFault
  BY DEF IInv, Core
<1> QED
  BY <1>1, IInvariant, PTL

\* MaxStartups and PerSourceMaxStartups bound the processes that have not
\* authenticated, not only the listener's idea of them.
THEOREM LimitsHold == Spec => []StartupsLimited
BY IInvLimits, IInvariant, PTL

\* No process waits for a configuration nobody will send, even when SIGHUP
\* restarts the listener (the listening counter).
THEOREM NobodyStranded == Spec => []NeverStranded
BY IInvStranded, IInvariant, PTL

\* The per-source list and the open pipes never drift apart (srclimit_done).
THEOREM SourcesStayTracked == Spec => []SourcesTracked
BY IInvTracked, IInvariant, PTL
=====
