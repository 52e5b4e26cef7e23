----------------------------- MODULE W32Proofs -----------------------------
(***************************************************************************)
(* Proofs about the table of children in W32Process (signal_sigchld.c),    *)
(* for a table of any size and any number of children: however entries are *)
(* inserted, removed from the middle and moved to the zombies, no child is *)
(* lost, counted twice or reported before it has exited, and the profile   *)
(* follows the child it was loaded for and is unloaded with it.            *)
(*                                                                         *)
(* Every operation but the registration of a child rearranges the entries: *)
(* the new table is the old one read through an injection that leaves out  *)
(* the entries removed (Rearranged).                                       *)
(*                                                                         *)
(* And about the copy (fileio.c, socketio.c), for buffers and pipes of any *)
(* size: where no blocking write is interrupted, the pipe gets what was    *)
(* sent.  The invariant (CopyInv) says where every byte is: drained, in    *)
(* the pipe, in the write under way, in the program's buffer, in the read  *)
(* buffer or with the source, and that these follow each other.            *)
(***************************************************************************)
EXTENDS W32Process, SequenceTheorems, WellFoundedInduction, TLAPS

Kid == [pid : Nat, profile : Nat]
Table == [kids : Seq(Kid), nz : Nat, registered : SUBSET Nat, loaded : SUBSET Nat,
          reaped : SUBSET Nat, unloaded : SUBSET Nat]

\* The profile that belongs to the child pid.
ProfileOf(t, pid) == IF pid \in t.loaded THEN pid ELSE NoProfile

\* The table t when the children ex of 1..top have exited.
TableInv(t, ex, top) ==
    /\ t \in Table /\ t.nz <= Len(t.kids) /\ top \in Nat
    /\ \A i \in 1..Len(t.kids) : /\ t.kids[i].pid \in 1..top /\ t.kids[i].pid \notin t.reaped
                                 /\ t.kids[i].profile = ProfileOf(t, t.kids[i].pid)
                                 /\ t.kids[i].pid \in t.registered
    /\ \A i, j \in 1..Len(t.kids) : i # j => t.kids[i].pid # t.kids[j].pid
    /\ \A i \in Live(t) + 1..Len(t.kids) : t.kids[i].pid \in ex
    /\ t.reaped \subseteq ex /\ ex \subseteq 1..top
    /\ t.reaped \subseteq t.registered /\ t.registered \subseteq 1..top
    /\ \A p \in t.registered : p \in t.reaped \/ \E i \in 1..Len(t.kids) : t.kids[i].pid = p
    /\ t.loaded \subseteq t.registered /\ t.unloaded = t.loaded \cap t.reaped

\* u has the entries of t in another order, but for those at the places gone,
\* which have exited and are reaped.
LEMMA Rearranged ==
    ASSUME NEW ex, NEW top, NEW t, TableInv(t, ex, top), NEW u \in Table, u.nz <= Len(u.kids),
           NEW g \in [1..Len(u.kids) -> 1..Len(t.kids)],
           \A i, j \in 1..Len(u.kids) : i # j => g[i] # g[j],
           \A j \in 1..Len(u.kids) : u.kids[j] = t.kids[g[j]],
           \A j \in Live(u) + 1..Len(u.kids) : u.kids[j].pid \in ex,
           NEW gone \in SUBSET (1..Len(t.kids)),
           \A i \in gone : t.kids[i].pid \in ex,
           \A i \in 1..Len(t.kids) : i \in gone \/ \E j \in 1..Len(u.kids) : g[j] = i,
           \A j \in 1..Len(u.kids) : g[j] \notin gone,
           u.reaped = t.reaped \cup {t.kids[i].pid : i \in gone},
           u.unloaded = t.unloaded \cup ({t.kids[i].profile : i \in gone} \ {NoProfile}),
           u.registered = t.registered, u.loaded = t.loaded
    PROVE  TableInv(u, ex, top)
<1>1. /\ top \in Nat /\ t.reaped \subseteq ex /\ ex \subseteq 1..top
      /\ t.reaped \subseteq t.registered /\ t.registered \subseteq 1..top
      /\ t.loaded \subseteq t.registered /\ t.unloaded = t.loaded \cap t.reaped
  BY DEF TableInv
<1>2. \A j \in 1..Len(u.kids) : /\ u.kids[j].pid \in 1..top
                                /\ u.kids[j].profile = ProfileOf(u, u.kids[j].pid)
                                /\ u.kids[j].pid \in u.registered
                                /\ u.kids[j].pid \notin u.reaped
  <2> TAKE j \in 1..Len(u.kids)
  <2>1. g[j] \in 1..Len(t.kids) /\ u.kids[j] = t.kids[g[j]] /\ g[j] \notin gone
    OBVIOUS
  <2>2. /\ t.kids[g[j]].pid \in 1..top /\ t.kids[g[j]].pid \notin t.reaped
        /\ t.kids[g[j]].profile = ProfileOf(t, t.kids[g[j]].pid)
        /\ t.kids[g[j]].pid \in t.registered
        /\ \A i \in gone : t.kids[i].pid # t.kids[g[j]].pid
    BY <2>1 DEF TableInv
  <2> QED BY <2>1, <2>2 DEF ProfileOf
<1>3. \A i, j \in 1..Len(u.kids) : i # j => u.kids[i].pid # u.kids[j].pid
  <2> TAKE i, j \in 1..Len(u.kids)
  <2>1. g[i] \in 1..Len(t.kids) /\ g[j] \in 1..Len(t.kids) /\ u.kids[i] = t.kids[g[i]] /\ u.kids[j] = t.kids[g[j]]
        /\ (i # j => g[i] # g[j])
    OBVIOUS
  <2> QED BY <2>1 DEF TableInv
<1>4. u.reaped \subseteq ex /\ u.reaped \subseteq u.registered
  <2>1. \A i \in gone : t.kids[i].pid \in t.registered
    BY DEF TableInv
  <2> QED BY <1>1, <2>1
<1>5. \A p \in u.registered : p \in u.reaped \/ \E j \in 1..Len(u.kids) : u.kids[j].pid = p
  <2> SUFFICES ASSUME NEW p \in u.registered, p \notin u.reaped PROVE \E j \in 1..Len(u.kids) : u.kids[j].pid = p
    OBVIOUS
  <2>1. PICK i \in 1..Len(t.kids) : t.kids[i].pid = p
    BY DEF TableInv
  <2>2. i \notin gone
    BY <2>1
  <2> QED BY <2>1, <2>2
<1>6. u.unloaded = u.loaded \cap u.reaped
  <2>1. \A i \in gone : /\ t.kids[i].profile = ProfileOf(t, t.kids[i].pid) /\ t.kids[i].pid \in 1..top
    BY DEF TableInv
  <2>2. \A i \in gone : t.kids[i].pid # NoProfile
    BY <2>1 DEF NoProfile
  <2>3. \A x : x \in {t.kids[i].profile : i \in gone} \ {NoProfile} <=> x \in t.loaded /\ x \in {t.kids[i].pid : i \in gone}
    BY <2>1, <2>2 DEF ProfileOf
  <2> QED BY <1>1, <2>3
<1> QED BY <1>1, <1>2, <1>3, <1>4, <1>5, <1>6 DEF TableInv

\* sw_remove_child_at_index of a child that has exited.
LEMMA RemoveFacts ==
    ASSUME NEW ex, NEW top, NEW t, TableInv(t, ex, top), NEW i \in 1..Len(t.kids), t.kids[i].pid \in ex
    PROVE  TableInv(sw_remove_child_at_index(t, i), ex, top)
<1> DEFINE n == Len(t.kids)
           last == Live(t)
           a == [t.kids EXCEPT ![i] = t.kids[n]]
           b == [t.kids EXCEPT ![i] = t.kids[last], ![last] = t.kids[n]]
           k == IF t.nz = 0 \/ i > last THEN a ELSE b
           u == sw_remove_child_at_index(t, i)
           g == [j \in 1..(n-1) |-> IF t.nz = 0 \/ i > last THEN (IF j = i THEN n ELSE j)
                                    ELSE IF j = last THEN n ELSE IF j = i THEN last ELSE j]
<1>1. /\ t \in Table /\ t.kids \in Seq(Kid) /\ t.nz \in Nat /\ t.nz <= n /\ n \in Nat /\ n >= 1 /\ i <= n
      /\ DOMAIN t.kids = 1..n
  BY DEF TableInv, Table
<1>2. last = n - t.nz /\ last \in 0..n
  BY <1>1 DEF Live
<1>3. \A j \in 1..n : t.kids[j] \in Kid
  BY <1>1, ElementOfSeq
<1>4. ~(t.nz = 0 \/ i > last) => last \in 1..n /\ last < n /\ i <= last
  BY <1>1, <1>2
<1>5. Len(k) = n /\ \A j \in 1..(n-1) : k[j] = t.kids[g[j]] /\ g[j] \in 1..n
  <2>1. CASE t.nz = 0 \/ i > last
    <3>1. Len(a) = n /\ \A j \in 1..n : a[j] = IF j = i THEN t.kids[n] ELSE t.kids[j]
      BY <1>1
    <3> QED BY <1>1, <2>1, <3>1
  <2>2. CASE ~(t.nz = 0 \/ i > last)
    <3>1. Len(b) = n /\ \A j \in 1..n : b[j] = IF j = last THEN t.kids[n] ELSE IF j = i THEN t.kids[last] ELSE t.kids[j]
      BY <1>1, <1>4, <2>2
    <3>2. k = b
      BY <2>2
    <3>3. \A j \in 1..(n-1) : /\ j \in 1..n
                               /\ g[j] = IF j = last THEN n ELSE IF j = i THEN last ELSE j
      BY <1>1, <2>2
    <3> HIDE DEF g, b, k, last
    <3>4. \A j \in 1..(n-1) : k[j] = t.kids[g[j]] /\ g[j] \in 1..n
      BY <1>1, <1>4, <2>2, <3>1, <3>2, <3>3, SMTT(30)
    <3> QED BY <3>1, <3>2, <3>4
  <2> QED BY <2>1, <2>2
<1>6. /\ u.kids = Front(k) /\ u.nz = IF i > last THEN t.nz - 1 ELSE t.nz
      /\ u.reaped = t.reaped \cup {t.kids[i].pid} /\ u.unloaded = t.unloaded \cup ({t.kids[i].profile} \ {NoProfile})
      /\ u.registered = t.registered /\ u.loaded = t.loaded
      /\ u = [t EXCEPT !.kids = u.kids, !.nz = u.nz, !.reaped = u.reaped, !.unloaded = u.unloaded]
  BY <1>1 DEF sw_remove_child_at_index, Table
<1> HIDE DEF k, u, last
<1>7. u.kids \in Seq(Kid) /\ Len(u.kids) = n - 1 /\ \A j \in 1..(n-1) : u.kids[j] = k[j]
  <2>1. u.kids = SubSeq(k, 1, n - 1)
    BY <1>5, <1>6 DEF Front
  <2>2. 1 \in Int /\ n - 1 \in Int /\ \A j \in 1..(n-1) : k[j] \in Kid
    <3> HIDE DEF g, n
    <3> QED BY <1>1, <1>3, <1>5
  <2>3. /\ u.kids \in Seq(Kid) /\ Len(u.kids) = (IF 1 <= n - 1 THEN (n-1)-1+1 ELSE 0)
        /\ \A j \in 1..((n-1)-1+1) : u.kids[j] = k[1 + j - 1]
    BY <2>1, <2>2, SubSeqProperties
  <2> QED BY <1>1, <2>3
<1>8. u.nz \in Nat /\ u.nz <= n - 1
  BY <1>1, <1>2, <1>6
<1>9. u \in Table
  <2>1. u.reaped \in SUBSET Nat /\ u.unloaded \in SUBSET Nat
    BY <1>1, <1>3, <1>6 DEF Table, Kid
  <2> QED BY <1>1, <1>6, <1>7, <1>8, <2>1 DEF Table
<1>10. \A j \in 1..(n-1) : g[j] # i
  BY <1>1, <1>4
<1>11. \A j1, j2 \in 1..(n-1) : j1 # j2 => g[j1] # g[j2]
  BY <1>1, <1>2, <1>4
<1>12. \A x \in 1..n : x = i \/ \E j \in 1..(n-1) : g[j] = x
  <2> SUFFICES ASSUME NEW x \in 1..n, x # i PROVE \E j \in 1..(n-1) : g[j] = x
    OBVIOUS
  <2>1. CASE t.nz = 0 \/ i > last
    <3>1. CASE x = n
      <4>1. i \in 1..(n-1) /\ g[i] = x
        BY <1>1, <2>1, <3>1
      <4> QED BY <4>1
    <3>2. CASE x # n
      <4>1. x \in 1..(n-1) /\ g[x] = x
        BY <1>1, <2>1, <3>2
      <4> QED BY <4>1
    <3> QED BY <3>1, <3>2
  <2>2. CASE ~(t.nz = 0 \/ i > last)
    <3>1. CASE x = n
      <4>1. last \in 1..(n-1) /\ g[last] = x
        BY <1>1, <1>4, <2>2, <3>1
      <4> QED BY <4>1
    <3>2. CASE x = last
      <4>1. i \in 1..(n-1) /\ g[i] = x
        BY <1>1, <1>4, <2>2, <3>2
      <4> QED BY <4>1
    <3>3. CASE x # n /\ x # last
      <4>1. x \in 1..(n-1) /\ g[x] = x
        BY <1>1, <1>4, <2>2, <3>3
      <4> QED BY <4>1
    <3> QED BY <3>1, <3>2, <3>3
  <2> QED BY <2>1, <2>2
<1>13. \A j \in Live(u) + 1..Len(u.kids) : u.kids[j].pid \in ex
  <2> SUFFICES ASSUME NEW j \in Live(u) + 1..Len(u.kids) PROVE u.kids[j].pid \in ex
    OBVIOUS
  <2>1. Live(u) = n - 1 - u.nz
    BY <1>7 DEF Live
  <2>2. j \in 1..(n-1) /\ g[j] \in last + 1..n
    <3>1. CASE i > last
      <4>1. Live(u) = last
        BY <1>1, <1>2, <1>6, <2>1, <3>1
      <4>2. j \in 1..(n-1) /\ j \in last + 1..n
        BY <1>1, <1>2, <1>7, <4>1
      <4>3. g[j] = IF j = i THEN n ELSE j
        BY <3>1, <4>2
      <4> HIDE DEF g, n
      <4> QED BY <1>1, <1>2, <3>1, <4>2, <4>3
    <3>2. CASE ~(i > last)
      BY <1>1, <1>2, <1>4, <1>6, <1>7, <1>8, <2>1, <3>2, SMTT(30)
    <3> QED BY <3>1, <3>2
  <2>3. t.kids[g[j]].pid \in ex
    <3> HIDE DEF g
    <3> QED BY <2>2 DEF TableInv, last
  <2>4. u.kids[j] = t.kids[g[j]]
    <3> HIDE DEF g
    <3> QED BY <1>5, <1>7, <2>2
  <2> QED BY <2>3, <2>4
<1>14. g \in [1..Len(u.kids) -> 1..Len(t.kids)] /\ \A j \in 1..Len(u.kids) : u.kids[j] = t.kids[g[j]]
  <2>1. \A j \in 1..(n-1) : g[j] \in 1..n /\ u.kids[j] = t.kids[g[j]]
    <3> HIDE DEF g
    <3> QED BY <1>5, <1>7
  <2>2. g \in [1..(n-1) -> 1..n]
    BY <1>5
  <2> HIDE DEF g
  <2> QED BY <1>7, <2>1, <2>2
<1> DEFINE gone == {i}
<1>15. /\ {t.kids[x].pid : x \in gone} = {t.kids[i].pid} /\ {t.kids[x].profile : x \in gone} = {t.kids[i].profile}
       /\ gone \in SUBSET (1..Len(t.kids)) /\ \A x \in gone : t.kids[x].pid \in ex
  OBVIOUS
<1>16. /\ \A j1, j2 \in 1..Len(u.kids) : j1 # j2 => g[j1] # g[j2]
       /\ \A x \in 1..Len(t.kids) : x \in gone \/ \E j \in 1..Len(u.kids) : g[j] = x
       /\ \A j \in 1..Len(u.kids) : g[j] \notin gone
  <2> HIDE DEF g
  <2> QED BY <1>7, <1>10, <1>11, <1>12
<1>17. u.reaped = t.reaped \cup {t.kids[x].pid : x \in gone}
       /\ u.unloaded = t.unloaded \cup ({t.kids[x].profile : x \in gone} \ {NoProfile})
  BY <1>6, <1>15
<1>18. u.nz <= Len(u.kids)
  BY <1>7, <1>8
<1>19. u.registered = t.registered /\ u.loaded = t.loaded
  BY <1>6
<1> HIDE DEF g, gone
<1> QED BY <1>19, <1>9, <1>13, <1>14, <1>15, <1>16, <1>17, <1>18, Rearranged DEF u

\* sw_child_to_zombie of a child that has exited.
LEMMA ZombieFacts ==
    ASSUME NEW ex, NEW top, NEW t, TableInv(t, ex, top), NEW i \in 1..Live(t), t.kids[i].pid \in ex
    PROVE  TableInv(sw_child_to_zombie(t, i), ex, top)
<1> DEFINE n == Len(t.kids)
           last == Live(t)
           k == [t.kids EXCEPT ![i] = t.kids[last], ![last] = t.kids[i]]
           u == sw_child_to_zombie(t, i)
           g == [j \in 1..n |-> IF j = last THEN i ELSE IF j = i THEN last ELSE j]
<1>1. t \in Table /\ t.kids \in Seq(Kid) /\ t.nz \in Nat /\ t.nz <= n /\ n \in Nat /\ DOMAIN t.kids = 1..n
  BY DEF TableInv, Table
<1>2. last = n - t.nz /\ last \in 1..n /\ i \in 1..n /\ i <= last
  BY <1>1 DEF Live
<1>3. \A j \in 1..n : t.kids[j] \in Kid
  BY <1>1, ElementOfSeq
<1>4. u = [t EXCEPT !.kids = k, !.nz = t.nz + 1]
  BY DEF sw_child_to_zombie
<1> HIDE DEF last
<1>5. k \in [1..n -> Kid] /\ \A j \in 1..n : k[j] = IF j = last THEN t.kids[i] ELSE IF j = i THEN t.kids[last] ELSE t.kids[j]
  <2>1. t.kids \in [1..n -> Kid]
    BY <1>1, <1>3
  <2> QED BY <1>2, <1>3, <2>1
<1> HIDE DEF k, u
<1>6. k \in Seq(Kid) /\ Len(k) = n
  <2> HIDE DEF n
  <2> QED BY <1>1, <1>5
<1>7. /\ u \in Table /\ u.kids = k /\ u.nz = t.nz + 1 /\ u.reaped = t.reaped /\ u.unloaded = t.unloaded
      /\ u.registered = t.registered /\ u.loaded = t.loaded
  <2> DEFINE z == t.nz + 1
  <2>1. z \in Nat /\ u = [t EXCEPT !.kids = k, !.nz = z]
    BY <1>1, <1>4
  <2> HIDE DEF z
  <2>2. /\ u \in Table /\ u.kids = k /\ u.nz = z /\ u.reaped = t.reaped /\ u.unloaded = t.unloaded
        /\ u.registered = t.registered /\ u.loaded = t.loaded
    BY <1>1, <1>6, <2>1 DEF Table
  <2> QED BY <2>2 DEF z
<1>8. u.nz <= Len(u.kids) /\ Live(u) = last - 1
  BY <1>1, <1>2, <1>6, <1>7 DEF Live
<1>9. \A j \in 1..n : g[j] \in 1..n /\ k[j] = t.kids[g[j]]
  BY <1>2, <1>5
<1>10. \A j1, j2 \in 1..n : j1 # j2 => g[j1] # g[j2]
  BY <1>2
<1>11. \A x \in 1..n : \E j \in 1..n : g[j] = x
  <2> TAKE x \in 1..n
  <2>1. CASE x = i
    BY <1>2, <2>1
  <2>2. CASE x = last
    BY <1>2, <2>2
  <2>3. CASE x # i /\ x # last
    BY <1>2, <2>3
  <2> QED BY <2>1, <2>2, <2>3
<1>12. \A j \in Live(u) + 1..Len(u.kids) : u.kids[j].pid \in ex
  <2> SUFFICES ASSUME NEW j \in last..n PROVE k[j].pid \in ex
    BY <1>1, <1>2, <1>6, <1>7, <1>8
  <2>1. CASE j = last
    BY <1>2, <1>5, <2>1
  <2>2. CASE j # last
    <3>1. j \in last + 1..n /\ j \in 1..n /\ j # i
      BY <1>1, <1>2, <2>2
    <3>2. t.kids[j].pid \in ex
      BY <3>1 DEF TableInv, last
    <3> QED BY <1>5, <2>2, <3>1, <3>2
  <2> QED BY <2>1, <2>2
<1>13. g \in [1..Len(u.kids) -> 1..Len(t.kids)]
  BY <1>6, <1>7, <1>9
<1> DEFINE gone == {}
<1>14. /\ {t.kids[x].pid : x \in gone} = {} /\ {t.kids[x].profile : x \in gone} = {}
       /\ gone \in SUBSET (1..Len(t.kids)) /\ \A x \in gone : t.kids[x].pid \in ex
  OBVIOUS
<1>15. /\ u.reaped = t.reaped \cup {t.kids[x].pid : x \in gone}
       /\ u.unloaded = t.unloaded \cup ({t.kids[x].profile : x \in gone} \ {NoProfile})
  BY <1>7, <1>14
<1> HIDE DEF g
<1>16. /\ \A j1, j2 \in 1..Len(u.kids) : j1 # j2 => g[j1] # g[j2]
       /\ \A j \in 1..Len(u.kids) : u.kids[j] = t.kids[g[j]]
       /\ \A x \in 1..Len(t.kids) : x \in gone \/ \E j \in 1..Len(u.kids) : g[j] = x
       /\ \A j \in 1..Len(u.kids) : g[j] \notin gone
  BY <1>6, <1>7, <1>9, <1>10, <1>11
<1> HIDE DEF gone, n
<1> QED BY <1>7, <1>8, <1>12, <1>13, <1>14, <1>15, <1>16, Rearranged DEF u

\* register_child of a new child: the entries are those there were, and it.
LEMMA RegisterFacts ==
    ASSUME NEW ex, NEW top, NEW t, TableInv(t, ex, top)
    PROVE  /\ TableInv(register_child(t, top + 1), ex, top + 1)
           /\ \E i \in 1..Len(register_child(t, top + 1).kids) : register_child(t, top + 1).kids[i].pid = top + 1
<1> DEFINE n == Len(t.kids)
           pid == top + 1
           new == [pid |-> pid, profile |-> NoProfile]
           first == Live(t) + 1
           u == register_child(t, pid)
           at == IF t.nz > 0 THEN first ELSE n + 1
<1>1. /\ t \in Table /\ t.kids \in Seq(Kid) /\ t.nz \in Nat /\ t.nz <= n /\ n \in Nat /\ DOMAIN t.kids = 1..n
      /\ top \in Nat /\ pid \in Nat /\ ex \subseteq 1..top
  BY DEF TableInv, Table
<1>2. first = n - t.nz + 1 /\ (t.nz > 0 => first \in 1..n) /\ new \in Kid
  BY <1>1, SMTT(30) DEF Live, Kid, NoProfile
<1>3. \A j \in 1..n : t.kids[j] \in Kid
  BY <1>1, ElementOfSeq
<1> HIDE DEF first
<1> DEFINE k == IF t.nz > 0 THEN Append([t.kids EXCEPT ![first] = new], t.kids[first]) ELSE Append(t.kids, new)
<1>4. u = [t EXCEPT !.kids = k, !.registered = t.registered \cup {pid}]
  BY DEF register_child, first
<1> HIDE DEF new
<1>5. /\ k \in Seq(Kid) /\ Len(k) = n + 1 /\ k[at] = new /\ at \in 1..(n+1)
      /\ \A j \in 1..(n+1) : j # at => k[j] = IF j = n + 1 THEN t.kids[first] ELSE t.kids[j]
  <2>1. CASE t.nz > 0
    <3> DEFINE h == [t.kids EXCEPT ![first] = new]
    <3>1. h \in Seq(Kid) /\ Len(h) = n /\ \A j \in 1..n : h[j] = IF j = first THEN new ELSE t.kids[j]
      BY <1>1, <1>2, <2>1
    <3>2. k = Append(h, t.kids[first])
      BY <2>1
    <3> HIDE DEF h, k
    <3>3. /\ k \in Seq(Kid) /\ Len(k) = n + 1 /\ \A j \in 1..n : k[j] = h[j]
          /\ k[n + 1] = t.kids[first]
      BY <1>2, <1>3, <2>1, <3>1, <3>2, AppendProperties
    <3>4. at = first /\ first \in 1..n
      BY <1>2, <2>1
    <3> QED BY <1>1, <3>1, <3>3, <3>4, SMTT(30)
  <2>2. CASE ~(t.nz > 0)
    <3>1. k = Append(t.kids, new) /\ at = n + 1
      BY <2>2
    <3> HIDE DEF k, at
    <3>2. /\ k \in Seq(Kid) /\ Len(k) = n + 1 /\ \A j \in 1..n : k[j] = t.kids[j]
          /\ k[n + 1] = new
      BY <1>1, <1>2, <3>1, AppendProperties
    <3> QED BY <1>1, <3>1, <3>2
  <2> QED BY <2>1, <2>2
<1> HIDE DEF k, u
<1>6. /\ u \in Table /\ u.kids = k /\ u.nz = t.nz /\ u.reaped = t.reaped /\ u.unloaded = t.unloaded
      /\ u.registered = t.registered \cup {pid} /\ u.loaded = t.loaded
  <2> DEFINE reg == t.registered \cup {pid}
  <2>1. reg \in SUBSET Nat /\ u = [t EXCEPT !.kids = k, !.registered = reg]
    BY <1>1, <1>4 DEF Table
  <2> HIDE DEF reg
  <2>2. /\ u \in Table /\ u.kids = k /\ u.nz = t.nz /\ u.reaped = t.reaped /\ u.unloaded = t.unloaded
        /\ u.registered = reg /\ u.loaded = t.loaded
    BY <1>1, <1>5, <2>1 DEF Table
  <2> QED BY <2>2 DEF reg
<1>7. u.nz <= Len(u.kids) /\ Live(u) = first
  BY <1>1, <1>2, <1>5, <1>6, SMTT(30) DEF Live
<1> DEFINE g == [j \in 1..(n+1) |-> IF j = n + 1 THEN first ELSE j]
<1>8. \A j \in 1..(n+1) : j # at => g[j] \in 1..n /\ k[j] = t.kids[g[j]]
  BY <1>1, <1>2, <1>5
<1>9. \A i, j \in 1..(n+1) : i # at /\ j # at /\ i # j => g[i] # g[j]
  BY <1>1, <1>2
<1>10. \A x \in 1..n : \E j \in 1..(n+1) : j # at /\ g[j] = x
  <2> TAKE x \in 1..n
  <2>1. CASE x = at
    <3>1. x = first /\ n + 1 # at /\ n + 1 \in 1..(n+1) /\ g[n+1] = first
      BY <1>1, <1>2, <2>1
    <3> QED BY <3>1
  <2>2. CASE x # at
    <3>1. x \in 1..(n+1) /\ g[x] = x
      BY <1>1
    <3> QED BY <2>2, <3>1
  <2> QED BY <2>1, <2>2
<1>11. \A j \in first + 1..n + 1 : j \in 1..(n+1) /\ j # at /\ g[j] \in first..n
  <2> TAKE j \in first + 1..n + 1
  <2>1. first \in 1..n /\ t.nz > 0
    BY <1>1, <1>2
  <2>2. at = first
    BY <2>1
  <2>3. j \in 1..(n+1) /\ j # first
    BY <1>1, <2>1
  <2>4. g[j] = IF j = n + 1 THEN first ELSE j
    BY <2>3
  <2> HIDE DEF g, at, n
  <2>5. g[j] \in first..n
    BY <1>1, <2>1, <2>3, <2>4
  <2> QED BY <2>2, <2>3, <2>5
<1>12. new.pid = pid /\ new.profile = NoProfile /\ \A x \in 1..top : x # pid /\ x \in 1..pid
  BY <1>1 DEF new
<1> HIDE DEF g, at
<1>13. \A j \in 1..n : /\ t.kids[j].pid \in 1..top /\ t.kids[j].pid \notin t.reaped
                       /\ t.kids[j].profile = ProfileOf(t, t.kids[j].pid) /\ t.kids[j].pid \in t.registered
  BY DEF TableInv
<1>14. pid \notin t.reaped /\ pid \notin t.loaded /\ pid \in 1..pid
  <2>1. t.reaped \subseteq 1..top /\ t.loaded \subseteq 1..top
    BY DEF TableInv
  <2> QED BY <1>1, <1>12, <2>1
<1>15. \A j \in 1..(n+1) : /\ k[j].pid \in 1..pid /\ k[j].pid \notin t.reaped
                           /\ k[j].profile = ProfileOf(u, k[j].pid) /\ k[j].pid \in u.registered
  <2> TAKE j \in 1..(n+1)
  <2>1. CASE j = at
    BY <1>5, <1>6, <1>12, <1>14, <2>1 DEF ProfileOf
  <2>2. CASE j # at
    BY <1>6, <1>8, <1>12, <1>13, <2>2 DEF ProfileOf
  <2> QED BY <2>1, <2>2
<1>16. \A i, j \in 1..(n+1) : i # j => k[i].pid # k[j].pid
  <2>1. \A j \in 1..(n+1) : j # at => k[j].pid \in 1..top
    BY <1>8, <1>13
  <2>2. \A i, j \in 1..n : i # j => t.kids[i].pid # t.kids[j].pid
    BY DEF TableInv
  <2> SUFFICES ASSUME NEW i \in 1..(n+1), NEW j \in 1..(n+1), i # j PROVE k[i].pid # k[j].pid
    OBVIOUS
  <2> HIDE DEF n, pid
  <2>3. CASE i # at /\ j # at
    <3>1. g[i] \in 1..n /\ g[j] \in 1..n /\ g[i] # g[j] /\ k[i] = t.kids[g[i]] /\ k[j] = t.kids[g[j]]
      BY <1>8, <1>9, <2>3
    <3> QED BY <2>2, <3>1
  <2>4. CASE i = at
    BY <1>5, <1>12, <2>1, <2>4
  <2>5. CASE j = at
    BY <1>5, <1>12, <2>1, <2>5
  <2> QED BY <2>3, <2>4, <2>5
<1>17. \A j \in first + 1..n + 1 : k[j].pid \in ex
  <2>1. \A j \in first..n : t.kids[j].pid \in ex
    BY <1>1 DEF TableInv, first
  <2> QED BY <1>8, <1>11, <2>1
<1>18. \A p \in u.registered : p \in t.reaped \/ \E j \in 1..(n+1) : k[j].pid = p
  <2>0. k[at].pid = pid /\ at \in 1..(n+1)
    BY <1>5, <1>12
  <2> SUFFICES ASSUME NEW p \in t.registered, p \notin t.reaped PROVE \E j \in 1..(n+1) : k[j].pid = p
    BY <1>6, <2>0
  <2>1. PICK x \in 1..n : t.kids[x].pid = p
    BY DEF TableInv
  <2> QED BY <1>8, <1>10, <2>1
<1>19. /\ t.reaped \subseteq ex /\ ex \subseteq 1..pid /\ u.unloaded = u.loaded \cap u.reaped
       /\ u.reaped \subseteq u.registered /\ u.loaded \subseteq u.registered /\ u.registered \subseteq 1..pid
  BY <1>1, <1>6, <1>12, <1>14 DEF TableInv
<1>20. TableInv(u, ex, pid)
  <2> HIDE DEF n, pid
  <2> QED BY <1>1, <1>5, <1>6, <1>7, <1>15, <1>16, <1>17, <1>18, <1>19 DEF TableInv, n
<1>21. \E i \in 1..Len(u.kids) : u.kids[i].pid = pid
  BY <1>5, <1>6, <1>12
<1> QED BY <1>20, <1>21 DEF u

\* register_child_profile finds the entry of the child.
LEMMA ProfileFacts ==
    ASSUME NEW ex, NEW top, NEW t, TableInv(t, ex, top), NEW pid \in Nat,
           \E i \in 1..Len(t.kids) : t.kids[i].pid = pid
    PROVE  TableInv(register_child_profile(t, pid), ex, top)
<1> DEFINE n == Len(t.kids)
           x == IndexOf(t, pid)
           e == [t.kids[x] EXCEPT !.profile = pid]
           k == [t.kids EXCEPT ![x] = e]
           u == register_child_profile(t, pid)
<1>1. /\ t \in Table /\ t.kids \in Seq(Kid) /\ t.nz \in Nat /\ t.nz <= n /\ n \in Nat /\ DOMAIN t.kids = 1..n
  BY DEF TableInv, Table
<1>2. x \in 1..n /\ t.kids[x].pid = pid
  BY <1>1 DEF IndexOf
<1>3. u = [t EXCEPT !.kids = k, !.loaded = t.loaded \cup {pid}]
  BY DEF register_child_profile
<1> HIDE DEF x
<1>4. e \in Kid /\ e.pid = pid /\ e.profile = pid
  <2>1. t.kids[x] \in Kid
    BY <1>1, <1>2, ElementOfSeq
  <2> QED BY <1>2, <2>1 DEF Kid
<1> HIDE DEF e
<1>5. k \in Seq(Kid) /\ Len(k) = n /\ \A j \in 1..n : k[j] = IF j = x THEN e ELSE t.kids[j]
  BY <1>1, <1>2, <1>4
<1> HIDE DEF k, u
<1>6. /\ u \in Table /\ u.kids = k /\ u.nz = t.nz /\ u.reaped = t.reaped /\ u.unloaded = t.unloaded
      /\ u.registered = t.registered /\ u.loaded = t.loaded \cup {pid}
  <2> DEFINE l == t.loaded \cup {pid}
  <2>1. l \in SUBSET Nat /\ u = [t EXCEPT !.kids = k, !.loaded = l]
    BY <1>1, <1>3 DEF Table
  <2> HIDE DEF l
  <2>2. /\ u \in Table /\ u.kids = k /\ u.nz = t.nz /\ u.reaped = t.reaped /\ u.unloaded = t.unloaded
        /\ u.registered = t.registered /\ u.loaded = l
    BY <1>1, <1>5, <2>1 DEF Table
  <2> QED BY <2>2 DEF l
<1>7. Live(u) = Live(t) /\ Len(u.kids) = n
  BY <1>5, <1>6 DEF Live
<1>8. \A j \in 1..n : k[j].pid = t.kids[j].pid /\ k[j].profile = IF j = x THEN pid ELSE t.kids[j].profile
  BY <1>2, <1>4, <1>5
<1>9. \A j \in Live(t) + 1..n : j \in 1..n
  BY <1>1 DEF Live
<1>10. /\ top \in Nat /\ t.reaped \subseteq ex /\ ex \subseteq 1..top /\ t.unloaded = t.loaded \cap t.reaped
       /\ t.reaped \subseteq t.registered /\ t.loaded \subseteq t.registered /\ t.registered \subseteq 1..top
       /\ \A j \in 1..n : /\ t.kids[j].pid \in 1..top /\ t.kids[j].pid \notin t.reaped
                          /\ t.kids[j].profile = ProfileOf(t, t.kids[j].pid) /\ t.kids[j].pid \in t.registered
       /\ \A i, j \in 1..n : i # j => t.kids[i].pid # t.kids[j].pid
       /\ \A j \in Live(t) + 1..n : t.kids[j].pid \in ex
       /\ \A p \in t.registered : p \in t.reaped \/ \E j \in 1..n : t.kids[j].pid = p
  BY DEF TableInv
<1> HIDE DEF n
<1>11. \A j \in 1..n : /\ k[j].pid \in 1..top /\ k[j].pid \notin t.reaped
                       /\ k[j].profile = ProfileOf(u, k[j].pid) /\ k[j].pid \in u.registered
  BY <1>2, <1>6, <1>8, <1>10 DEF ProfileOf
<1>12. \A i, j \in 1..n : i # j => k[i].pid # k[j].pid
  BY <1>8, <1>10
<1>13. \A j \in Live(t) + 1..n : k[j].pid \in ex
  BY <1>8, <1>9, <1>10
<1>14. \A p \in t.registered : p \in t.reaped \/ \E j \in 1..n : k[j].pid = p
  BY <1>8, <1>10
<1>15. u.loaded \subseteq u.registered /\ u.unloaded = u.loaded \cap u.reaped
  <2>1. pid \in t.registered /\ pid \notin t.reaped
    BY <1>2, <1>10
  <2> QED BY <1>6, <1>10, <2>1
<1>16. TableInv(u, ex, top)
  <2> SUFFICES /\ u \in Table /\ u.nz <= Len(u.kids) /\ top \in Nat
               /\ \A i \in 1..n : /\ u.kids[i].pid \in 1..top /\ u.kids[i].pid \notin u.reaped
                                  /\ u.kids[i].profile = ProfileOf(u, u.kids[i].pid)
                                  /\ u.kids[i].pid \in u.registered
               /\ \A i, j \in 1..n : i # j => u.kids[i].pid # u.kids[j].pid
               /\ \A i \in Live(t) + 1..n : u.kids[i].pid \in ex
               /\ u.reaped \subseteq ex /\ ex \subseteq 1..top
               /\ u.reaped \subseteq u.registered /\ u.registered \subseteq 1..top
               /\ \A p \in u.registered : p \in u.reaped \/ \E i \in 1..n : u.kids[i].pid = p
               /\ u.loaded \subseteq u.registered /\ u.unloaded = u.loaded \cap u.reaped
    BY <1>7 DEF TableInv
  <2>1. u.nz <= Len(u.kids)
    BY <1>1, <1>6, <1>7
  <2> QED BY <1>6, <1>10, <1>11, <1>12, <1>13, <1>14, <1>15, <2>1
<1> QED BY <1>16 DEF u

\* The first child found to have exited.
LEMMA FirstFacts ==
    ASSUME NEW ex, NEW top, NEW t, TableInv(t, ex, top), Signalled(t, ex) # {}
    PROVE  /\ First(Signalled(t, ex)) \in 1..Live(t) /\ First(Signalled(t, ex)) \in 1..Len(t.kids)
           /\ t.kids[First(Signalled(t, ex))].pid \in ex
<1> DEFINE S == Signalled(t, ex)
<1>1. t.nz \in Nat /\ Len(t.kids) \in Nat
  BY DEF TableInv, Table
<1>2. S \subseteq Nat /\ \A i \in S : i \in 1..Live(t) /\ i \in 1..Len(t.kids) /\ t.kids[i].pid \in ex
  BY <1>1 DEF Signalled, Live
<1> HIDE DEF S
<1>3. PICK x \in S : \A y \in S : <<y, x>> \notin OpToRel(<, Nat)
  BY <1>2, NatLessThanWellFounded, WFMin DEF S
<1>4. \A y \in S : ~(y < x)
  BY <1>2, <1>3 DEF OpToRel
<1>5. \A y \in S : x <= y
  BY <1>2, <1>4
<1>6. First(S) \in S
  BY <1>5 DEF First
<1> QED BY <1>2, <1>6 DEF S

----------------------------------------------------------------------------
(* The invariant. *)

IInv == TableInv(table, exited, app.spawned) /\ "spawned" \in DOMAIN app

\* No child is started.
NoSpawn == app'.spawned = app.spawned /\ "spawned" \in DOMAIN app'

\* wait_for_any_event leaves the table alone or makes one zombie of a child
\* that has exited.
LEMMA WaitFacts ==
    ASSUME IInv, NEW poll, NEW r, wait_for_any_event(poll, r)
    PROVE  TableInv(table', exited, app.spawned)
<1> DEFINE S == Signalled(table, exited)
<1>1. table' = table \/ (S # {} /\ table' = sw_child_to_zombie(table, First(S)))
  BY DEF wait_for_any_event, NotesChild, RunsAPCs, TimesOut, sw_process_pending_signals
<1> HIDE DEF S
<1>2. CASE S # {} /\ table' = sw_child_to_zombie(table, First(S))
  BY <1>2, FirstFacts, ZombieFacts DEF IInv, S
<1> QED BY <1>1, <1>2 DEF IInv

\* The calls of the program start no child, and change the table in no other
\* way than by waiting.
LEMMA CallsInv == IInv /\ Calls => IInv'
<1> SUFFICES ASSUME IInv, Calls PROVE IInv'
  OBVIOUS
<1>0. "spawned" \in DOMAIN app
  BY DEF IInv
<1>1. CASE Collect \/ Turn \/ Close \/ CloseHandle
  <2>1. UNCHANGED <<table, exited>> /\ NoSpawn
    BY <1>0, <1>1 DEF Collect, Turn, Close, CloseHandle, NoSpawn, Closed
  <2> QED BY <2>1 DEF IInv, NoSpawn
<1>2. CASE Read \/ ReadPending \/ ReadFails \/ ReadStarts \/ ReadWaited
  <2>1. UNCHANGED <<table, exited>> /\ NoSpawn
    BY <1>0, <1>2 DEF Read, ReadPending, ReadFails, ReadStarts, ReadWaited, Take, NoSpawn
  <2> QED BY <2>1 DEF IInv, NoSpawn
<1>3. \A n, f : Written(app, n, f).spawned = app.spawned /\ "spawned" \in DOMAIN Written(app, n, f)
  BY <1>0 DEF Written
<1>4. \A n : ChunkTaken(n).spawned = app.spawned /\ "spawned" \in DOMAIN ChunkTaken(n)
  BY <1>0, <1>3 DEF ChunkTaken
<1>5. CASE Write \/ WritePending \/ WriteFails \/ WriteWaited
  <2>1. UNCHANGED <<table, exited>>
    BY <1>5 DEF Write, WritePending, WriteFails, WriteWaited
  <2>2. \/ \E pc : app' = [app EXCEPT !.pc = pc]
        \/ \E n, f : app' = Written(app, n, f)
        \/ \E n : app' = ChunkTaken(n)
    BY <1>5 DEF Write, WritePending, WriteFails, WriteWaited, Accepted, Failed
  <2>3. NoSpawn
    BY <1>0, <1>3, <1>4, <2>2 DEF NoSpawn
  <2> QED BY <2>1, <2>3 DEF IInv, NoSpawn
<1>6. CASE Select \/ CloseWaits \/ ReadWaits \/ WriteWaits
  <2>1. PICK poll, r : wait_for_any_event(poll, r)
    BY <1>6 DEF Select, CloseWaits, ReadWaits, WriteWaits
  <2>2. TableInv(table', exited, app.spawned) /\ exited' = exited
    BY <1>6, <2>1, WaitFacts DEF Select, CloseWaits, ReadWaits, WriteWaits
  <2>3. \/ app' = app \/ app' = Closed \/ \E n, f : app' = Written(app, n, f)
        \/ \E pc : app' = [app EXCEPT !.pc = pc]
        \/ \E pc, ready : app' = [app EXCEPT !.pc = pc, !.ready = ready]
    BY <1>6 DEF Select, CloseWaits, ReadWaits, WriteWaits, Failed
  <2>4. NoSpawn
    BY <1>0, <1>3, <2>3 DEF NoSpawn, Closed
  <2> QED BY <2>2, <2>4 DEF IInv, NoSpawn
<1> QED BY <1>1, <1>2, <1>5, <1>6 DEF Calls

\* Children that exit, that are reaped and that are started.
LEMMA ChildInv == IInv /\ (ChildExit \/ Reap \/ WaitPid \/ Spawn) => IInv'
<1> SUFFICES ASSUME IInv, ChildExit \/ Reap \/ WaitPid \/ Spawn PROVE IInv'
  OBVIOUS
<1> DEFINE t == table
           n == Len(t.kids)
<1>1. /\ TableInv(t, exited, app.spawned) /\ "spawned" \in DOMAIN app /\ DOMAIN t.kids = 1..n /\ n \in Nat
      /\ t.nz \in Nat /\ t.nz <= n /\ app.spawned \in Nat
  BY DEF IInv, TableInv, Table
<1>2. CASE ChildExit
  <2>1. PICK i \in 1..n : exited' = exited \cup {t.kids[i].pid}
    BY <1>1, <1>2 DEF ChildExit
  <2>2. table' = table /\ app' = app
    BY <1>2 DEF ChildExit
  <2>3. TableInv(t, exited', app.spawned)
    BY <1>1, <2>1 DEF TableInv
  <2> QED BY <1>1, <2>2, <2>3 DEF IInv
<1>3. CASE Reap
  <2>1. table' = ReapOne(t, exited) /\ exited' = exited /\ app' = app
    BY <1>3 DEF Reap
  <2>2. CASE t.nz > 0
    <3>1. n \in 1..n /\ n \in Live(t) + 1..n
      BY <1>1, <2>2 DEF Live
    <3>2. t.kids[n].pid \in exited
      BY <1>1, <3>1 DEF TableInv
    <3>3. TableInv(table', exited, app.spawned)
      BY <1>1, <2>1, <2>2, <3>1, <3>2, RemoveFacts DEF ReapOne
    <3> QED BY <1>1, <2>1, <3>3 DEF IInv
  <2>3. CASE ~(t.nz > 0) /\ Signalled(t, exited) # {}
    <3>1. TableInv(table', exited, app.spawned)
      BY <1>1, <2>1, <2>3, FirstFacts, RemoveFacts DEF ReapOne
    <3> QED BY <1>1, <2>1, <3>1 DEF IInv
  <2>4. CASE ~(t.nz > 0) /\ Signalled(t, exited) = {}
    BY <1>1, <2>1, <2>4 DEF ReapOne, IInv
  <2> QED BY <2>2, <2>3, <2>4
<1>4. CASE WaitPid
  <2>1. PICK i \in 1..n : t.kids[i].pid \in exited /\ table' = ReapPid(t, t.kids[i].pid)
    BY <1>1, <1>4 DEF WaitPid
  <2> DEFINE x == IndexOf(t, t.kids[i].pid)
  <2>2. x \in 1..n /\ t.kids[x].pid = t.kids[i].pid
    BY <1>1 DEF IndexOf
  <2> HIDE DEF x
  <2>3. TableInv(table', exited, app.spawned)
    BY <1>1, <2>1, <2>2, RemoveFacts DEF ReapPid, x
  <2>4. exited' = exited /\ app' = app
    BY <1>4 DEF WaitPid
  <2> QED BY <1>1, <2>3, <2>4 DEF IInv
<1>5. CASE Spawn
  <2> DEFINE pid == app.spawned + 1
             u == register_child(t, pid)
  <2>1. app' = [app EXCEPT !.spawned = pid] /\ exited' = exited
    BY <1>5 DEF Spawn
  <2>2. app'.spawned = pid /\ "spawned" \in DOMAIN app'
    BY <1>1, <2>1
  <2>3. table' \in {t, u, register_child_profile(u, pid)}
    BY <1>5 DEF Spawn
  <2>4. TableInv(t, exited, pid)
    <3>1. pid \in Nat /\ \A p \in 1..app.spawned : p \in 1..pid
      BY <1>1
    <3> HIDE DEF pid
    <3> QED BY <1>1, <3>1 DEF TableInv
  <2>5. TableInv(u, exited, pid) /\ \E i \in 1..Len(u.kids) : u.kids[i].pid = pid
    BY <1>1, RegisterFacts
  <2>6. TableInv(register_child_profile(u, pid), exited, pid)
    <3>1. pid \in Nat
      BY <1>1
    <3> HIDE DEF u, pid
    <3> QED BY <2>5, <3>1, ProfileFacts
  <2> QED BY <2>1, <2>2, <2>3, <2>4, <2>5, <2>6 DEF IInv
<1> QED BY <1>2, <1>3, <1>4, <1>5

\* The invariant holds in every state of every behaviour.
LEMMA Invariant == Spec => []IInv
<1>1. Init => IInv
  <2> SUFFICES ASSUME Init PROVE IInv
    OBVIOUS
  <2>1. table = NoChildren /\ exited = {} /\ app.spawned = 0 /\ "spawned" \in DOMAIN app
    BY DEF Init
  <2>2. /\ NoChildren \in Table /\ NoChildren.kids = <<>> /\ NoChildren.nz = 0
        /\ NoChildren.reaped = {} /\ NoChildren.unloaded = {} /\ Len(<<>>) = 0
        /\ NoChildren.registered = {} /\ NoChildren.loaded = {}
    BY DEF NoChildren, Table
  <2>3. TableInv(NoChildren, {}, 0)
    BY <2>2 DEF TableInv, Live
  <2> QED BY <2>1, <2>3 DEF IInv
<1>2. IInv /\ [Next]_vars => IInv'
  <2> SUFFICES ASSUME IInv, [Next]_vars PROVE IInv'
    OBVIOUS
  <2>1. CASE UNCHANGED <<table, exited, app>>
    BY <2>1 DEF IInv
  <2>2. CASE Next
    <3>1. CASE System
      <4>1. UNCHANGED <<table, exited, app>> \/ ChildExit
        BY <3>1 DEF System, Send, SourceEnds, ReadCompletes, WriteCompletes, Drain, SinkGone, Signal
      <4> QED BY <2>1, <4>1, ChildInv
    <3>2. CASE Program \/ Spawn \/ WaitPid
      BY <3>2, CallsInv, ChildInv DEF Program
    <3> QED BY <2>2, <3>1, <3>2 DEF Next
  <2> QED BY <2>1, <2>2 DEF vars
<1> QED BY <1>1, <1>2, PTL DEF Spec

----------------------------------------------------------------------------
\* The table of children loses and invents nobody: every child registered is
\* in it or was reaped, never both, and what it calls a zombie has exited,
\* for any MAX_CHILDREN and any order of exits, waits and registrations.
THEOREM ChildrenAreTracked == Spec => []ChildrenTracked
<1>1. IInv => ChildrenTracked
  <2> SUFFICES ASSUME TableInv(table, exited, app.spawned) PROVE ChildrenTracked
    BY DEF IInv
  <2> DEFINE n == Len(table.kids)
             pids == [i \in DOMAIN table.kids |-> table.kids[i].pid]
  <2>1. DOMAIN table.kids = 1..n /\ n \in Nat /\ Live(table) \in Nat
    BY DEF TableInv, Table, Live
  <2>2. DOMAIN pids = 1..n /\ \A i \in 1..n : pids[i] = table.kids[i].pid
    BY <2>1
  <2>3. Len(pids) = n
    <3>1. pids = [i \in 1..n |-> table.kids[i].pid]
      BY <2>1
    <3> QED BY <2>1, <3>1
  <2>4. \A i, j \in 1..n : i # j => table.kids[i].pid # table.kids[j].pid
    BY DEF TableInv
  <2>5. /\ \A i \in 1..n : table.kids[i].pid \notin table.reaped
        /\ table.reaped \subseteq exited
        /\ table.reaped \subseteq table.registered /\ \A i \in 1..n : table.kids[i].pid \in table.registered
        /\ \A p \in table.registered : p \in table.reaped \/ \E i \in 1..n : table.kids[i].pid = p
        /\ \A i \in Live(table) + 1..n : table.kids[i].pid \in exited
    BY DEF TableInv
  <2> SUFFICES /\ IsInjective(pids)
               /\ Range(pids) \cap table.reaped = {}
               /\ \A i \in Live(table) + 1 .. Len(pids) : pids[i] \in exited
               /\ table.reaped \subseteq exited
               /\ table.registered = Range(pids) \cup table.reaped
    BY DEF ChildrenTracked
  <2> HIDE DEF pids, n
  <2>6. IsInjective(pids)
    BY <2>2, <2>4 DEF IsInjective
  <2>7. \A x : x \in Range(pids) <=> \E i \in 1..n : table.kids[i].pid = x
    BY <2>2 DEF Range
  <2>8. \A i \in Live(table) + 1 .. Len(pids) : pids[i] \in exited
    <3>1. \A i \in Live(table) + 1 .. n : i \in 1..n
      BY <2>1
    <3> QED BY <2>2, <2>3, <2>5, <3>1
  <2> QED BY <2>5, <2>6, <2>7, <2>8
<1> QED BY <1>1, Invariant, PTL

\* A user's profile is unloaded with the child it was loaded for, neither
\* earlier nor never, and until then it is in that child's entry, however the
\* entries of the table were moved.
THEOREM ProfilesStayWithChildren == Spec => []ProfilesFollow
<1>1. IInv => ProfilesFollow
  <2> SUFFICES ASSUME TableInv(table, exited, app.spawned) PROVE ProfilesFollow
    BY DEF IInv
  <2>1. DOMAIN table.kids = 1..Len(table.kids)
    BY DEF TableInv, Table
  <2> QED BY <2>1 DEF TableInv, ProfilesFollow, ProfileOf
<1> QED BY <1>1, Invariant, PTL

----------------------------------------------------------------------------
(* The copy: every byte that was sent is in one place. *)

ReadRecord == [pending : BOOLEAN, ready : Seq(Nat), error : {"none", "eof", "reset"},
               op : {"idle", "issued", "done"}, got : Seq(Nat), err : {"none", "eof", "reset"}]
WriteRecord == [pending : BOOLEAN, buf : Seq(Nat), error : {"none", "broken"},
                op : {"idle", "issued", "done"}, err : {"none", "broken"}, handle : {"open", "closed"}]
Places == {"loop", "poll", "select", "io", "late", "rwait", "chunk", "wlate", "wwait", "close"}
AppRecord == [pc : Places, buf : Seq(Nat), ended : BOOLEAN, ready : SUBSET {"r", "w"},
              copied : Nat, spawned : Nat, open : BOOLEAN]
SourceRecord == [sent : Nat, avail : Seq(Nat), end : {"none", "eof", "reset"}]
SinkRecord == [pipe : Seq(Nat), drained : Seq(Nat), gone : BOOLEAN]

\* The bytes of s are numbered on from a.
Run(s, a) == \A i \in 1..Len(s) : s[i] = a + i

\* What was taken from the source and not yet by the program, and how much
\* the program has got.
Inbox(r) == IF r.op = "done" THEN r.got ELSE r.ready
Got(r, src) == src.sent - Len(src.avail) - Len(Inbox(r))
AllRead(r, src) == src.end # "none" /\ src.avail = <<>> /\ r.ready = <<>> /\ r.got = <<>>

ReadInv(r, src) ==
    /\ r \in ReadRecord /\ src \in SourceRecord
    /\ r.pending <=> r.op # "idle"
    /\ r.op # "idle" => r.ready = <<>> /\ r.error = "none"
    /\ r.op # "done" => r.got = <<>> /\ r.err = "none"
    /\ r.error # "none" \/ r.err # "none" => AllRead(r, src)
    /\ Run(src.avail, src.sent - Len(src.avail))
    /\ Run(Inbox(r), Got(r, src))

\* What the system will still write, and how much has come out of the pipe or
\* is in it.
Flight(w) == IF w.op = "issued" THEN w.buf ELSE <<>>
Out(s) == Len(s.drained) + Len(s.pipe)

WriteInv(w, s) ==
    /\ w \in WriteRecord /\ s \in SinkRecord
    /\ w.pending <=> w.op # "idle"
    /\ w.error # "none" \/ w.err # "none" => s.gone
    /\ Run(s.drained, 0) /\ Run(s.pipe, Len(s.drained))

\* How much of its buffer the program has handed to the system: the earlier
\* chunks of the call under way, and the one that a blocking write waits for.
ChunkLen(a) == IF a.copied + WriteBuffer < Len(a.buf) THEN WriteBuffer ELSE Len(a.buf) - a.copied
Taken(a) == a.copied + (IF a.pc = "wwait" THEN ChunkLen(a) ELSE 0)

AppInv(a) ==
    /\ a \in AppRecord
    /\ a.copied <= Len(a.buf) /\ Len(a.buf) <= AppBuffer
    /\ a.pc = "close" => a.ended /\ a.buf = <<>>

\* The pipe, the write under way and what is left of the buffer follow each
\* other and end where the program stopped reading.
Down(s, w, a, b) ==
    LET f == Out(s) + Len(Flight(w))
    IN  /\ Run(Flight(w), Out(s))
        /\ Taken(a) <= f /\ Run(a.buf, f - Taken(a))
        /\ f + Len(a.buf) - Taken(a) = b

\* Everything was read when the program thinks so, and all of it is in the
\* pipe when the handle is closed.
Ended(a, r, src, s) == a.ended => s.gone \/ AllRead(r, src)
Shut(w, s, a) == w.handle = "closed" => s.gone \/ (a.ended /\ a.buf = <<>> /\ Flight(w) = <<>>)

Copy(r, src, w, s, a) ==
    /\ ReadInv(r, src) /\ WriteInv(w, s) /\ AppInv(a)
    /\ ~s.gone => Down(s, w, a, Got(r, src))
    /\ Ended(a, r, src, s) /\ Shut(w, s, a)

\* No blocking write is interrupted: the program is the loop, or nothing
\* interrupts its calls, or there is nothing to write.
Uninterrupted(s) == s.blocking => s.bytes = 0 \/ (s.pids = 0 /\ s.signals \subseteq Quiet)
Undisturbed ==
    /\ Uninterrupted(setup)
    /\ setup.bytes = 0 => source.sent = 0
    /\ {"pending", "apcs"} \subseteq DOMAIN sig
    /\ setup.pids = 0 => table.kids = <<>> /\ sig.pending \cup sig.apcs \subseteq setup.signals

CopyInv ==
    /\ Copy(rd, source, wr, sink, app) /\ (app.pc = "wwait" => setup.blocking)
    /\ Undisturbed

\* Nothing is a run from anywhere.
LEMMA RunEmpty == \A a : Run(<<>>, a)
BY DEF Run

\* A part of a run is a run.
LEMMA RunPart ==
    ASSUME NEW s \in Seq(Nat), NEW a \in Int, Run(s, a), NEW n \in Nat, NEW m \in Nat, n <= m, m <= Len(s)
    PROVE  /\ SubSeq(s, n + 1, m) \in Seq(Nat) /\ Len(SubSeq(s, n + 1, m)) = m - n
           /\ Run(SubSeq(s, n + 1, m), a + n)
<1> DEFINE t == SubSeq(s, n + 1, m)
<1>1. Len(s) \in Nat /\ \A i \in n + 1..m : s[i] \in Nat
  BY LenProperties
<1>2. /\ t \in Seq(Nat) /\ Len(t) = IF n + 1 <= m THEN m - (n + 1) + 1 ELSE 0
      /\ \A i \in 1..m - (n + 1) + 1 : t[i] = s[n + 1 + i - 1]
  <2> DEFINE m1 == n + 1
  <2>1. m1 \in Int /\ m \in Int /\ \A i \in m1..m : s[i] \in Nat
    BY <1>1
  <2> HIDE DEF m1
  <2>2. /\ SubSeq(s, m1, m) \in Seq(Nat) /\ Len(SubSeq(s, m1, m)) = IF m1 <= m THEN m - m1 + 1 ELSE 0
        /\ \A i \in 1..m - m1 + 1 : SubSeq(s, m1, m)[i] = s[m1 + i - 1]
    BY <2>1, SubSeqProperties
  <2> QED BY <2>2 DEF m1
<1> HIDE DEF t
<1>3. Len(t) = m - n
  BY <1>2
<1>4. ASSUME NEW i \in 1..Len(t) PROVE t[i] = a + n + i
  <2>1. i \in 1..m - (n + 1) + 1 /\ n + 1 + i - 1 = n + i /\ n + i \in 1..Len(s)
    BY <1>1, <1>3
  <2>2. t[i] = s[n + i]
    BY <1>2, <2>1
  <2>3. s[n + i] = a + (n + i)
    BY <2>1 DEF Run
  <2> QED BY <2>1, <2>2, <2>3
<1>5. Run(t, a + n)
  BY <1>4 DEF Run
<1> QED BY <1>2, <1>3, <1>5 DEF t

\* The beginning of a run is a run from the same number.
LEMMA RunPrefix ==
    ASSUME NEW s \in Seq(Nat), NEW a \in Int, Run(s, a), NEW m \in Nat, m <= Len(s)
    PROVE  SubSeq(s, 1, m) \in Seq(Nat) /\ Len(SubSeq(s, 1, m)) = m /\ Run(SubSeq(s, 1, m), a)
<1>1. SubSeq(s, 0 + 1, m) = SubSeq(s, 1, m) /\ a + 0 = a /\ m - 0 = m
  OBVIOUS
<1>2. /\ SubSeq(s, 0 + 1, m) \in Seq(Nat) /\ Len(SubSeq(s, 0 + 1, m)) = m - 0
      /\ Run(SubSeq(s, 0 + 1, m), a + 0)
  BY RunPart
<1> QED BY <1>1, <1>2

\* Two runs that follow each other are one.
LEMMA RunCat ==
    ASSUME NEW s \in Seq(Nat), NEW t \in Seq(Nat), NEW a \in Int, Run(s, a), Run(t, a + Len(s))
    PROVE  s \o t \in Seq(Nat) /\ Len(s \o t) = Len(s) + Len(t) /\ Run(s \o t, a)
<1>1. /\ s \o t \in Seq(Nat) /\ Len(s \o t) = Len(s) + Len(t) /\ Len(s) \in Nat /\ Len(t) \in Nat
      /\ \A i \in 1..Len(s) + Len(t) : (s \o t)[i] = IF i <= Len(s) THEN s[i] ELSE t[i - Len(s)]
  BY ConcatProperties, LenProperties
<1>2. ASSUME NEW i \in 1..Len(s \o t) PROVE (s \o t)[i] = a + i
  <2>1. CASE i <= Len(s)
    <3>1. i \in 1..Len(s) /\ (s \o t)[i] = s[i]
      BY <1>1, <2>1
    <3> QED BY <3>1 DEF Run
  <2>2. CASE ~(i <= Len(s))
    <3>1. i - Len(s) \in 1..Len(t) /\ (s \o t)[i] = t[i - Len(s)]
      BY <1>1, <2>2
    <3>2. t[i - Len(s)] = a + Len(s) + (i - Len(s))
      BY <3>1 DEF Run
    <3>3. a + Len(s) + (i - Len(s)) = a + i
      BY <1>1
    <3> QED BY <3>1, <3>2, <3>3
  <2> QED BY <2>1, <2>2
<1> QED BY <1>1, <1>2 DEF Run

\* A run goes on with the next number.
LEMMA RunNext ==
    ASSUME NEW s \in Seq(Nat), NEW a \in Int, Run(s, a), NEW x \in Nat, x = a + Len(s) + 1
    PROVE  Append(s, x) \in Seq(Nat) /\ Len(Append(s, x)) = Len(s) + 1 /\ Run(Append(s, x), a)
<1>1. /\ Append(s, x) \in Seq(Nat) /\ Len(Append(s, x)) = Len(s) + 1 /\ Len(s) \in Nat
      /\ \A i \in 1..Len(s) : Append(s, x)[i] = s[i]
      /\ Append(s, x)[Len(s) + 1] = x
  BY AppendProperties, LenProperties
<1>2. ASSUME NEW i \in 1..Len(s) + 1 PROVE Append(s, x)[i] = a + i
  <2>1. CASE i \in 1..Len(s)
    BY <1>1, <2>1 DEF Run
  <2>2. CASE i = Len(s) + 1
    BY <1>1, <2>2
  <2> QED BY <1>1, <2>1, <2>2
<1> QED BY <1>1, <1>2 DEF Run

\* A run without its first number goes on from it.
LEMMA RunTail ==
    ASSUME NEW s \in Seq(Nat), NEW a \in Int, Run(s, a), s # <<>>
    PROVE  /\ Tail(s) \in Seq(Nat) /\ Len(Tail(s)) = Len(s) - 1 /\ Run(Tail(s), a + 1)
           /\ Head(s) = a + 1 /\ Head(s) \in Nat
<1>1. /\ Tail(s) \in Seq(Nat) /\ Len(Tail(s)) = Len(s) - 1 /\ Len(s) \in Nat \ {0} /\ Head(s) \in Nat
      /\ \A i \in 1..Len(Tail(s)) : Tail(s)[i] = s[i + 1]
  BY HeadTailProperties, EmptySeq
<1>2. Head(s) = s[1] /\ 1 \in 1..Len(s)
  BY <1>1
<1>3. ASSUME NEW i \in 1..Len(Tail(s)) PROVE Tail(s)[i] = a + 1 + i
  <2>1. i + 1 \in 1..Len(s)
    BY <1>1
  <2>2. s[i + 1] = a + (i + 1)
    BY <2>1 DEF Run
  <2> QED BY <1>1, <2>1, <2>2
<1>4. Head(s) = a + 1
  BY <1>2 DEF Run
<1> QED BY <1>1, <1>3, <1>4 DEF Run

\* Lengths are numbers, and nothing is where there is no length.
LEMMA Lengths ==
    /\ \A s \in Seq(Nat) : Len(s) \in Nat /\ Len(s) \in Int /\ (Len(s) = 0 <=> s = <<>>)
    /\ <<>> \in Seq(Nat) /\ Len(<<>>) = 0
<1>1. <<>> \in Seq(Nat) /\ Len(<<>>) = 0 /\ \A s \in Seq(Nat) : s # <<>> => Len(s) \in Nat \ {0}
  BY EmptySeq
<1>2. \A s \in Seq(Nat) : Len(s) \in Nat
  BY LenProperties
<1> QED BY <1>1, <1>2

\* Sums, where the provers do not see that the terms are numbers.
LEMMA Sums == \A x, y, z \in Nat : x + y \in Nat /\ x + (y + z) = (x + y) + z /\ x + 0 = x
OBVIOUS

----------------------------------------------------------------------------
(* Reading. *)

\* The read side goes on without a change to what the program has got.
ReadKept(r, src, d, to) ==
    /\ ReadInv(d, to) /\ Got(d, to) = Got(r, src)
    /\ AllRead(r, src) => AllRead(d, to)

\* The types of what a read operation has.
LEMMA ReadTypes ==
    ASSUME NEW r, NEW src, ReadInv(r, src)
    PROVE  /\ r \in ReadRecord /\ src \in SourceRecord
           /\ r.ready \in Seq(Nat) /\ r.got \in Seq(Nat) /\ src.avail \in Seq(Nat) /\ Inbox(r) \in Seq(Nat)
           /\ Len(r.ready) \in Nat /\ Len(src.avail) \in Nat /\ Len(Inbox(r)) \in Nat /\ src.sent \in Nat
           /\ Got(r, src) \in Int
<1>1. /\ r \in ReadRecord /\ src \in SourceRecord /\ r.ready \in Seq(Nat) /\ r.got \in Seq(Nat)
      /\ src.avail \in Seq(Nat) /\ src.sent \in Nat
  BY DEF ReadInv, ReadRecord, SourceRecord
<1>2. Inbox(r) \in Seq(Nat)
  BY <1>1 DEF Inbox
<1>3. Len(r.ready) \in Nat /\ Len(src.avail) \in Nat /\ Len(Inbox(r)) \in Nat
  BY <1>1, <1>2, Lengths
<1>4. Got(r, src) \in Int
  BY <1>1, <1>3 DEF Got
<1> QED BY <1>1, <1>2, <1>3, <1>4

\* A read operation that completes takes bytes from the source.
LEMMA ReadDone ==
    ASSUME NEW r, ReadInv(r, source), r.op = "issued", Completable
    PROVE  ReadKept(r, source, CompletedRead(r),
                    [source EXCEPT !.avail = SubSeq(@, Len(Given) + 1, Len(@))])
<1> DEFINE n == Len(source.avail)
           k == IF n < ReadBuffer THEN n ELSE ReadBuffer
           a == source.sent - n
           g == SubSeq(source.avail, 1, k)
           t == SubSeq(source.avail, Len(g) + 1, n)
           d == CompletedRead(r)
           to == [source EXCEPT !.avail = t]
<1>1. /\ r \in ReadRecord /\ source \in SourceRecord /\ source.avail \in Seq(Nat) /\ n \in Nat
      /\ source.sent \in Nat /\ r.ready = <<>> /\ r.error = "none" /\ r.pending
      /\ Run(source.avail, a) /\ a \in Int
  <2>1. n \in Nat /\ source.sent \in Nat
    BY ReadTypes
  <2> QED BY <2>1, ReadTypes DEF ReadInv
<1>2. k \in Nat /\ k <= n /\ (k = 0 => n = 0)
  BY <1>1, SizeAssumption
<1>3. Given = g
  BY DEF Given
<1> HIDE DEF k
<1>4. g \in Seq(Nat) /\ Len(g) = k /\ Run(g, a)
  BY <1>1, <1>2, RunPrefix
<1> HIDE DEF g
<1>5. t = SubSeq(source.avail, k + 1, n)
  BY <1>4
<1>6. t \in Seq(Nat) /\ Len(t) = n - k /\ Run(t, a + k)
  <2>1. n <= n
    BY <1>1
  <2> QED BY <1>1, <1>2, <1>5, <2>1, RunPart
<1> HIDE DEF t
<1>7. to \in SourceRecord /\ to.sent = source.sent /\ to.avail = t /\ to.end = source.end
  BY <1>1, <1>6 DEF SourceRecord
<1>8. /\ d \in ReadRecord /\ d.op = "done" /\ d.got = g /\ d.ready = <<>> /\ d.error = "none" /\ d.pending
      /\ d.err = IF g = <<>> THEN source.end ELSE "none"
  BY <1>1, <1>3, <1>4 DEF CompletedRead, ReadRecord, SourceRecord
<1> HIDE DEF d, to
<1>9. Inbox(d) = g /\ Inbox(r) = <<>> /\ Len(<<>>) = 0
  BY <1>1, <1>8, Lengths DEF Inbox
<1>10. Got(d, to) = a /\ Got(r, source) = a
  BY <1>1, <1>2, <1>4, <1>6, <1>7, <1>9 DEF Got
<1>11. Run(to.avail, to.sent - Len(to.avail))
  <2>1. to.sent - Len(to.avail) = a + k
    BY <1>1, <1>2, <1>6, <1>7
  <2> QED BY <1>6, <1>7, <2>1
<1>12. ASSUME n = 0 PROVE g = <<>> /\ t = <<>> /\ source.avail = <<>>
  BY <1>1, <1>2, <1>4, <1>6, <1>12, Lengths
<1>13. ASSUME d.err # "none" PROVE AllRead(d, to)
  <2>1. g = <<>> /\ source.end # "none"
    BY <1>8, <1>13
  <2>2. n = 0
    BY <1>2, <1>4, <2>1, Lengths
  <2> QED BY <1>7, <1>8, <1>12, <2>1, <2>2 DEF AllRead
<1>14. ASSUME AllRead(r, source) PROVE AllRead(d, to)
  <2>1. n = 0 /\ source.end # "none"
    BY <1>14, Lengths DEF AllRead
  <2> QED BY <1>7, <1>8, <1>12, <2>1 DEF AllRead
<1>15. ReadInv(d, to)
  <2>1. Run(Inbox(d), Got(d, to))
    BY <1>4, <1>9, <1>10
  <2> QED BY <1>7, <1>8, <1>11, <1>13, <2>1 DEF ReadInv
<1>16. to = [source EXCEPT !.avail = SubSeq(@, Len(Given) + 1, Len(@))]
  BY <1>1, <1>3 DEF to, t, SourceRecord
<1>17. ReadKept(r, source, d, to)
  BY <1>10, <1>14, <1>15 DEF ReadKept
<1> QED BY <1>16, <1>17 DEF d

\* A completion routine moves what came to what is ready.
LEMMA ReadNoted ==
    ASSUME NEW r, NEW src, ReadInv(r, src)
    PROVE  ReadKept(r, src, ReadCompletion(r), src)
<1> DEFINE d == ReadCompletion(r)
<1>1. CASE r.op # "done"
  BY <1>1 DEF ReadCompletion, ReadKept
<1>2. CASE r.op = "done"
  <2>1. r \in ReadRecord /\ r.ready = <<>> /\ r.error = "none"
    BY <1>2 DEF ReadInv
  <2>2. /\ d \in ReadRecord /\ d.op = "idle" /\ ~d.pending /\ d.ready = r.got /\ d.error = r.err /\ d.got = <<>>
        /\ d.err = "none"
    BY <1>2, <2>1, Lengths DEF ReadCompletion, ReadRecord
  <2> HIDE DEF d
  <2>3. Inbox(d) = Inbox(r) /\ Got(d, src) = Got(r, src)
    BY <1>2, <2>2 DEF Inbox, Got
  <2>4. AllRead(r, src) => AllRead(d, src)
    BY <2>2 DEF AllRead
  <2>5. ReadInv(d, src)
    BY <2>2, <2>3, <2>4 DEF ReadInv
  <2> QED BY <2>3, <2>4, <2>5 DEF ReadKept, d
<1> QED BY <1>1, <1>2

\* A read is started when there is nothing that the last one got.
LEMMA ReadIssued ==
    ASSUME NEW r, NEW src, ReadInv(r, src), ~r.pending, ~Available(r)
    PROVE  ReadKept(r, src, IssuedRead(r), src) /\ IssuedRead(r).op = "issued"
<1> DEFINE d == IssuedRead(r)
<1>1. r \in ReadRecord /\ r.op = "idle" /\ r.ready = <<>> /\ r.error = "none" /\ r.got = <<>> /\ r.err = "none"
  BY DEF ReadInv, Available
<1>2. /\ d \in ReadRecord /\ d.op = "issued" /\ d.pending /\ d.ready = <<>> /\ d.error = "none" /\ d.got = <<>>
      /\ d.err = "none"
  BY <1>1 DEF IssuedRead, ReadRecord
<1> HIDE DEF d
<1>3. Inbox(d) = Inbox(r) /\ Got(d, src) = Got(r, src)
  BY <1>1, <1>2 DEF Inbox, Got
<1>4. ReadInv(d, src) /\ (AllRead(r, src) => AllRead(d, src))
  BY <1>2, <1>3 DEF ReadInv, AllRead
<1> QED BY <1>2, <1>3, <1>4 DEF ReadKept, d

\* fileio_on_select and socketio_on_select.
LEMMA ReadSelected ==
    ASSUME NEW r, ReadInv(r, source)
    PROVE  ReadKept(r, source, on_select(r), source)
<1>1. CASE r.pending \/ Available(r)
  BY <1>1 DEF on_select, ReadKept
<1>2. CASE ~(r.pending \/ Available(r)) /\ ~AtEnd
  BY <1>2, ReadIssued DEF on_select
<1>3. CASE ~(r.pending \/ Available(r)) /\ AtEnd
  <2> DEFINE d == [r EXCEPT !.error = source.end]
  <2>1. /\ r \in ReadRecord /\ r.op = "idle" /\ r.ready = <<>> /\ r.got = <<>> /\ r.err = "none" /\ ~r.pending
        /\ source \in SourceRecord /\ source.avail = <<>> /\ source.end # "none"
    BY <1>3 DEF ReadInv, Available, AtEnd
  <2>2. /\ d \in ReadRecord /\ d.op = "idle" /\ ~d.pending /\ d.ready = <<>> /\ d.got = <<>> /\ d.err = "none"
    BY <2>1 DEF ReadRecord, SourceRecord
  <2>3. on_select(r) = d
    BY <1>3 DEF on_select
  <2> HIDE DEF d
  <2>4. AllRead(d, source) /\ Inbox(d) = Inbox(r) /\ Got(d, source) = Got(r, source)
    BY <2>1, <2>2 DEF AllRead, Inbox, Got
  <2>5. ReadInv(d, source)
    BY <2>2, <2>4 DEF ReadInv
  <2> QED BY <2>3, <2>4, <2>5 DEF ReadKept
<1> QED BY <1>1, <1>2, <1>3

----------------------------------------------------------------------------
(* The program's buffer. *)

\* d is a with k bytes of the buffer handed to the system, whether or not
\* they are still in it.
Moves(a, d, k) ==
    /\ AppInv(d) /\ (a.ended => d.ended) /\ (a.buf = <<>> => d.buf = <<>>)
    /\ Taken(d) <= k /\ Len(d.buf) - Taken(d) = Len(a.buf) - k
    /\ \A x \in Int : Run(a.buf, x - k) => Run(d.buf, x - Taken(d))

\* The types of what the program has.
LEMMA AppTypes ==
    ASSUME NEW a, AppInv(a)
    PROVE  /\ a \in AppRecord /\ a.buf \in Seq(Nat) /\ Len(a.buf) \in Nat /\ a.copied \in Nat
           /\ ChunkLen(a) \in Nat /\ a.copied + ChunkLen(a) <= Len(a.buf)
           /\ Taken(a) \in Nat /\ Taken(a) <= Len(a.buf)
<1>1. a \in AppRecord /\ a.buf \in Seq(Nat) /\ a.copied \in Nat /\ a.copied <= Len(a.buf)
  BY DEF AppInv, AppRecord
<1>2. Len(a.buf) \in Nat
  BY <1>1, Lengths
<1>3. ChunkLen(a) \in Nat /\ a.copied + ChunkLen(a) <= Len(a.buf)
  BY <1>1, <1>2, SizeAssumption DEF ChunkLen
<1> QED BY <1>1, <1>2, <1>3 DEF Taken

\* The program goes on elsewhere.
LEMMA MovesPlace ==
    ASSUME NEW a, AppInv(a), a.pc # "wwait", NEW d \in AppRecord, d.pc # "wwait",
           d.buf = a.buf, d.copied = a.copied, a.ended => d.ended,
           d.pc = "close" => d.ended /\ d.buf = <<>>
    PROVE  Moves(a, d, Taken(a))
<1>1. AppInv(d) /\ Taken(d) = Taken(a) /\ Taken(a) \in Nat
  BY AppTypes DEF AppInv, Taken
<1> QED BY <1>1 DEF Moves

\* What the program does next after a call.
LEMMA Next_ ==
    ASSUME app \in AppRecord, NEW x
    PROVE  Left(x) \in SUBSET {"r", "w"} /\ After(x) \in {"loop", "io"}
<1>1. app.ready \in SUBSET {"r", "w"}
  BY DEF AppRecord
<1> QED BY <1>1 DEF Left, After

\* fileio_write_wrapper returns that n bytes were taken, or the failure.
LEMMA WrittenFacts ==
    ASSUME AppInv(app), NEW n \in Nat, n <= Len(app.buf), NEW failure
    PROVE  LET d == Written(app, n, failure)
           IN  /\ AppInv(d) /\ d.pc # "wwait"
               /\ failure # "broken" => Moves(app, d, n) /\ d.ended = app.ended
<1> DEFINE d == Written(app, n, failure)
           t == SubSeq(app.buf, n + 1, Len(app.buf))
<1>1. app \in AppRecord /\ app.buf \in Seq(Nat) /\ Len(app.buf) \in Nat /\ Len(app.buf) <= AppBuffer
  BY AppTypes DEF AppInv
<1>2. Left("w") \in SUBSET {"r", "w"} /\ After("w") \in {"loop", "io"} /\ After("w") \in Places
  BY <1>1, Next_ DEF Places
<1>3. AppBuffer \in Nat /\ 0 <= AppBuffer /\ 0 \in Nat
  BY SizeAssumption
<1>4. CASE n = 0 /\ failure = "broken"
  <2>1. /\ d \in AppRecord /\ d.buf = <<>> /\ d.copied = 0 /\ d.pc = After("w")
    BY <1>1, <1>2, <1>4, Lengths DEF Written, AppRecord
  <2> HIDE DEF d
  <2>2. AppInv(d) /\ d.pc # "wwait"
    BY <1>2, <1>3, <2>1, Lengths DEF AppInv
  <2> QED BY <1>4, <2>2 DEF d
<1>5. CASE ~(n = 0 /\ failure = "broken")
  <2>1. t \in Seq(Nat) /\ Len(t) = Len(app.buf) - n
    <3>1. \A i \in n + 1..Len(app.buf) : app.buf[i] \in Nat
      BY <1>1, LenProperties
    <3>2. t \in Seq(Nat) /\ Len(t) = IF n + 1 <= Len(app.buf) THEN Len(app.buf) - (n + 1) + 1 ELSE 0
      BY <1>1, <3>1, SubSeqProperties
    <3> QED BY <1>1, <3>2
  <2> HIDE DEF t
  <2>2. d = [app EXCEPT !.buf = t, !.copied = 0, !.ready = Left("w"), !.pc = After("w")]
    BY <1>5 DEF Written, t
  <2>3. /\ d \in AppRecord /\ d.buf = t /\ d.copied = 0 /\ d.pc = After("w") /\ d.ended = app.ended
    BY <1>1, <1>2, <1>3, <2>1, <2>2 DEF AppRecord
  <2> HIDE DEF d
  <2>4. AppInv(d) /\ d.pc # "wwait"
    <3>1. 0 <= Len(t) /\ Len(t) <= AppBuffer
      BY <1>1, <1>3, <2>1
    <3> QED BY <1>2, <2>3, <3>1 DEF AppInv
  <2>5. Taken(d) = 0
    BY <2>3, <2>4 DEF Taken
  <2>6. app.buf = <<>> => d.buf = <<>>
    <3>1. app.buf = <<>> => Len(t) = 0
      BY <1>1, <2>1, Lengths
    <3> QED BY <2>1, <2>3, <3>1, Lengths
  <2>7. ASSUME NEW x \in Int, Run(app.buf, x - n) PROVE Run(d.buf, x - Taken(d))
    <3>1. x - n \in Int /\ x - n + n = x /\ x - Taken(d) = x /\ Len(app.buf) <= Len(app.buf)
      BY <1>1, <2>5
    <3>2. Run(t, x - n + n)
      BY <1>1, <2>7, <3>1, RunPart DEF t
    <3> QED BY <2>3, <3>1, <3>2
  <2>8. Moves(app, d, n)
    <3>1. Taken(d) <= n /\ Len(d.buf) - Taken(d) = Len(app.buf) - n
      BY <1>1, <2>1, <2>3, <2>5
    <3> QED BY <2>3, <2>4, <2>6, <2>7, <3>1 DEF Moves
  <2> QED BY <2>3, <2>4, <2>8 DEF d
<1> QED BY <1>4, <1>5

\* A chunk was taken; the call goes on or returns.
LEMMA ChunkFacts ==
    ASSUME AppInv(app), NEW n, n = ChunkLen(app)
    PROVE  /\ Moves(app, ChunkTaken(n), app.copied + n) /\ ChunkTaken(n).pc # "wwait"
           /\ ChunkTaken(n).ended = app.ended
<1>1. app \in AppRecord /\ app.copied \in Nat /\ n \in Nat /\ Len(app.buf) \in Nat /\ app.copied + n <= Len(app.buf)
  BY AppTypes
<1>2. CASE app.copied + n = Len(app.buf)
  <2>1. ChunkTaken(n) = Written(app, app.copied + n, "none") /\ app.copied + n \in Nat
    BY <1>1, <1>2 DEF ChunkTaken
  <2> QED BY <1>1, <2>1, WrittenFacts
<1>3. CASE app.copied + n # Len(app.buf)
  <2> DEFINE d == [app EXCEPT !.copied = @ + n, !.pc = "chunk"]
  <2>1. d \in AppRecord /\ d.copied = app.copied + n /\ d.pc = "chunk" /\ d.buf = app.buf /\ d.ended = app.ended
    <3>1. app.copied + n \in Nat /\ "chunk" \in Places
      BY <1>1 DEF Places
    <3>2. d = [app EXCEPT !.copied = app.copied + n, !.pc = "chunk"]
      BY <1>1 DEF AppRecord
    <3> HIDE DEF d
    <3> QED BY <1>1, <3>1, <3>2 DEF AppRecord
  <2>2. ChunkTaken(n) = d
    BY <1>3 DEF ChunkTaken
  <2> HIDE DEF d
  <2>3. AppInv(d) /\ Taken(d) = app.copied + n
    BY <1>1, <2>1 DEF AppInv, Taken
  <2>4. Moves(app, d, app.copied + n)
    BY <1>1, <2>1, <2>3 DEF Moves
  <2> QED BY <2>1, <2>2, <2>4
<1> QED BY <1>2, <1>3

\* The next chunk of the buffer.
LEMMA ChunkRun ==
    ASSUME AppInv(app)
    PROVE  /\ Chunk \in Seq(Nat) /\ Len(Chunk) = ChunkLen(app) /\ (app.buf = <<>> => Chunk = <<>>)
           /\ \A x \in Int : Run(app.buf, x - app.copied) => Run(Chunk, x)
<1> DEFINE m == IF app.copied + WriteBuffer < Len(app.buf) THEN app.copied + WriteBuffer ELSE Len(app.buf)
<1>1. app.buf \in Seq(Nat) /\ Len(app.buf) \in Nat /\ app.copied \in Nat /\ app.copied <= Len(app.buf)
  BY AppTypes DEF AppInv
<1>2. m \in Nat /\ app.copied <= m /\ m <= Len(app.buf) /\ m - app.copied = ChunkLen(app)
  BY <1>1, SizeAssumption DEF ChunkLen
<1>3. Chunk = SubSeq(app.buf, app.copied + 1, m)
  BY DEF Chunk
<1> HIDE DEF m
<1>4. Chunk \in Seq(Nat) /\ Len(Chunk) = m - app.copied
  <2>1. \A i \in app.copied + 1..m : app.buf[i] \in Nat
    BY <1>1, <1>2, LenProperties
  <2>2. Chunk \in Seq(Nat) /\ Len(Chunk) = IF app.copied + 1 <= m THEN m - (app.copied + 1) + 1 ELSE 0
    BY <1>1, <1>2, <1>3, <2>1, SubSeqProperties
  <2> QED BY <1>1, <1>2, <2>2
<1>5. ASSUME NEW x \in Int, Run(app.buf, x - app.copied) PROVE Run(Chunk, x)
  <2>1. x - app.copied \in Int /\ x - app.copied + app.copied = x
    BY <1>1
  <2>2. Run(Chunk, x - app.copied + app.copied)
    BY <1>1, <1>2, <1>3, <1>5, <2>1, RunPart
  <2> QED BY <2>1, <2>2
<1>6. ASSUME app.buf = <<>> PROVE Chunk = <<>>
  BY <1>1, <1>2, <1>4, <1>6, Lengths
<1> QED BY <1>2, <1>4, <1>5, <1>6

----------------------------------------------------------------------------
(* The two sides and the buffer between them. *)

\* The types of what is written.
LEMMA WriteTypes ==
    ASSUME NEW w, NEW s, WriteInv(w, s)
    PROVE  /\ w \in WriteRecord /\ s \in SinkRecord /\ w.buf \in Seq(Nat) /\ Flight(w) \in Seq(Nat)
           /\ s.drained \in Seq(Nat) /\ s.pipe \in Seq(Nat) /\ Len(s.drained) \in Nat /\ Len(s.pipe) \in Nat
           /\ Out(s) \in Nat /\ Len(Flight(w)) \in Nat
<1>1. /\ w \in WriteRecord /\ s \in SinkRecord /\ w.buf \in Seq(Nat)
      /\ s.drained \in Seq(Nat) /\ s.pipe \in Seq(Nat)
  BY DEF WriteInv, WriteRecord, SinkRecord
<1>2. Flight(w) \in Seq(Nat)
  BY <1>1, Lengths DEF Flight
<1>3. Len(s.drained) \in Nat /\ Len(s.pipe) \in Nat /\ Len(Flight(w)) \in Nat
  BY <1>1, <1>2, Lengths
<1>4. Out(s) \in Nat
  BY <1>3, Sums, Zenon DEF Out
<1> QED BY <1>1, <1>2, <1>3, <1>4

\* The read side goes on by itself.
LEMMA CopyRead ==
    ASSUME NEW r, NEW src, NEW w, NEW s, NEW a, Copy(r, src, w, s, a), NEW d, NEW to, ReadKept(r, src, d, to)
    PROVE  Copy(d, to, w, s, a)
BY DEF Copy, ReadKept, Ended

\* The program goes on; it may find that everything was read.
LEMMA CopyMoves ==
    ASSUME NEW r, NEW src, NEW w, NEW s, NEW a, Copy(r, src, w, s, a), NEW d, Moves(a, d, Taken(a)),
           d.ended => a.ended \/ s.gone \/ AllRead(r, src)
    PROVE  Copy(r, src, w, s, d)
<1>1. AppInv(d) /\ Ended(d, r, src, s) /\ Shut(w, s, d)
  BY DEF Copy, Moves, Ended, Shut
<1>2. ASSUME ~s.gone PROVE Down(s, w, d, Got(r, src))
  <2> DEFINE f == Out(s) + Len(Flight(w))
  <2>1. f \in Nat
    BY WriteTypes DEF Copy
  <2>2. /\ Run(Flight(w), Out(s)) /\ Taken(a) <= f /\ Run(a.buf, f - Taken(a))
        /\ f + Len(a.buf) - Taken(a) = Got(r, src)
    BY <1>2 DEF Copy, Down
  <2>3. Taken(a) \in Nat /\ Len(a.buf) \in Nat /\ Taken(d) \in Nat /\ Len(d.buf) \in Nat
    BY <1>1, AppTypes DEF Copy
  <2> HIDE DEF f
  <2>4. Run(d.buf, f - Taken(d)) /\ Taken(d) <= Taken(a) /\ Len(d.buf) - Taken(d) = Len(a.buf) - Taken(a)
    BY <2>1, <2>2 DEF Moves
  <2>5. Taken(d) <= f /\ f + Len(d.buf) - Taken(d) = f + Len(a.buf) - Taken(a)
    BY <2>1, <2>2, <2>3, <2>4
  <2> QED BY <2>2, <2>4, <2>5 DEF Down, f
<1> QED BY <1>1, <1>2 DEF Copy

\* Nobody reads the pipe any more, and nothing more is promised.
LEMMA CopyLost ==
    ASSUME NEW r, NEW src, NEW w, NEW s, NEW a, Copy(r, src, w, s, a), s.gone, NEW d, AppInv(d)
    PROVE  Copy(r, src, w, s, d)
BY DEF Copy, Ended, Shut

\* The completion routine of a write.
LEMMA CopyNoted ==
    ASSUME NEW r, NEW src, NEW w, NEW s, NEW a, Copy(r, src, w, s, a)
    PROVE  Copy(r, src, WriteCompletion(w), s, a)
<1> DEFINE v == WriteCompletion(w)
<1>1. CASE w.op # "done"
  BY <1>1 DEF WriteCompletion
<1>2. CASE w.op = "done"
  <2>1. w \in WriteRecord
    BY DEF Copy, WriteInv
  <2>2. v \in WriteRecord /\ v.op = "idle" /\ ~v.pending /\ v.error = w.err /\ v.err = "none" /\ v.handle = w.handle
    BY <1>2, <2>1, Lengths DEF WriteCompletion, WriteRecord
  <2> HIDE DEF v
  <2>3. Flight(v) = Flight(w)
    BY <1>2, <2>2 DEF Flight
  <2>4. WriteInv(v, s)
    BY <2>2 DEF Copy, WriteInv
  <2>5. Copy(r, src, v, s, a)
    BY <2>2, <2>3, <2>4 DEF Copy, Down, Shut
  <2> QED BY <2>5 DEF v
<1> QED BY <1>1, <1>2
\* A failed write is reported once and forgotten.
LEMMA CopyCleared ==
    ASSUME NEW r, NEW src, NEW w, NEW s, NEW a, Copy(r, src, w, s, a)
    PROVE  Copy(r, src, [w EXCEPT !.error = "none"], s, a)
<1> DEFINE v == [w EXCEPT !.error = "none"]
<1>1. w \in WriteRecord
  BY DEF Copy, WriteInv
<1>2. v \in WriteRecord /\ v.op = w.op /\ v.pending = w.pending /\ v.buf = w.buf /\ v.error = "none" /\ v.err = w.err
      /\ v.handle = w.handle
  BY <1>1 DEF WriteRecord
<1> HIDE DEF v
<1>3. Flight(v) = Flight(w)
  BY <1>2 DEF Flight
<1>4. WriteInv(v, s)
  BY <1>2 DEF Copy, WriteInv
<1>5. Copy(r, src, v, s, a)
  BY <1>2, <1>3, <1>4 DEF Copy, Down, Shut
<1> QED BY <1>5 DEF v

\* A write operation completes: its bytes are in the pipe.
LEMMA CopyFilled ==
    ASSUME NEW r, NEW src, NEW w, NEW a, Copy(r, src, w, sink, a), w.op = "issued"
    PROVE  Copy(r, src, CompletedWrite(w), Filled(w), a)
<1> DEFINE v == CompletedWrite(w)
           to == Filled(w)
<1>1. /\ w \in WriteRecord /\ sink \in SinkRecord /\ w.buf \in Seq(Nat) /\ w.pending
      /\ sink.drained \in Seq(Nat) /\ sink.pipe \in Seq(Nat) /\ Len(sink.drained) \in Nat /\ Len(sink.pipe) \in Nat
      /\ Out(sink) \in Nat /\ Flight(w) = w.buf /\ Len(w.buf) \in Nat
      /\ Run(sink.drained, 0) /\ Run(sink.pipe, Len(sink.drained))
  BY WriteTypes DEF Copy, WriteInv, Flight
<1>2. /\ v \in WriteRecord /\ v.op = "done" /\ v.pending /\ v.error = w.error /\ v.handle = w.handle
      /\ v.err # "none" => sink.gone
  BY <1>1 DEF CompletedWrite, WriteRecord
<1> HIDE DEF v
<1>3. Flight(v) = <<>> /\ Len(<<>>) = 0
  BY <1>2, Lengths DEF Flight
<1>4. CASE sink.gone
  <2>1. to = sink
    BY <1>4 DEF Filled
  <2>2. WriteInv(v, sink)
    BY <1>1, <1>2 DEF Copy, WriteInv
  <2>3. Copy(r, src, v, sink, a)
    BY <1>4, <2>2 DEF Copy, Shut
  <2> QED BY <2>1, <2>3 DEF v
<1>5. CASE ~sink.gone
  <2>1. Run(w.buf, Out(sink)) /\ Down(sink, w, a, Got(r, src))
    BY <1>1, <1>5 DEF Copy, Down
  <2>2. /\ sink.pipe \o w.buf \in Seq(Nat) /\ Len(sink.pipe \o w.buf) = Len(sink.pipe) + Len(w.buf)
        /\ Run(sink.pipe \o w.buf, Len(sink.drained))
    <3>1. Run(w.buf, Len(sink.drained) + Len(sink.pipe))
      BY <2>1, Zenon DEF Out
    <3>2. Len(sink.drained) \in Int
      BY <1>1, Lengths, Zenon
    <3> QED BY <1>1, <3>1, <3>2, RunCat, Zenon
  <2>3. /\ to \in SinkRecord /\ to.pipe = sink.pipe \o w.buf /\ to.drained = sink.drained /\ ~to.gone
    BY <1>1, <1>5, <2>2 DEF Filled, SinkRecord
  <2> HIDE DEF to
  <2>4. Out(to) = Out(sink) + Len(w.buf) /\ Out(to) \in Nat
    <3>1. Out(to) = Len(sink.drained) + (Len(sink.pipe) + Len(w.buf)) /\ Out(sink) = Len(sink.drained) + Len(sink.pipe)
      BY <2>2, <2>3 DEF Out
    <3> DEFINE x == Len(sink.drained)
               y == Len(sink.pipe)
               z == Len(w.buf)
    <3>2. x \in Nat /\ y \in Nat /\ z \in Nat /\ Out(to) = x + (y + z) /\ Out(sink) = x + y
      BY <1>1, <3>1
    <3> HIDE DEF x, y, z
    <3>3. Out(to) = Out(sink) + z /\ Out(to) \in Nat
      BY ONLY <3>2
    <3> QED BY <3>3 DEF z
  <2>5. WriteInv(v, to)
    BY <1>1, <1>2, <1>5, <2>2, <2>3 DEF Copy, WriteInv
  <2>6. Down(to, v, a, Got(r, src))
    <3>1. Out(to) + Len(Flight(v)) = Out(sink) + Len(Flight(w))
      BY <1>1, <1>3, <2>4
    <3> QED BY <1>3, <2>1, <3>1, RunEmpty DEF Down
  <2>7. Ended(a, r, src, to) /\ Shut(v, to, a)
    BY <1>2, <1>3, <1>5, <2>3 DEF Copy, Ended, Shut
  <2>8. Copy(r, src, v, to, a)
    BY <2>5, <2>6, <2>7 DEF Copy
  <2> QED BY <2>8 DEF v, to
<1> QED BY <1>4, <1>5

\* A write operation is started on the next chunk, and the program goes on.
LEMMA CopyIssued ==
    ASSUME NEW r, NEW src, NEW s, Copy(r, src, wr, s, app), ~wr.pending, app.pc # "wwait",
           NEW d, Moves(app, d, app.copied + ChunkLen(app)), d.ended = app.ended
    PROVE  Copy(r, src, IssuedWrite(wr), s, d) /\ IssuedWrite(wr).op = "issued" /\ IssuedWrite(wr).pending
<1> DEFINE v == IssuedWrite(wr)
<1>1. AppInv(app) /\ wr \in WriteRecord /\ wr.op = "idle" /\ WriteInv(wr, s)
  BY DEF Copy, WriteInv
<1>2. /\ Chunk \in Seq(Nat) /\ Len(Chunk) = ChunkLen(app) /\ (app.buf = <<>> => Chunk = <<>>)
      /\ \A x \in Int : Run(app.buf, x - app.copied) => Run(Chunk, x)
  BY <1>1, ChunkRun
<1>3. /\ v \in WriteRecord /\ v.op = "issued" /\ v.pending /\ v.buf = Chunk /\ v.error = wr.error /\ v.err = wr.err
      /\ v.handle = wr.handle
  BY <1>1, <1>2 DEF IssuedWrite, WriteRecord
<1> HIDE DEF v
<1>4. Flight(v) = Chunk /\ Flight(wr) = <<>> /\ Len(<<>>) = 0
  BY <1>1, <1>3, Lengths DEF Flight
<1>5. WriteInv(v, s)
  BY <1>1, <1>3 DEF WriteInv
<1>6. AppInv(d) /\ Ended(d, r, src, s)
  BY DEF Copy, Moves, Ended
<1>7. Shut(v, s, d)
  <2>1. app.buf = <<>> => d.buf = <<>>
    BY DEF Moves
  <2> QED BY <1>2, <1>3, <1>4, <2>1 DEF Copy, Shut
<1>8. ASSUME ~s.gone PROVE Down(s, v, d, Got(r, src))
  <2> DEFINE o == Out(s)
             k == app.copied + ChunkLen(app)
  <2>1. o \in Nat /\ app.copied \in Nat /\ ChunkLen(app) \in Nat /\ Len(app.buf) \in Nat /\ Taken(d) \in Nat
        /\ Len(d.buf) \in Nat
    BY <1>1, <1>6, WriteTypes, AppTypes
  <2>2. Taken(app) = app.copied
    BY <2>1 DEF Taken
  <2>3. app.copied <= o /\ Run(app.buf, o - app.copied) /\ o + Len(app.buf) - app.copied = Got(r, src)
    <3>1. o + Len(Flight(wr)) = o
      BY <1>4, <2>1
    <3> QED BY <1>8, <2>2, <3>1 DEF Copy, Down
  <2>4. Run(Chunk, o)
    BY <1>2, <2>1, <2>3
  <2>5. Taken(d) <= k /\ Len(d.buf) - Taken(d) = Len(app.buf) - k
        /\ \A x \in Int : Run(app.buf, x - k) => Run(d.buf, x - Taken(d))
    BY DEF Moves
  <2>6. o + ChunkLen(app) \in Int /\ (o + ChunkLen(app)) - k = o - app.copied
    BY <2>1
  <2>7. Run(d.buf, (o + ChunkLen(app)) - Taken(d))
    <3> HIDE DEF o, k
    <3>1. Run(app.buf, (o + ChunkLen(app)) - k)
      BY <2>3, <2>6
    <3> QED BY <2>5, <2>6, <3>1
  <2>8. Taken(d) <= o + ChunkLen(app) /\ (o + ChunkLen(app)) + (Len(d.buf) - Taken(d)) = Got(r, src)
    <3>1. Taken(d) <= app.copied + ChunkLen(app) /\ Len(d.buf) - Taken(d) = Len(app.buf) - (app.copied + ChunkLen(app))
      BY <2>5
    <3>2. app.copied <= o /\ o + Len(app.buf) - app.copied = Got(r, src)
      BY <2>3
    <3> DEFINE t == Taken(d)
               l == Len(d.buf)
               c == app.copied
               n == Len(app.buf)
               h == ChunkLen(app)
               g == Got(r, src)
    <3>3. /\ o \in Nat /\ c \in Nat /\ h \in Nat /\ n \in Nat /\ t \in Nat /\ l \in Nat
          /\ t <= c + h /\ l - t = n - (c + h) /\ c <= o /\ o + (n - c) = g
      BY <2>1, <3>1, <3>2
    <3> HIDE DEF o, t, l, c, n, h, g
    <3>4. t <= o + h /\ (o + h) + (l - t) = g
      BY ONLY <3>3
    <3> QED BY <3>4 DEF t, l, h, g
  <2>9. Len(Flight(v)) = ChunkLen(app)
    BY <1>2, <1>4
  <2> QED BY <1>4, <2>4, <2>7, <2>8, <2>9, Zenon DEF Down
<1>9. Copy(r, src, v, s, d)
  BY <1>5, <1>6, <1>7, <1>8 DEF Copy
<1> QED BY <1>3, <1>9 DEF v

----------------------------------------------------------------------------
(* The steps. *)

\* What an alertable wait does to the two operations.
LEMMA WaitCopies ==
    ASSUME NEW poll, NEW r, wait_for_any_event(poll, r), Copy(rd, source, wr, sink, app)
    PROVE  Copy(rd', source, wr', sink, app)
<1>1. (rd' = rd /\ wr' = wr) \/ (rd' = ReadCompletion(rd) /\ wr' = WriteCompletion(wr))
  BY DEF wait_for_any_event, NotesChild, RunsAPCs, TimesOut
<1>2. Copy(ReadCompletion(rd), source, wr, sink, app)
  <2>1. ReadInv(rd, source)
    BY DEF Copy
  <2> QED BY <2>1, ReadNoted, CopyRead
<1>3. Copy(ReadCompletion(rd), source, WriteCompletion(wr), sink, app)
  BY <1>2, CopyNoted
<1> QED BY <1>1, <1>3

\* The end of a read.
LEMMA Takes ==
    ASSUME Copy(rd, source, wr, sink, app), Available(rd), app.pc # "wwait", Take
    PROVE  Copy(rd', source, wr, sink, app') /\ app'.pc # "wwait"
<1>1. /\ ReadInv(rd, source) /\ AppInv(app) /\ rd \in ReadRecord /\ app \in AppRecord /\ source \in SourceRecord
  BY DEF Copy, ReadInv, AppInv
<1>2. Left("r") \in SUBSET {"r", "w"} /\ After("r") \in {"loop", "io"} /\ After("r") \in Places
  BY <1>1, Next_ DEF Places
<1>3. CASE rd.error # "none"
  <2> DEFINE d == rd'
             b == app'
  <2>1. /\ d = [rd EXCEPT !.error = IF setup.socket /\ @ = "eof" THEN @ ELSE "none"]
        /\ b = [app EXCEPT !.ended = TRUE, !.ready = Left("r"), !.pc = After("r")]
    BY <1>3 DEF Take
  <2>2. /\ d \in ReadRecord /\ d.error \in {rd.error, "none"} /\ d.op = rd.op /\ d.pending = rd.pending /\ d.ready = rd.ready
        /\ d.got = rd.got /\ d.err = rd.err
    BY <1>1, <2>1 DEF ReadRecord
  <2>3. b \in AppRecord /\ b.ended /\ b.pc = After("r") /\ b.buf = app.buf /\ b.copied = app.copied
    BY <1>1, <1>2, <2>1 DEF AppRecord
  <2> HIDE DEF d, b
  <2>4. AllRead(rd, source)
    BY <1>1, <1>3 DEF ReadInv
  <2>5. Inbox(d) = Inbox(rd) /\ Got(d, source) = Got(rd, source) /\ AllRead(d, source)
    BY <2>2, <2>4 DEF Inbox, Got, AllRead
  <2>6. ReadInv(d, source)
    BY <1>1, <2>2, <2>5 DEF ReadInv
  <2>7. Copy(d, source, wr, sink, app)
    BY <2>5, <2>6, CopyRead DEF ReadKept
  <2>8. Moves(app, b, Taken(app))
    BY <1>1, <1>2, <2>3, MovesPlace
  <2> QED BY <1>2, <2>3, <2>5, <2>7, <2>8, CopyMoves DEF d, b
<1>4. CASE rd.error = "none"
  <2> DEFINE k == AppBuffer - Len(app.buf)
             l == Len(rd.ready)
             n == IF l < k THEN l ELSE k
             g == SubSeq(rd.ready, 1, n)
             t == SubSeq(rd.ready, n + 1, l)
             d == [rd EXCEPT !.ready = t]
             c == app.buf \o g
             b == [app EXCEPT !.buf = c, !.ready = Left("r"), !.pc = After("r")]
             x == Got(rd, source)
  <2>1. rd' = d /\ app' = b
    <3>1. /\ rd' = [rd EXCEPT !.ready = SubSeq(@, n + 1, Len(@))]
          /\ app' = [app EXCEPT !.buf = @ \o SubSeq(rd.ready, 1, n), !.ready = Left("r"), !.pc = After("r")]
      BY <1>4 DEF Take
    <3>2. [rd EXCEPT !.ready = SubSeq(@, n + 1, Len(@))] = d
      BY <1>1 DEF ReadRecord
    <3>3. [app EXCEPT !.buf = @ \o SubSeq(rd.ready, 1, n), !.ready = Left("r"), !.pc = After("r")] = b
      BY <1>1 DEF AppRecord
    <3> QED BY <3>1, <3>2, <3>3
  <2>2. /\ rd.ready # <<>> /\ rd.op = "idle" /\ rd.got = <<>> /\ rd.err = "none" /\ ~rd.pending /\ Inbox(rd) = rd.ready
        /\ Run(rd.ready, x)
    BY <1>1, <1>4 DEF Available, ReadInv, Inbox
  <2>3. /\ rd.ready \in Seq(Nat) /\ l \in Nat /\ x \in Int /\ Len(app.buf) \in Nat /\ app.buf \in Seq(Nat)
        /\ Len(source.avail) \in Nat /\ source.sent \in Nat /\ app.copied \in Nat
    BY <1>1, ReadTypes, AppTypes
  <2>4. n \in Nat /\ n <= l /\ Len(app.buf) + n <= AppBuffer
    <3>1. Len(app.buf) <= AppBuffer /\ AppBuffer \in Nat
      BY <1>1, SizeAssumption DEF AppInv
    <3> DEFINE h == Len(app.buf)
    <3>2. l \in Nat /\ h \in Nat /\ h <= AppBuffer /\ AppBuffer \in Nat
      BY <2>3, <3>1
    <3> HIDE DEF l, h
    <3>3. ASSUME NEW i, i = IF l < AppBuffer - h THEN l ELSE AppBuffer - h
          PROVE  i \in Nat /\ i <= l /\ h + i <= AppBuffer
      BY ONLY <3>2, <3>3
    <3> QED BY <3>3, Zenon DEF h
  <2> HIDE DEF n, k
  <2>5. g \in Seq(Nat) /\ Len(g) = n /\ Run(g, x)
    BY <2>2, <2>3, <2>4, RunPrefix
  <2>6. t \in Seq(Nat) /\ Len(t) = l - n /\ Run(t, x + n)
    <3>1. l <= l
      BY <2>3
    <3> QED BY <2>2, <2>3, <2>4, <3>1, RunPart
  <2> HIDE DEF g, t
  <2>7. c \in Seq(Nat) /\ Len(c) = Len(app.buf) + n
    BY <2>3, <2>5, ConcatProperties
  <2>8. ASSUME NEW y \in Int, Run(app.buf, y), y + Len(app.buf) = x PROVE Run(c, y)
    BY <2>3, <2>5, <2>8, RunCat
  <2> HIDE DEF c
  <2>9. /\ d \in ReadRecord /\ d.ready = t /\ d.op = "idle" /\ d.got = <<>> /\ d.err = "none" /\ ~d.pending
        /\ d.error = "none"
    BY <1>1, <1>4, <2>2, <2>6 DEF ReadRecord
  <2>10. b \in AppRecord /\ b.buf = c /\ b.pc = After("r") /\ b.copied = app.copied /\ b.ended = app.ended
    BY <1>1, <1>2, <2>7 DEF AppRecord
  <2> HIDE DEF d, b
  <2>11. Inbox(d) = t /\ Got(d, source) = x + n
    <3>1. Inbox(d) = t
      BY <2>9 DEF Inbox
    <3>2. Got(d, source) = source.sent - Len(source.avail) - (l - n) /\ x = source.sent - Len(source.avail) - l
      BY <2>2, <2>6, <3>1 DEF Got
    <3> HIDE DEF x, l
    <3> QED BY <2>3, <2>4, <3>1, <3>2
  <2>12. ReadInv(d, source)
    BY <1>1, <2>6, <2>9, <2>11 DEF ReadInv
  <2>13. ~AllRead(rd, source)
    BY <2>2 DEF AllRead
  <2>14. AppInv(b) /\ b.pc # "wwait" /\ Taken(b) = Taken(app) /\ Taken(app) = app.copied
    <3>1. app.copied <= Len(app.buf)
      BY <1>1 DEF AppInv
    <3>2. app.copied <= Len(c) /\ Len(c) <= AppBuffer
      BY <2>3, <2>4, <2>7, <3>1
    <3>3. AppInv(b) /\ b.pc # "wwait"
      BY <1>2, <2>10, <3>2 DEF AppInv
    <3> QED BY <2>3, <2>10, <3>3 DEF Taken
  <2>15. ASSUME ~sink.gone PROVE Down(sink, wr, b, Got(d, source))
    <3> DEFINE f == Out(sink) + Len(Flight(wr))
    <3>1. f \in Nat /\ WriteInv(wr, sink)
      BY WriteTypes DEF Copy
    <3>2. /\ Run(Flight(wr), Out(sink)) /\ Taken(app) <= f /\ Run(app.buf, f - Taken(app))
          /\ f + (Len(app.buf) - Taken(app)) = x
      BY <2>15 DEF Copy, Down
    <3> DEFINE h == Len(app.buf)
               p == Taken(app)
    <3>3. /\ f \in Nat /\ h \in Nat /\ p \in Nat /\ x \in Int /\ n \in Nat /\ f + (h - p) = x
          /\ Taken(b) = p /\ Len(b.buf) = h + n
      BY <2>3, <2>4, <2>7, <2>10, <2>14, <3>1, <3>2
    <3> HIDE DEF f, x, h, p
    <3>4. f - p \in Int /\ (f - p) + h = x /\ f + ((h + n) - p) = x + n
      BY ONLY <3>3
    <3>5. f - Taken(app) \in Int /\ (f - Taken(app)) + Len(app.buf) = x
      BY <3>4 DEF h, p
    <3>6. Run(c, f - Taken(app))
      BY <2>8, <3>2, <3>5
    <3>7. f + (Len(b.buf) - Taken(b)) = x + n
      BY <3>3, <3>4
    <3> QED BY <2>10, <2>11, <2>14, <3>2, <3>6, <3>7 DEF Down, f
  <2>16. Ended(b, d, source, sink) /\ Shut(wr, sink, b)
    BY <2>10, <2>13 DEF Copy, Ended, Shut
  <2>17. Copy(d, source, wr, sink, b)
    BY <2>12, <2>14, <2>15, <2>16 DEF Copy
  <2> QED BY <2>1, <2>14, <2>17
<1> QED BY <1>3, <1>4

\* The source, the sink, and operations that complete.
LEMMA SystemCopies ==
    ASSUME Copy(rd, source, wr, sink, app), System
    PROVE  Copy(rd', source', wr', sink', app') /\ app' = app
<1>1. ReadInv(rd, source) /\ WriteInv(wr, sink) /\ source \in SourceRecord /\ sink \in SinkRecord
  BY DEF Copy, ReadInv, WriteInv
<1>2. CASE Send
  <2> DEFINE t == Append(source.avail, source.sent + 1)
             to == [source EXCEPT !.sent = source.sent + 1, !.avail = t]
             n == Len(source.avail)
             m == source.sent
  <2>1. source.end = "none" /\ UNCHANGED <<rd, wr, app, sink>> /\ source' = to
    <3>1. source' = [source EXCEPT !.sent = @ + 1, !.avail = Append(@, source.sent + 1)]
      BY <1>2 DEF Send
    <3>2. [source EXCEPT !.sent = @ + 1, !.avail = Append(@, source.sent + 1)] = to
      BY <1>1 DEF SourceRecord
    <3> QED BY <1>2, <3>1, <3>2 DEF Send
  <2>2. source.avail \in Seq(Nat) /\ n \in Nat /\ m \in Nat /\ Run(source.avail, m - n)
    BY <1>1, ReadTypes DEF ReadInv
  <2>3. m + 1 \in Nat /\ m - n \in Int /\ m + 1 = (m - n) + n + 1
    <3> HIDE DEF m, n
    <3> QED BY ONLY <2>2
  <2>4. t \in Seq(Nat) /\ Len(t) = n + 1 /\ Run(t, m - n)
    BY <2>2, <2>3, RunNext
  <2> HIDE DEF t
  <2>5. to \in SourceRecord /\ to.sent = m + 1 /\ to.avail = t /\ to.end = "none"
    BY <1>1, <2>1, <2>3, <2>4 DEF SourceRecord
  <2> HIDE DEF to
  <2>6. to.sent - Len(to.avail) = m - n
    <3>1. to.sent - Len(to.avail) = (m + 1) - (n + 1)
      BY <2>4, <2>5
    <3> HIDE DEF m, n
    <3> QED BY <2>2, <3>1
  <2>7. Got(rd, to) = Got(rd, source) /\ ~AllRead(rd, source)
    BY <2>1, <2>6 DEF Got, AllRead
  <2>8. Run(to.avail, to.sent - Len(to.avail))
    BY <2>4, <2>5, <2>6
  <2>9. ReadInv(rd, to)
    BY <1>1, <2>5, <2>7, <2>8 DEF ReadInv
  <2>10. ReadKept(rd, source, rd, to)
    BY <2>7, <2>9 DEF ReadKept
  <2> QED BY <2>1, <2>10, CopyRead
<1>3. CASE SourceEnds
  <2>1. PICK how \in {"eof", "reset"} : source' = [source EXCEPT !.end = how]
    BY <1>3 DEF SourceEnds
  <2> DEFINE to == [source EXCEPT !.end = how]
  <2>2. source.end = "none" /\ UNCHANGED <<rd, wr, app, sink>> /\ source' = to
    BY <1>3, <2>1 DEF SourceEnds
  <2>3. to \in SourceRecord /\ to.sent = source.sent /\ to.avail = source.avail
    BY <1>1 DEF SourceRecord
  <2> HIDE DEF to
  <2>4. Got(rd, to) = Got(rd, source) /\ ~AllRead(rd, source)
    BY <2>2, <2>3 DEF Got, AllRead
  <2>5. ReadInv(rd, to)
    BY <1>1, <2>3, <2>4 DEF ReadInv
  <2>6. ReadKept(rd, source, rd, to)
    BY <2>4, <2>5 DEF ReadKept
  <2> QED BY <2>2, <2>6, CopyRead
<1>4. CASE ReadCompletes
  <2>1. /\ rd.op = "issued" /\ Completable /\ rd' = CompletedRead(rd) /\ UNCHANGED <<wr, app, sink>>
        /\ source' = [source EXCEPT !.avail = SubSeq(@, Len(Given) + 1, Len(@))]
    BY <1>4 DEF ReadCompletes
  <2>2. ReadKept(rd, source, rd', source')
    BY <1>1, <2>1, ReadDone
  <2> QED BY <2>1, <2>2, CopyRead
<1>5. CASE WriteCompletes
  <2>1. wr.op = "issued" /\ wr' = CompletedWrite(wr) /\ sink' = Filled(wr) /\ UNCHANGED <<rd, app, source>>
    BY <1>5 DEF WriteCompletes
  <2> QED BY <2>1, CopyFilled
<1>6. CASE Drain
  <2> DEFINE t == Tail(sink.pipe)
             e == Append(sink.drained, Head(sink.pipe))
             to == [sink EXCEPT !.pipe = t, !.drained = e]
             x == Len(sink.drained)
             y == Len(sink.pipe)
  <2>1. ~sink.gone /\ sink.pipe # <<>> /\ UNCHANGED <<rd, wr, app, source>> /\ sink' = to
    <3>1. sink' = [sink EXCEPT !.pipe = Tail(@), !.drained = Append(@, Head(sink.pipe))]
      BY <1>6 DEF Drain
    <3>2. [sink EXCEPT !.pipe = Tail(@), !.drained = Append(@, Head(sink.pipe))] = to
      BY <1>1 DEF SinkRecord
    <3> QED BY <1>6, <3>1, <3>2 DEF Drain
  <2>2. /\ sink.pipe \in Seq(Nat) /\ sink.drained \in Seq(Nat) /\ x \in Nat /\ y \in Nat /\ x \in Int
        /\ Run(sink.drained, 0) /\ Run(sink.pipe, x) /\ y # 0
    BY <1>1, <2>1, WriteTypes, Lengths DEF WriteInv
  <2>3. /\ t \in Seq(Nat) /\ Len(t) = y - 1 /\ Run(t, x + 1) /\ Head(sink.pipe) = x + 1 /\ Head(sink.pipe) \in Nat
    BY <2>1, <2>2, RunTail
  <2>4. x + 1 = 0 + x + 1
    <3> HIDE DEF x
    <3> QED BY <2>2
  <2>5. e \in Seq(Nat) /\ Len(e) = x + 1 /\ Run(e, 0)
    BY <2>2, <2>3, <2>4, RunNext
  <2> HIDE DEF t, e
  <2>6. to \in SinkRecord /\ to.pipe = t /\ to.drained = e /\ ~to.gone
    BY <1>1, <2>1, <2>3, <2>5 DEF SinkRecord
  <2> HIDE DEF to
  <2>7. Out(to) = Out(sink)
    <3>1. Out(to) = (x + 1) + (y - 1) /\ Out(sink) = x + y
      BY <2>3, <2>5, <2>6 DEF Out
    <3> HIDE DEF x, y
    <3> QED BY <2>2, <3>1
  <2>8. WriteInv(wr, to)
    BY <1>1, <2>1, <2>3, <2>5, <2>6 DEF WriteInv
  <2>9. Copy(rd, source, wr, to, app)
    BY <2>1, <2>6, <2>7, <2>8 DEF Copy, Down, Ended, Shut
  <2> QED BY <2>1, <2>9
<1>7. CASE SinkGone
  <2> DEFINE to == [sink EXCEPT !.gone = TRUE]
  <2>1. sink' = to /\ UNCHANGED <<rd, wr, app, source>>
    BY <1>7 DEF SinkGone
  <2>2. to \in SinkRecord /\ to.pipe = sink.pipe /\ to.drained = sink.drained /\ to.gone
    BY <1>1 DEF SinkRecord
  <2> HIDE DEF to
  <2>3. WriteInv(wr, to)
    BY <1>1, <2>2 DEF WriteInv
  <2>4. Copy(rd, source, wr, to, app)
    BY <2>2, <2>3 DEF Copy, Ended, Shut
  <2> QED BY <2>1, <2>4
<1>8. CASE ChildExit \/ Signal
  BY <1>8 DEF ChildExit, Signal
<1> QED BY <1>2, <1>3, <1>4, <1>5, <1>6, <1>7, <1>8 DEF System

\* The calls that read and those that only change the place of the program.
LEMMA ReadCopies ==
    ASSUME Copy(rd, source, wr, sink, app),
           Read \/ ReadPending \/ ReadFails \/ ReadStarts \/ ReadWaits \/ ReadWaited \/ Turn \/ Select
    PROVE  Copy(rd', source', wr', sink', app') /\ app'.pc # "wwait"
<1>1. ReadInv(rd, source) /\ AppInv(app) /\ app \in AppRecord
  BY DEF Copy, AppInv
<1>2. Left("r") \in SUBSET {"r", "w"} /\ After("r") \in {"loop", "io"} /\ After("r") \in Places
  BY <1>1, Next_ DEF Places
<1>3. AtRead => app.pc # "wwait"
  BY DEF AtRead
<1>4. ASSUME NEW pc \in Places \ {"wwait", "close"}, app.pc # "wwait",
             NEW r, NEW src, NEW w, NEW s, Copy(r, src, w, s, app)
      PROVE  Copy(r, src, w, s, [app EXCEPT !.pc = pc]) /\ [app EXCEPT !.pc = pc].pc # "wwait"
  <2> DEFINE d == [app EXCEPT !.pc = pc]
  <2>1. d \in AppRecord /\ d.pc = pc /\ d.buf = app.buf /\ d.copied = app.copied /\ d.ended = app.ended
    BY <1>1 DEF AppRecord
  <2> HIDE DEF d
  <2>2. Moves(app, d, Taken(app))
    BY <1>1, <1>4, <2>1, MovesPlace
  <2>3. Copy(r, src, w, s, d)
    BY <1>4, <2>1, <2>2, CopyMoves
  <2> QED BY <2>1, <2>3 DEF d
<1>5. {"late", "rwait", "poll", "loop", "select", "io"} \subseteq Places \ {"wwait", "close"}
  BY DEF Places
<1>6. CASE Read
  BY <1>3, <1>6, Takes DEF Read
<1>7. CASE ReadPending
  <2>1. app' = [app EXCEPT !.pc = "late"] /\ app.pc # "wwait" /\ UNCHANGED <<rd, wr, source, sink>>
    BY <1>3, <1>7 DEF ReadPending
  <2> QED BY <1>4, <1>5, <2>1
<1>8. CASE ReadFails
  <2> DEFINE d == [app EXCEPT !.ended = TRUE, !.pc = After("r")]
  <2>1. app' = d /\ app.pc # "wwait" /\ UNCHANGED <<rd, wr, source, sink>> /\ ~Available(rd) /\ ~rd.pending /\ AtEnd
    BY <1>3, <1>8 DEF ReadFails
  <2>2. d \in AppRecord /\ d.pc = After("r") /\ d.buf = app.buf /\ d.copied = app.copied /\ d.ended
    BY <1>1, <1>2 DEF AppRecord
  <2> HIDE DEF d
  <2>3. Moves(app, d, Taken(app))
    BY <1>1, <1>2, <2>1, <2>2, MovesPlace
  <2>4. AllRead(rd, source)
    BY <1>1, <2>1 DEF ReadInv, Available, AtEnd, AllRead
  <2> QED BY <1>2, <2>1, <2>2, <2>3, <2>4, CopyMoves
<1>9. CASE ReadStarts
  <2> DEFINE i == IssuedRead(rd)
             v == WriteCompletion(wr)
  <2>1. /\ ~Available(rd) /\ ~rd.pending /\ app.pc # "wwait" /\ app' = [app EXCEPT !.pc = "rwait"] /\ sink' = sink
        /\ \/ /\ Completable /\ rd' = ReadCompletion(CompletedRead(i)) /\ wr' = v
              /\ source' = [source EXCEPT !.avail = SubSeq(@, Len(Given) + 1, Len(@))]
           \/ rd' = i /\ wr' = wr /\ source' = source
           \/ rd' = ReadCompletion(i) /\ wr' = v /\ source' = source
    BY <1>3, <1>9 DEF ReadStarts, SleepEx
  <2>2. Copy(i, source, wr, sink, app) /\ i.op = "issued"
    BY <1>1, <2>1, ReadIssued, CopyRead
  <2> HIDE DEF i
  <2>3. ReadInv(i, source)
    BY <2>2 DEF Copy
  <2>4. CASE rd' = i /\ wr' = wr /\ source' = source
    BY <1>4, <1>5, <2>1, <2>2, <2>4
  <2>5. CASE rd' = ReadCompletion(i) /\ wr' = v /\ source' = source
    <3>1. Copy(ReadCompletion(i), source, wr, sink, app)
      BY <2>2, <2>3, ReadNoted, CopyRead
    <3>2. Copy(ReadCompletion(i), source, v, sink, app)
      BY <3>1, CopyNoted
    <3> QED BY <1>4, <1>5, <2>1, <2>5, <3>2
  <2>6. CASE /\ Completable /\ rd' = ReadCompletion(CompletedRead(i)) /\ wr' = v
             /\ source' = [source EXCEPT !.avail = SubSeq(@, Len(Given) + 1, Len(@))]
    <3>1. ReadKept(i, source, CompletedRead(i), source')
      BY <2>2, <2>3, <2>6, ReadDone
    <3>2. Copy(CompletedRead(i), source', wr, sink, app)
      BY <2>2, <3>1, CopyRead
    <3>3. ReadInv(CompletedRead(i), source')
      BY <3>1 DEF ReadKept
    <3>4. Copy(ReadCompletion(CompletedRead(i)), source', wr, sink, app)
      BY <3>2, <3>3, ReadNoted, CopyRead
    <3>5. Copy(ReadCompletion(CompletedRead(i)), source', v, sink, app)
      BY <3>4, CopyNoted
    <3> QED BY <1>4, <1>5, <2>1, <2>6, <3>5
  <2> QED BY <2>1, <2>4, <2>5, <2>6
<1>10. CASE ReadWaits
  <2>1. PICK r \in {0, -1} : /\ wait_for_any_event(FALSE, r)
                             /\ app' = [app EXCEPT !.pc = IF r = 0 THEN @ ELSE "loop"]
    BY <1>10 DEF ReadWaits
  <2>2. app.pc \in {"rwait", "late"} /\ UNCHANGED <<source, sink>>
    BY <1>10 DEF ReadWaits
  <2>3. Copy(rd', source, wr', sink, app)
    BY <2>1, WaitCopies
  <2>4. \E pc \in {"rwait", "late", "loop"} : app' = [app EXCEPT !.pc = pc]
    <3>1. CASE r = 0
      <4>1. app' = [app EXCEPT !.pc = app.pc]
        BY <2>1, <3>1, <1>1 DEF AppRecord
      <4> QED BY <2>2, <4>1
    <3>2. CASE r # 0
      BY <2>1, <3>2
    <3> QED BY <3>1, <3>2
  <2> QED BY <1>4, <1>5, <2>2, <2>3, <2>4
<1>11. CASE ReadWaited
  <2>1. app.pc \in {"rwait", "late"} /\ Available(rd) /\ UNCHANGED <<wr, source, sink>>
        /\ ((app' = [app EXCEPT !.pc = "poll"] /\ rd' = rd) \/ Take)
    BY <1>11 DEF ReadWaited
  <2>2. CASE Take
    BY <2>1, <2>2, Takes
  <2>3. CASE app' = [app EXCEPT !.pc = "poll"] /\ rd' = rd
    BY <1>4, <1>5, <2>1, <2>3
  <2> QED BY <2>1, <2>2, <2>3
<1>12. CASE Turn
  <2>1. /\ app.pc # "wwait" /\ app' = [app EXCEPT !.pc = "poll"] /\ UNCHANGED <<wr, source, sink>>
        /\ rd' \in {rd, on_select(rd)}
    BY <1>12 DEF Turn
  <2>2. Copy(rd', source, wr, sink, app)
    BY <1>1, <2>1, ReadSelected, CopyRead
  <2> QED BY <1>4, <1>5, <2>1, <2>2
<1>13. CASE Select
  <2>1. PICK r : /\ wait_for_any_event(app.pc = "poll", r)
                 /\ app' = IF r = -1 THEN [app EXCEPT !.pc = "loop"]
                           ELSE IF IsReady = {} THEN [app EXCEPT !.pc = "select"]
                           ELSE [app EXCEPT !.pc = "io", !.ready = IsReady]
    BY <1>13 DEF Select
  <2>2. app.pc \in {"poll", "select"} /\ UNCHANGED <<source, sink>>
    BY <1>13 DEF Select
  <2>3. Copy(rd', source, wr', sink, app)
    BY <2>1, WaitCopies
  <2>4. IsReady \in SUBSET {"r", "w"}
    BY DEF IsReady, Interest
  <2> DEFINE d == [app EXCEPT !.pc = "io", !.ready = IsReady]
  <2>5. CASE app' = d
    <3>1. d \in AppRecord /\ d.pc = "io" /\ d.buf = app.buf /\ d.copied = app.copied /\ d.ended = app.ended
      BY <1>1, <2>4 DEF AppRecord, Places
    <3> HIDE DEF d
    <3>2. Moves(app, d, Taken(app))
      BY <1>1, <2>2, <3>1, MovesPlace
    <3>3. Copy(rd', source, wr', sink, d)
      BY <2>3, <3>1, <3>2, CopyMoves
    <3> QED BY <2>2, <2>5, <3>1, <3>3
  <2>6. CASE app' = [app EXCEPT !.pc = "loop"] \/ app' = [app EXCEPT !.pc = "select"]
    <3>1. PICK pc \in {"loop", "select"} : app' = [app EXCEPT !.pc = pc]
      BY <2>6
    <3>2. Copy(rd', source, wr', sink, [app EXCEPT !.pc = pc]) /\ [app EXCEPT !.pc = pc].pc # "wwait"
      BY <1>4, <1>5, <2>2, <2>3
    <3> QED BY <2>2, <3>1, <3>2
  <2> QED BY <2>1, <2>5, <2>6
<1> QED BY <1>6, <1>7, <1>8, <1>9, <1>10, <1>11, <1>12, <1>13

\* A wait is not interrupted when nothing can interrupt it.
LEMMA NoInterrupt ==
    ASSUME IInv, Undisturbed, setup.pids = 0, setup.signals \subseteq Quiet, NEW poll, NEW r, r = -1
    PROVE  ~wait_for_any_event(poll, r)
<1>1. Signalled(table, exited) = {}
  <2>1. table.kids = <<>> /\ table.nz \in Nat /\ table.nz <= Len(table.kids)
    BY DEF Undisturbed, IInv, TableInv, Table
  <2>2. Live(table) = 0
    BY <2>1 DEF Live
  <2> QED BY <2>2 DEF Signalled
<1>2. sig.pending \cup sig.apcs \subseteq Quiet
  BY DEF Undisturbed
<1>3. ~NotesChild(r)
  BY <1>1 DEF NotesChild
<1>4. ~RunsAPCs(r)
  BY <1>2 DEF RunsAPCs, sw_process_pending_signals
<1>5. ~TimesOut(r)
  BY DEF TimesOut
<1> QED BY <1>3, <1>4, <1>5 DEF wait_for_any_event

\* The calls that write.
LEMMA WriteCopies ==
    ASSUME IInv, CopyInv, Write \/ WritePending \/ WriteFails \/ WriteWaits \/ WriteWaited
    PROVE  Copy(rd', source', wr', sink', app') /\ (app'.pc = "wwait" => setup.blocking)
<1>1. /\ Copy(rd, source, wr, sink, app) /\ ReadInv(rd, source) /\ WriteInv(wr, sink) /\ AppInv(app)
      /\ app \in AppRecord /\ (app.pc = "wwait" => setup.blocking)
  BY DEF CopyInv, Copy, AppInv
<1>2. /\ app.copied \in Nat /\ app.copied <= Len(app.buf) /\ Len(app.buf) \in Nat /\ ChunkLen(app) \in Nat
      /\ app.copied + ChunkLen(app) <= Len(app.buf)
      /\ (app.pc # "wwait" => Taken(app) = app.copied) /\ (app.pc = "wwait" => Taken(app) = app.copied + ChunkLen(app))
  <2>1. /\ app.copied \in Nat /\ app.copied <= Len(app.buf) /\ Len(app.buf) \in Nat /\ ChunkLen(app) \in Nat
        /\ app.copied + ChunkLen(app) <= Len(app.buf)
    BY <1>1, AppTypes DEF AppInv
  <2> QED BY <2>1 DEF Taken
<1>3. Len(Chunk) = ChunkLen(app)
  BY <1>1, ChunkRun
<1>4. \A failure : /\ AppInv(Failed(failure)) /\ Failed(failure).pc # "wwait"
                   /\ failure # "broken" => /\ Moves(app, Failed(failure), app.copied)
                                            /\ Failed(failure).ended = app.ended
  BY <1>1, <1>2, WrittenFacts DEF Failed
<1> DEFINE c == ChunkTaken(Len(Chunk))
<1>5. Moves(app, c, app.copied + ChunkLen(app)) /\ c.pc # "wwait" /\ c.ended = app.ended
  BY <1>1, <1>3, ChunkFacts
<1> HIDE DEF c
<1>6. AtWrite => app.pc \notin {"wwait", "wlate"}
  BY DEF AtWrite
<1>7. ASSUME NEW pc \in {"wlate", "chunk"}, app.pc # "wwait"
      PROVE  Moves(app, [app EXCEPT !.pc = pc], Taken(app)) /\ [app EXCEPT !.pc = pc].ended = app.ended
             /\ [app EXCEPT !.pc = pc].pc # "wwait"
  <2> DEFINE d == [app EXCEPT !.pc = pc]
  <2>1. d \in AppRecord /\ d.pc = pc /\ d.buf = app.buf /\ d.copied = app.copied /\ d.ended = app.ended
    BY <1>1 DEF AppRecord, Places
  <2> HIDE DEF d
  <2>2. Moves(app, d, Taken(app))
    BY <1>1, <1>7, <2>1, MovesPlace
  <2> QED BY <2>1, <2>2 DEF d
<1>8. CASE WritePending
  <2>1. /\ app.pc # "wwait" /\ UNCHANGED <<rd, wr, source, sink>>
        /\ app' = Failed("again") \/ app' = [app EXCEPT !.pc = "wlate"]
    BY <1>6, <1>8 DEF WritePending
  <2>2. Moves(app, app', Taken(app)) /\ app'.ended = app.ended /\ app'.pc # "wwait"
    <3>1. CASE app' = Failed("again")
      BY <1>2, <1>4, <2>1, <3>1
    <3>2. CASE app' = [app EXCEPT !.pc = "wlate"]
      <4> DEFINE d == [app EXCEPT !.pc = "wlate"]
      <4>1. Moves(app, d, Taken(app)) /\ d.ended = app.ended /\ d.pc # "wwait"
        BY <1>7, <2>1
      <4> QED BY <3>2, <4>1
    <3> QED BY <2>1, <3>1, <3>2
  <2> QED BY <1>1, <2>1, <2>2, CopyMoves
<1>9. CASE WriteFails
  <2>1. /\ wr.error # "none" \/ sink.gone
        /\ wr' = [wr EXCEPT !.error = "none"] /\ app' = Failed("broken") /\ UNCHANGED <<rd, source, sink>>
    BY <1>9 DEF WriteFails
  <2>2. sink.gone
    BY <1>1, <2>1 DEF WriteInv
  <2>3. Copy(rd, source, wr', sink, app)
    BY <1>1, <2>1, CopyCleared
  <2>4. Copy(rd, source, wr', sink, Failed("broken"))
    BY <1>4, <2>2, <2>3, CopyLost
  <2> QED BY <1>4, <2>1, <2>4
<1>10. CASE Write
  <2> DEFINE v == IssuedWrite(wr)
             z == WriteCompletion(CompletedWrite(v))
             d == [app EXCEPT !.pc = "wwait"]
  <2>1. /\ app.pc # "wwait" /\ ~wr.pending /\ source' = source
        /\ \/ setup.blocking /\ wr' = v /\ app' = d /\ UNCHANGED <<rd, sink>>
           \/ rd' = ReadCompletion(rd) /\ Accepted(z, Len(Chunk)) /\ sink' = Filled(v)
           \/ rd' = ReadCompletion(rd) /\ Accepted(v, Len(Chunk)) /\ sink' = sink
    BY <1>6, <1>10 DEF Write, WriteBusy, SleepEx
  <2>2. Copy(rd, source, v, sink, c) /\ v.op = "issued" /\ v.pending
    BY <1>1, <1>5, <2>1, CopyIssued
  <2>3. Copy(ReadCompletion(rd), source, v, sink, c)
    BY <1>1, <2>2, ReadNoted, CopyRead
  <2>4. CASE setup.blocking /\ wr' = v /\ app' = d /\ UNCHANGED <<rd, sink>>
    <3>1. d \in AppRecord /\ d.pc = "wwait" /\ d.buf = app.buf /\ d.copied = app.copied /\ d.ended = app.ended
      BY <1>1 DEF AppRecord, Places
    <3> HIDE DEF d
    <3>2. AppInv(d) /\ Taken(d) = app.copied + ChunkLen(app)
      BY <1>1, <3>1 DEF AppInv, Taken, ChunkLen
    <3>3. Moves(app, d, app.copied + ChunkLen(app))
      BY <1>2, <3>1, <3>2 DEF Moves
    <3>4. Copy(rd, source, v, sink, d)
      BY <1>1, <2>1, <3>1, <3>3, CopyIssued
    <3> QED BY <2>1, <2>4, <3>4
  <2>5. CASE rd' = ReadCompletion(rd) /\ Accepted(v, Len(Chunk)) /\ sink' = sink
    <3>1. wr' = v /\ app' = c
      BY <2>2, <2>5 DEF Accepted, c
    <3> QED BY <1>5, <2>1, <2>3, <2>5, <3>1
  <2>6. CASE rd' = ReadCompletion(rd) /\ Accepted(z, Len(Chunk)) /\ sink' = Filled(v)
    <3>1. Copy(rd', source, CompletedWrite(v), sink', c)
      BY <2>2, <2>3, <2>6, CopyFilled
    <3>2. Copy(rd', source, z, sink', c)
      BY <3>1, CopyNoted
    <3>3. WriteInv(z, sink') /\ CompletedWrite(v) \in WriteRecord /\ v \in WriteRecord
      BY <2>2, <3>1, <3>2 DEF Copy, WriteInv
    <3>4. ~z.pending
      <4>1. CompletedWrite(v).op = "done"
        BY <3>3 DEF CompletedWrite, WriteRecord
      <4> QED BY <3>3, <4>1 DEF WriteCompletion, WriteRecord
    <3> HIDE DEF z
    <3>5. wr' = [z EXCEPT !.error = "none"] /\ app' = IF z.error # "none" THEN Failed("broken") ELSE c
      BY <2>6, <3>4 DEF Accepted, c
    <3>6. Copy(rd', source, wr', sink', c)
      BY <3>2, <3>5, CopyCleared
    <3>7. z.error # "none" => sink'.gone
      BY <3>3 DEF WriteInv
    <3>8. z.error # "none" => Copy(rd', source, wr', sink', Failed("broken"))
      BY <1>4, <3>6, <3>7, CopyLost
    <3> QED BY <1>4, <1>5, <2>1, <3>5, <3>6, <3>8
  <2> QED BY <2>1, <2>4, <2>5, <2>6
<1>11. CASE WriteWaits
  <2>1. PICK r \in {0, -1} :
            /\ wait_for_any_event(FALSE, r)
            /\ app' = IF r = -1 /\ (app.pc = "wlate" \/ wr'.pending) THEN Failed("eintr") ELSE app
    BY <1>11 DEF WriteWaits
  <2>2. app.pc \in {"wlate", "wwait"} /\ UNCHANGED <<source, sink>>
    BY <1>11 DEF WriteWaits
  <2>3. Copy(rd', source, wr', sink, app)
    BY <1>1, <2>1, WaitCopies
  <2>4. CASE app' = app
    BY <1>1, <2>2, <2>3, <2>4
  <2>5. CASE app' = Failed("eintr") /\ r = -1
    <3>1. CASE sink.gone
      BY <1>4, <2>2, <2>3, <2>5, <3>1, CopyLost
    <3>2. CASE ~sink.gone /\ Taken(app) = app.copied
      BY <1>4, <2>2, <2>3, <2>5, <3>2, CopyMoves
    <3>3. CASE ~sink.gone /\ app.pc = "wwait"
      <4>1. ~(setup.pids = 0 /\ setup.signals \subseteq Quiet)
        BY <2>1, <2>5, NoInterrupt DEF CopyInv
      <4>2. setup.bytes = 0 /\ source.sent = 0
        BY <1>1, <3>3, <4>1 DEF CopyInv, Undisturbed, Uninterrupted
      <4>3. Taken(app) = app.copied
        <5> DEFINE f == Out(sink) + Len(Flight(wr))
                   n == Len(app.buf)
                   k == ChunkLen(app)
                   h == app.copied
                   x == Len(source.avail)
                   y == Len(Inbox(rd))
        <5>1. f \in Nat
          BY <1>1, WriteTypes
        <5>2. Taken(app) <= f /\ f + (n - Taken(app)) = Got(rd, source)
          BY <1>1, <3>3 DEF Copy, Down
        <5>3. Got(rd, source) = 0 - x - y /\ x \in Nat /\ y \in Nat
          BY <1>1, <4>2, ReadTypes DEF Got
        <5>4. /\ n \in Nat /\ k \in Nat /\ h \in Nat /\ h + k <= n /\ h + k <= f
              /\ f + (n - (h + k)) = 0 - x - y
          BY <1>2, <3>3, <5>2, <5>3
        <5> HIDE DEF f, n, k, h, x, y
        <5>5. k = 0 /\ h + k = h
          BY ONLY <5>1, <5>3, <5>4
        <5> QED BY <1>2, <3>3, <5>5 DEF h, k
      <4> QED BY <3>2, <3>3, <4>3
    <3> QED BY <1>2, <2>2, <3>1, <3>2, <3>3
  <2> QED BY <2>1, <2>4, <2>5
<1>12. CASE WriteWaited
  <2>1. app.pc \in {"wlate", "wwait"} /\ ~wr.pending /\ UNCHANGED <<source, sink>>
    BY <1>12 DEF WriteWaited
  <2>2. CASE app.pc = "wlate"
    <3>1. app' = [app EXCEPT !.pc = "chunk"] /\ UNCHANGED <<rd, wr>>
      BY <1>12, <2>2 DEF WriteWaited
    <3>2. Moves(app, app', Taken(app)) /\ app'.ended = app.ended /\ app'.pc # "wwait"
      BY <1>7, <2>2, <3>1
    <3> QED BY <1>1, <2>1, <3>1, <3>2, CopyMoves
  <2>3. CASE app.pc = "wwait"
    <3>1. rd' = ReadCompletion(rd) /\ Accepted(wr, Len(Chunk))
      BY <1>12, <2>3 DEF WriteWaited, SleepEx
    <3>2. wr' = [wr EXCEPT !.error = "none"] /\ app' = IF wr.error # "none" THEN Failed("broken") ELSE c
      BY <2>1, <3>1 DEF Accepted, c
    <3>3. Copy(rd', source, wr, sink, app)
      BY <1>1, <3>1, ReadNoted, CopyRead
    <3>4. Copy(rd', source, wr', sink, app)
      BY <3>2, <3>3, CopyCleared
    <3>5. Copy(rd', source, wr', sink, c)
      BY <1>2, <1>5, <2>3, <3>4, CopyMoves
    <3>6. wr.error # "none" => sink.gone
      BY <1>1 DEF WriteInv
    <3>7. wr.error # "none" => Copy(rd', source, wr', sink, Failed("broken"))
      BY <1>4, <3>4, <3>6, CopyLost
    <3> QED BY <1>4, <1>5, <2>1, <3>2, <3>5, <3>7
  <2> QED BY <2>1, <2>2, <2>3
<1> QED BY <1>8, <1>9, <1>10, <1>11, <1>12

\* Closing the pipe, collecting children and starting them.
LEMMA OtherCopies ==
    ASSUME IInv, Copy(rd, source, wr, sink, app),
           Collect \/ Close \/ CloseWaits \/ CloseHandle \/ Reap \/ Spawn \/ WaitPid
    PROVE  Copy(rd', source', wr', sink', app') /\ (app'.pc = "wwait" => app' = app)
<1>1. ReadInv(rd, source) /\ WriteInv(wr, sink) /\ AppInv(app) /\ app \in AppRecord
  BY DEF Copy, AppInv
<1>2. CASE Collect \/ Reap \/ WaitPid
  BY <1>2 DEF Collect, Reap, WaitPid
<1>3. CASE Close
  <2> DEFINE d == [app EXCEPT !.pc = "close"]
  <2>1. app.pc = "loop" /\ app.ended /\ app.buf = <<>> /\ app' = d /\ UNCHANGED <<rd, wr, source, sink>>
    BY <1>3 DEF Close, Closing
  <2>2. d \in AppRecord /\ d.pc = "close" /\ d.buf = app.buf /\ d.copied = app.copied /\ d.ended = app.ended
    BY <1>1 DEF AppRecord, Places
  <2> HIDE DEF d
  <2>3. Moves(app, d, Taken(app))
    BY <1>1, <2>1, <2>2, MovesPlace
  <2> QED BY <2>1, <2>2, <2>3, CopyMoves
<1>4. ASSUME app.pc = "close"
      PROVE  /\ app.ended /\ app.buf = <<>> /\ Moves(app, Closed, Taken(app)) /\ Closed.ended = app.ended
             /\ Closed.pc = "loop" /\ Closed.buf = <<>>
  <2>1. app.ended /\ app.buf = <<>>
    BY <1>1, <1>4 DEF AppInv
  <2>2. /\ Closed \in AppRecord /\ Closed.pc = "loop" /\ Closed.buf = app.buf /\ Closed.copied = app.copied
        /\ Closed.ended = app.ended
    BY <1>1 DEF Closed, AppRecord, Places
  <2>3. Moves(app, Closed, Taken(app))
    BY <1>1, <1>4, <2>2, MovesPlace
  <2> QED BY <2>1, <2>2, <2>3
<1>5. CASE CloseWaits
  <2>1. PICK r \in {0, -1} : wait_for_any_event(FALSE, r) /\ app' = IF r = -1 THEN Closed ELSE app
    BY <1>5 DEF CloseWaits
  <2>2. app.pc = "close" /\ UNCHANGED <<source, sink>>
    BY <1>5 DEF CloseWaits
  <2>3. Copy(rd', source, wr', sink, app)
    BY <2>1, WaitCopies
  <2>4. Copy(rd', source, wr', sink, Closed)
    BY <1>4, <2>2, <2>3, CopyMoves
  <2> QED BY <1>4, <2>1, <2>2, <2>3, <2>4
<1>6. CASE CloseHandle
  <2> DEFINE v == [wr EXCEPT !.handle = "closed"]
  <2>1. /\ app.pc = "close" /\ ~wr.pending /\ rd' = ReadCompletion(rd) /\ wr' = v /\ app' = Closed
        /\ UNCHANGED <<source, sink>>
    BY <1>6 DEF CloseHandle, SleepEx
  <2>2. Copy(rd', source, wr, sink, app)
    BY <1>1, <2>1, ReadNoted, CopyRead
  <2>3. Copy(rd', source, wr, sink, Closed)
    BY <1>4, <2>1, <2>2, CopyMoves
  <2>4. wr \in WriteRecord /\ wr.op = "idle"
    BY <1>1, <2>1 DEF WriteInv
  <2>5. /\ v \in WriteRecord /\ v.op = "idle" /\ ~v.pending /\ v.buf = wr.buf /\ v.error = wr.error /\ v.err = wr.err
        /\ v.handle = "closed"
    BY <2>1, <2>4 DEF WriteRecord
  <2> HIDE DEF v
  <2>6. Flight(v) = <<>> /\ Flight(wr) = <<>>
    BY <2>4, <2>5 DEF Flight
  <2>7. WriteInv(v, sink)
    BY <1>1, <2>5 DEF WriteInv
  <2>8. Shut(v, sink, Closed)
    BY <1>4, <2>1, <2>6 DEF Shut
  <2>9. Copy(rd', source, v, sink, Closed)
    BY <2>3, <2>6, <2>7, <2>8 DEF Copy, Down
  <2> QED BY <1>4, <2>1, <2>9
<1>7. CASE Spawn
  <2> DEFINE d == [app EXCEPT !.spawned = app.spawned + 1]
  <2>1. app.pc = "loop" /\ app' = d /\ UNCHANGED <<rd, wr, source, sink>>
    BY <1>7 DEF Spawn
  <2>2. app.spawned + 1 \in Nat
    BY <1>1 DEF AppRecord
  <2>3. d \in AppRecord /\ d.pc = "loop" /\ d.buf = app.buf /\ d.copied = app.copied /\ d.ended = app.ended
    BY <1>1, <2>1, <2>2 DEF AppRecord
  <2> HIDE DEF d
  <2>4. Moves(app, d, Taken(app))
    BY <1>1, <2>1, <2>3, MovesPlace
  <2> QED BY <2>1, <2>3, <2>4, CopyMoves
<1> QED BY <1>2, <1>3, <1>5, <1>6, <1>7

\* Nothing turns up that could interrupt a write, or be written.
LEMMA StaysUndisturbed ==
    ASSUME IInv, Undisturbed, source \in SourceRecord, Next
    PROVE  Undisturbed' /\ setup' = setup
<1>1. setup' = setup
  <2>1. System => setup' = setup
    BY DEF System, Send, SourceEnds, ReadCompletes, WriteCompletes, Drain, SinkGone, ChildExit, Signal
  <2>2. Calls => setup' = setup
    BY DEF Calls, Collect, Turn, Select, Close, CloseWaits, CloseHandle, Read, ReadPending, ReadFails, ReadStarts,
           ReadWaits, ReadWaited, Write, WritePending, WriteFails, WriteWaits, WriteWaited
  <2>3. Reap \/ Spawn \/ WaitPid => setup' = setup
    BY DEF Reap, Spawn, WaitPid
  <2> QED BY <2>1, <2>2, <2>3 DEF Next, Program
<1>2. setup.bytes = 0 => source'.sent = 0
  <2>1. \/ source' = source
        \/ \E t : source' = [source EXCEPT !.avail = t]
        \/ \E how : source' = [source EXCEPT !.end = how]
        \/ Send
    <3>1. System => \/ source' = source \/ (\E t : source' = [source EXCEPT !.avail = t])
                    \/ (\E how : source' = [source EXCEPT !.end = how]) \/ Send
      BY DEF System, SourceEnds, ReadCompletes, WriteCompletes, Drain, SinkGone, ChildExit, Signal
    <3>2. Calls => source' = source \/ \E t : source' = [source EXCEPT !.avail = t]
      BY DEF Calls, Collect, Turn, Select, Close, CloseWaits, CloseHandle, Read, ReadPending, ReadFails, ReadStarts,
             ReadWaits, ReadWaited, Write, WritePending, WriteFails, WriteWaits, WriteWaited
    <3>3. Reap \/ Spawn \/ WaitPid => source' = source
      BY DEF Reap, Spawn, WaitPid
    <3> QED BY <3>1, <3>2, <3>3 DEF Next, Program
  <2>2. source.sent \in Nat /\ (setup.bytes = 0 => source.sent = 0)
    BY DEF SourceRecord, Undisturbed
  <2>3. Send => setup.bytes # 0
    BY <2>2 DEF Send
  <2> QED BY <2>1, <2>2, <2>3 DEF SourceRecord
<1> DEFINE Calm == /\ {"pending", "apcs"} \subseteq DOMAIN sig'
                   /\ sig'.pending \cup sig'.apcs \subseteq sig.pending \cup sig.apcs
<1>3. {"pending", "apcs"} \subseteq DOMAIN sig
  BY DEF Undisturbed
<1>4. Calm \/ Signal
  <2>1. sig' = sig => Calm
    BY <1>3
  <2>2. ASSUME NEW r, SleepEx(r) PROVE Calm
    BY <1>3, <2>2 DEF SleepEx
  <2>3. ASSUME NEW t, NEW s, NEW r, NEW q, q \in {{}, sig.apcs}, sw_process_pending_signals(t, s, q, r) PROVE Calm
    <3>1. /\ DOMAIN sig' = DOMAIN sig /\ sig'.pending = {} /\ sig'.apcs = q
      BY <1>3, <2>3 DEF sw_process_pending_signals
    <3> QED BY <1>3, <2>3, <3>1
  <2>4. ASSUME NEW poll, NEW r, wait_for_any_event(poll, r) PROVE Calm
    <3>1. sig' = sig \/ \E t, s : \E q \in {{}, sig.apcs} : sw_process_pending_signals(t, s, q, r)
      BY <2>4 DEF wait_for_any_event, NotesChild, RunsAPCs, TimesOut
    <3> QED BY <2>1, <2>3, <3>1
  <2>5. Collect \/ Reap => Calm
    BY <1>3 DEF Collect, Reap
  <2> HIDE DEF Calm
  <2>6. System => Calm \/ Signal
    BY <2>1 DEF System, Send, SourceEnds, ReadCompletes, WriteCompletes, Drain, SinkGone, ChildExit
  <2>7. Select \/ CloseWaits \/ ReadWaits \/ WriteWaits => Calm
    BY <2>4 DEF Select, CloseWaits, ReadWaits, WriteWaits
  <2>8. Turn \/ Close \/ Read \/ ReadPending \/ ReadFails \/ ReadWaited \/ WritePending \/ WriteFails => Calm
    BY <2>1 DEF Turn, Close, Read, ReadPending, ReadFails, ReadWaited, WritePending, WriteFails
  <2>9. ReadStarts \/ Write \/ WriteWaited \/ CloseHandle => Calm
    BY <2>1, <2>2 DEF ReadStarts, Write, WriteWaited, CloseHandle
  <2>10. Spawn \/ WaitPid => Calm
    BY <2>1 DEF Spawn, WaitPid
  <2> QED BY <2>5, <2>6, <2>7, <2>8, <2>9, <2>10 DEF Next, Program, Calls
<1>5. {"pending", "apcs"} \subseteq DOMAIN sig'
  BY <1>3, <1>4 DEF Signal
<1>6. ASSUME setup.pids = 0 PROVE table'.kids = <<>> /\ sig'.pending \cup sig'.apcs \subseteq setup.signals
  <2>1. /\ table.kids = <<>> /\ sig.pending \cup sig.apcs \subseteq setup.signals
        /\ table.nz \in Nat /\ table.nz <= Len(table.kids) /\ app.spawned \in Nat
    BY <1>6 DEF Undisturbed, IInv, TableInv, Table
  <2>2. Signalled(table, exited) = {} /\ table.nz = 0
    BY <2>1 DEF Signalled, Live
  <2>3. sig'.pending \cup sig'.apcs \subseteq setup.signals
    BY <1>3, <1>4, <2>1 DEF Signal
  <2>4. ASSUME NEW poll, NEW r, wait_for_any_event(poll, r) PROVE table' = table
    BY <2>2, <2>4 DEF wait_for_any_event, NotesChild, RunsAPCs, TimesOut, sw_process_pending_signals
  <2>5. table' = table
    <3>1. System => table' = table
      BY DEF System, Send, SourceEnds, ReadCompletes, WriteCompletes, Drain, SinkGone, ChildExit, Signal
    <3>2. Select \/ CloseWaits \/ ReadWaits \/ WriteWaits => table' = table
      BY <2>4 DEF Select, CloseWaits, ReadWaits, WriteWaits
    <3>3. Calls => table' = table
      BY <3>2 DEF Calls, Collect, Turn, Close, CloseHandle, Read, ReadPending, ReadFails, ReadStarts,
                  ReadWaited, Write, WritePending, WriteFails, WriteWaited
    <3>4. Reap => table' = table
      BY <2>2 DEF Reap, ReapOne
    <3>5. ~Spawn /\ ~WaitPid
      BY <1>6, <2>1 DEF Spawn, WaitPid
    <3> QED BY <3>1, <3>3, <3>4, <3>5 DEF Next, Program
  <2> QED BY <2>1, <2>3, <2>5
<1> QED BY <1>1, <1>2, <1>5, <1>6 DEF Undisturbed

\* Every step keeps the invariant of the copy.
LEMMA StepCopies == IInv /\ CopyInv /\ [Next]_vars => CopyInv'
<1> SUFFICES ASSUME IInv, CopyInv, [Next]_vars PROVE CopyInv'
  OBVIOUS
<1>1. Copy(rd, source, wr, sink, app) /\ Undisturbed /\ source \in SourceRecord
  BY DEF CopyInv, Copy, ReadInv
<1>2. CASE UNCHANGED vars
  <2>1. /\ rd' = rd /\ source' = source /\ wr' = wr /\ sink' = sink /\ app' = app
        /\ setup' = setup /\ table' = table /\ sig' = sig
    BY <1>2 DEF vars
  <2>2. Copy(rd', source', wr', sink', app') /\ (app'.pc = "wwait" => setup'.blocking)
    BY <2>1, Zenon DEF CopyInv
  <2>3. Undisturbed'
    BY <1>1, <2>1 DEF Undisturbed, Uninterrupted
  <2> QED BY <2>2, <2>3 DEF CopyInv
<1>3. CASE Next
  <2>1. Undisturbed' /\ setup' = setup
    BY <1>1, <1>3, StaysUndisturbed
  <2>2. Copy(rd', source', wr', sink', app') /\ (app'.pc = "wwait" => setup.blocking)
    <3>1. CASE System
      BY <1>1, <3>1, SystemCopies DEF CopyInv
    <3>2. CASE Collect \/ Close \/ CloseWaits \/ CloseHandle \/ Reap \/ Spawn \/ WaitPid
      BY <1>1, <3>2, OtherCopies DEF CopyInv
    <3>3. CASE Read \/ ReadPending \/ ReadFails \/ ReadStarts \/ ReadWaits \/ ReadWaited \/ Turn \/ Select
      BY <1>1, <3>3, ReadCopies
    <3>4. CASE Write \/ WritePending \/ WriteFails \/ WriteWaits \/ WriteWaited
      BY <3>4, WriteCopies
    <3> QED BY <1>3, <3>1, <3>2, <3>3, <3>4 DEF Next, Program, Calls
  <2> QED BY <2>1, <2>2 DEF CopyInv
<1> QED BY <1>2, <1>3

\* At the start everything is empty.
LEMMA InitCopies == (\A s \in Setups : Uninterrupted(s)) /\ Init => CopyInv
<1> SUFFICES ASSUME \A s \in Setups : Uninterrupted(s), Init PROVE CopyInv
  OBVIOUS
<1>1. /\ rd = Reading /\ wr = Writing /\ setup \in Setups /\ table = NoChildren
      /\ app = [pc |-> "loop", buf |-> <<>>, ended |-> FALSE, ready |-> {}, copied |-> 0, spawned |-> 0, open |-> TRUE]
      /\ source = [sent |-> 0, avail |-> <<>>, end |-> "none"]
      /\ sink = [pipe |-> <<>>, drained |-> <<>>, gone |-> FALSE]
      /\ {"pending", "apcs"} \subseteq DOMAIN sig /\ sig.pending = {} /\ sig.apcs = {}
  BY DEF Init
<1>2. <<>> \in Seq(Nat) /\ Len(<<>>) = 0
  BY EmptySeq
<1>3. ReadInv(rd, source) /\ Got(rd, source) = 0
  <2>1. rd \in ReadRecord /\ source \in SourceRecord
    BY <1>1, <1>2 DEF Reading, ReadRecord, SourceRecord
  <2>2. /\ rd.ready = <<>> /\ rd.got = <<>> /\ rd.error = "none" /\ rd.err = "none" /\ rd.op = "idle" /\ ~rd.pending
        /\ source.avail = <<>> /\ source.sent = 0
    BY <1>1 DEF Reading
  <2>3. Inbox(rd) = <<>>
    BY <2>2 DEF Inbox
  <2>4. Got(rd, source) = 0
    <3>1. Len(source.avail) = 0 /\ Len(Inbox(rd)) = 0 /\ source.sent = 0
      BY <1>2, <2>2, <2>3, Zenon
    <3> QED BY <3>1 DEF Got
  <2> QED BY <2>1, <2>2, <2>3, <2>4, RunEmpty DEF ReadInv
<1>4. WriteInv(wr, sink) /\ Out(sink) = 0 /\ Flight(wr) = <<>> /\ wr.handle = "open"
  <2>1. wr \in WriteRecord /\ sink \in SinkRecord
    BY <1>1, <1>2 DEF Writing, WriteRecord, SinkRecord
  <2>2. /\ wr.error = "none" /\ wr.err = "none" /\ wr.op = "idle" /\ ~wr.pending /\ wr.handle = "open"
        /\ sink.pipe = <<>> /\ sink.drained = <<>>
    BY <1>1 DEF Writing
  <2> QED BY <1>2, <2>1, <2>2, RunEmpty DEF WriteInv, Out, Flight
<1>5. AppInv(app) /\ Taken(app) = 0 /\ app.buf = <<>> /\ ~app.ended /\ app.pc = "loop"
  <2>1. app \in AppRecord /\ app.buf = <<>> /\ ~app.ended /\ app.pc = "loop" /\ app.copied = 0
    BY <1>1, <1>2 DEF AppRecord, Places
  <2>2. 0 <= AppBuffer
    BY SizeAssumption
  <2> QED BY <1>2, <2>1, <2>2 DEF AppInv, Taken
<1>6. Down(sink, wr, app, Got(rd, source))
  BY <1>2, <1>3, <1>4, <1>5, RunEmpty DEF Down
<1>7. Ended(app, rd, source, sink) /\ Shut(wr, sink, app)
  BY <1>4, <1>5 DEF Ended, Shut
<1>8. Undisturbed
  BY <1>1 DEF Undisturbed, NoChildren
<1> QED BY <1>3, <1>4, <1>5, <1>6, <1>7, <1>8 DEF CopyInv, Copy

\* What came out of the pipe and is in it is as the property says.
LEMMA CopyIsFaithful == CopyInv => CopyFaithful
<1> SUFFICES ASSUME CopyInv PROVE CopyFaithful
  OBVIOUS
<1>1. /\ ReadInv(rd, source) /\ WriteInv(wr, sink) /\ AppInv(app)
      /\ ~sink.gone => Down(sink, wr, app, Got(rd, source))
      /\ Ended(app, rd, source, sink) /\ Shut(wr, sink, app)
  BY DEF CopyInv, Copy
<1>2. /\ Delivered \in Seq(Nat) /\ Len(Delivered) = Out(sink) /\ Run(Delivered, 0)
  <2>1. /\ sink.drained \in Seq(Nat) /\ sink.pipe \in Seq(Nat) /\ Len(sink.drained) \in Nat
        /\ Run(sink.drained, 0) /\ Run(sink.pipe, Len(sink.drained))
    BY <1>1, WriteTypes DEF WriteInv
  <2>2. Run(sink.pipe, 0 + Len(sink.drained))
    BY <2>1
  <2> QED BY <2>1, <2>2, RunCat DEF Delivered, Out
<1>3. Delivered = Numbered(Len(Delivered))
  <2>1. Len(Delivered) \in Nat /\ Delivered \in [1..Len(Delivered) -> Nat]
    BY <1>2, LenProperties
  <2>2. \A i \in 1..Len(Delivered) : Delivered[i] = i
    BY <1>2, <2>1 DEF Run
  <2> DEFINE n == Len(Delivered)
             t == Delivered
  <2>3. t \in [1..n -> Nat] /\ \A i \in 1..n : t[i] = i
    BY <2>1, <2>2
  <2> HIDE DEF n, t
  <2>4. t = [i \in 1..n |-> i]
    BY <2>3
  <2> QED BY <2>4 DEF n, t, Numbered
<1>4. ASSUME wr.handle = "closed", ~sink.gone PROVE Len(Delivered) = source.sent
  <2>1. app.ended /\ app.buf = <<>> /\ Flight(wr) = <<>>
    BY <1>1, <1>4 DEF Shut
  <2>2. source.avail = <<>> /\ Inbox(rd) = <<>>
    BY <1>1, <1>4, <2>1 DEF Ended, AllRead, Inbox
  <2>3. Len(<<>>) = 0 /\ source.sent \in Nat /\ Out(sink) \in Nat
    BY <1>1, ReadTypes, WriteTypes
  <2>4. Got(rd, source) = source.sent
    BY <2>2, <2>3 DEF Got
  <2>5. Taken(app) = 0
    BY <1>1, <2>1, <2>3, AppTypes
  <2>6. Out(sink) + Len(Flight(wr)) + (Len(app.buf) - Taken(app)) = Got(rd, source)
    BY <1>1, <1>4 DEF Down
  <2>7. Out(sink) + 0 + (0 - 0) = source.sent
    BY <2>1, <2>3, <2>4, <2>5, <2>6
  <2>8. Out(sink) = source.sent
    BY <2>3, <2>7
  <2> QED BY <1>2, <2>8
<1> QED BY <1>3, <1>4 DEF CopyFaithful

\* Where no blocking write can be interrupted, what comes out of the pipe is
\* what was sent, in order, without loss or repetition, and all of it once the
\* pipe is closed after an orderly end: whatever the sizes of the buffers and
\* of the pipe, however the operations complete and whatever interrupts the
\* other calls (fileio_read, socketio_recv, fileio_write, fileio_close).
\* Where one can be, fileio_write gives EINTR for bytes it has already handed
\* to the system, and the theorem fails.
THEOREM CopiesAreFaithful == (\A s \in Setups : Uninterrupted(s)) /\ Spec => []CopyFaithful
<1>1. CASE \A s \in Setups : Uninterrupted(s)
  <2>1. Init => CopyInv
    BY <1>1, InitCopies
  <2>2. Spec => []CopyInv
    BY <2>1, StepCopies, Invariant, PTL DEF Spec
  <2> QED BY <2>2, CopyIsFaithful, PTL
<1>2. CASE ~\A s \in Setups : Uninterrupted(s)
  BY <1>2
<1> QED BY <1>1, <1>2
=============================================================================
