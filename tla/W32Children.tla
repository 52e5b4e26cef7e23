---------------------------- MODULE W32Children ----------------------------
(***************************************************************************)
(* signal_sigchld.c: the table of child processes that stands in for       *)
(* POSIX's children in the Windows build.  It is an array whose first      *)
(* entries are children not known to have exited and whose last nz ones    *)
(* are zombies; entries move when one is added, removed or becomes a       *)
(* zombie.  An entry holds the pid (with its process handle) and the user  *)
(* profile, with the token to unload it, that belongs to the child.        *)
(* Profiles are named by the pid they were loaded for.  Beside the array   *)
(* the record keeps what was done so far: the children registered, those   *)
(* given a profile, those reported to waitpid and the profiles unloaded.   *)
(***************************************************************************)
EXTENDS Integers, SequencesExt

CONSTANT MaxChildren        \* MAX_CHILDREN

NoProfile == 0

NoChildren == [kids |-> <<>>, nz |-> 0, registered |-> {}, loaded |-> {},
               reaped |-> {}, unloaded |-> {}]

Live(t) == Len(t.kids) - t.nz
IndexOf(t, pid) == CHOOSE i \in DOMAIN t.kids : t.kids[i].pid = pid

\* Mutant: no zombie is moved to make room, and the last live child is lost.
OverwrittenChild(t, pid) ==
    LET new == [pid |-> pid, profile |-> NoProfile]
    IN  [t EXCEPT !.kids = IF t.nz > 0 /\ Live(t) > 0 THEN [@ EXCEPT ![Live(t)] = new]
                           ELSE InsertAt(@, Live(t) + 1, new),
                  !.registered = @ \cup {pid}]

\* The new child takes the place of the first zombie, which moves to the end.
register_child(t, pid) ==
    LET new == [pid |-> pid, profile |-> NoProfile]
        first == Live(t) + 1
    IN  [t EXCEPT !.kids = IF t.nz > 0 THEN Append([@ EXCEPT ![first] = new], @[first])
                           ELSE Append(@, new),
                  !.registered = @ \cup {pid}]

register_child_profile(t, pid) ==
    [t EXCEPT !.kids[IndexOf(t, pid)].profile = pid, !.loaded = @ \cup {pid}]

\* The gap left at index i is filled by the last entry of its part, and the
\* gap this leaves among the live ones by the last zombie.
sw_remove_child_at_index(t, i) ==
    LET n == Len(t.kids)
        last == Live(t)
        k == IF t.nz = 0 \/ i > last THEN [t.kids EXCEPT ![i] = t.kids[n]]
             ELSE [t.kids EXCEPT ![i] = t.kids[last], ![last] = t.kids[n]]
    IN  [t EXCEPT !.kids = Front(k),
                  !.nz = IF i > last THEN @ - 1 ELSE @,
                  !.reaped = @ \cup {t.kids[i].pid},
                  !.unloaded = @ \cup ({t.kids[i].profile} \ {NoProfile})]

\* Mutant: the profile stays behind when entries are swapped.
SwappedWithoutProfile(t, i) ==
    LET last == Live(t)
    IN  [t EXCEPT !.kids = [@ EXCEPT ![i].pid = t.kids[last].pid,
                                     ![last].pid = t.kids[i].pid],
                  !.nz = @ + 1]

sw_child_to_zombie(t, i) ==
    LET last == Live(t)
    IN  [t EXCEPT !.kids = [@ EXCEPT ![i] = t.kids[last], ![last] = t.kids[i]],
                  !.nz = @ + 1]

\* The indices of children not known to have exited whose handle is signalled.
Signalled(t, exited) == {i \in 1 .. Live(t) : t.kids[i].pid \in exited}
First(S) == CHOOSE i \in S : \A j \in S : i <= j

\* waitpid(-1, ..., WNOHANG): a zombie if there is one, else the first child
\* found to have exited.
ReapOne(t, exited) ==
    IF t.nz > 0 THEN sw_remove_child_at_index(t, Len(t.kids))
    ELSE IF Signalled(t, exited) # {}
         THEN sw_remove_child_at_index(t, First(Signalled(t, exited)))
         ELSE t

\* waitpid(pid, ..., 0), which returns when the child has exited.
ReapPid(t, pid) == sw_remove_child_at_index(t, IndexOf(t, pid))
=====
