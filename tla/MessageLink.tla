---------------------------- MODULE MessageLink ----------------------------
(***************************************************************************)
(* What the transport promises to what runs on top of it: each end's       *)
(* messages, numbered as they are handed over, reach the other end in      *)
(* order and each exactly once.                                            *)
(***************************************************************************)
EXTENDS Naturals, Sequences

VARIABLES pending,  \* [End -> messages handed over and not yet read by the peer]
          taken     \* [End -> number of the last message read from the peer]

End == {"client", "server"}
Peer(e) == IF e = "client" THEN "server" ELSE "client"

Init == pending = [e \in End |-> <<>>] /\ taken = [e \in End |-> 0]

\* The next number is one more than the last one handed over.
Send(e) ==
    LET last == IF pending[e] = <<>> THEN taken[Peer(e)] ELSE pending[e][Len(pending[e])]
    IN  /\ pending' = [pending EXCEPT ![e] = Append(@, last + 1)]
        /\ UNCHANGED taken

Take(e) ==
    /\ pending[Peer(e)] # <<>>
    /\ taken' = [taken EXCEPT ![e] = Head(pending[Peer(e)])]
    /\ pending' = [pending EXCEPT ![Peer(e)] = Tail(@)]

Next == \E e \in End : Send(e) \/ Take(e)

Spec == Init /\ [][Next]_<<pending, taken>>
=============================================================================
