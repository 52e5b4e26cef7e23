---------------------------- MODULE MCTransport ----------------------------
(* Instances of Transport for TLC. *)
EXTENDS Transport

Each(n) == [e \in End |-> n]
Base == [strict |-> TRUE, gex |-> FALSE, delayed |-> TRUE, max_blocks |-> 2, block_size |-> 2,
         hard_blocks |-> 16, seq_wrap |-> 16, data |-> Each(1), ctl |-> Each(1), tries |-> 1, due |-> Each(1)]

Connections ==
    { Base,
      \* limits so small that each packet starts another exchange
      [Base EXCEPT !.max_blocks = 1, !.tries = 0],
      \* sequence numbers that run on and wrap; a server that talks much more than its client
      [Base EXCEPT !.strict = FALSE, !.gex = TRUE, !.max_blocks = 1, !.block_size = 1, !.seq_wrap = 10,
                   !.data = [e \in End |-> IF e = "server" THEN 4 ELSE 1], !.ctl = Each(0)] }
=============================================================================
