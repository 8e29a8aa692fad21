--------------------------- MODULE MCHoneyBadger ---------------------------
(***************************************************************************)
(* Two honest nodes and a faulty one (N = 3, F = 1), two rounds.  Node 2   *)
(* sends one node a share list that is wrong for its own proposal only,    *)
(* and the other node an unknown tag and a round below 0, early or late.   *)
(***************************************************************************)
EXTENDS HoneyBadger

CONSTANTS ta, tb

MCTx == {ta, tb}
MCClients == [n \in {0, 1} |-> IF n = 0 THEN {ta} ELSE {tb}]

MCFaultyProposal == [r \in Round |-> IF r = 0 THEN {Undecryptable} ELSE {ta, Malformed}]
FromTwo(r, tag, valid) == [from |-> 2, round |-> r, tag |-> tag, valid |-> valid]
SharesAndNoise == [n \in {0, 1} |->
    IF n = 0 THEN {FromTwo(1, "TPKE", {0, 1})} ELSE {FromTwo(0, "Unknown", {}), FromTwo(BadRound, "TPKE", {})}]
=============================================================================
