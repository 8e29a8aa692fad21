-------------------------- MODULE MCAgreementNode --------------------------
(***************************************************************************)
(* Node n1 of four, with two peers that may do the same; the third is      *)
(* silent.  Either the peers send enough for the node to decide in round 0 *)
(* and to quit in round 1, or they contradict themselves in round 0.       *)
(***************************************************************************)
EXTENDS AgreementNode, TLC

CONSTANTS n1, n2, n3, n4

MCNode == {n1, n2, n3, n4}

Bit(type, from, r, v) == [type |-> type, from |-> from, round |-> r, v |-> v]
Vote(from, r, vs) == [type |-> "CONF", from |-> from, round |-> r, vs |-> vs]

Helpful ==
    UNION {{Bit("EST", n, r, 1), Bit("AUX", n, r, 1), Vote(n, r, {1})} : n \in {n2, n3}, r \in Round}
Contradictory ==
    UNION {{Bit("EST", n, 0, v), Bit("AUX", n, 0, v)} : n \in {n2, n3}, v \in Bits}
        \cup {Vote(n, 0, Bits) : n \in {n2, n3}}
FromPeers == {Helpful, Contradictory}

\* Duplicates.
Echoed == {Bit("EST", n, 0, 0) : n \in {n2, n3}}

\* What no assertion lets through.
Unreadable == {[type |-> "AUX", from |-> n2, round |-> 0, v |-> 2]}

PeerSymmetry == Permutations({n2, n3})

MCCoins == {[r \in Round |-> 1]}
=============================================================================
