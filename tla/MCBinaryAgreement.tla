------------------------- MODULE MCBinaryAgreement -------------------------
(***************************************************************************)
(* Four nodes, n1 faulty.  The runs differ in the number of rounds and in  *)
(* what n1 may send.                                                       *)
(***************************************************************************)
EXTENDS BinaryAgreement, TLC

CONSTANTS n1, n2, n3, n4

MCNode == {n1, n2, n3, n4}

\* n1 speaks for 1 to some nodes and not to others, and sends two CONF in round
\* 0 but only one in round 1.
TwoFaced ==
    {Est(n1, 0, 1), Aux(n1, 0, 1), Conf(n1, 0, {0}), Conf(n1, 0, {1}), Conf(n1, 1, {1})}

\* It also repeats a message to any of the others, or to none.
Anyone == Honest \X {"agreement"}
Nobody == {}

\* 0 and 1 play the same part but for n1, whose value comes up first.
FirstCoinOne == {c \in [Round -> Bits] : c[0] = 1}

\* n1 takes part twice: it helps 0 into one node's bin_values, and 1 through
\* round 1.
Helping == {Est(n1, 0, 0), Conf(n1, 0, {1}), Aux(n1, 1, 1), Conf(n1, 1, {1})}

\* The coin repeats itself, so that nodes quit as early as they can.
AllOne == {[r \in Round |-> 1]}

HonestSymmetry == Permutations(Honest)

\* Tallies and messages of a round that every running node has left are never
\* read again: states that differ in nothing else are one.
Left(r) == \A n \in Honest : pc[n] \in {"quit", "beyond"} \/ round[n] > r
LiveView ==
    <<pc, vi, round, est, already_decided, values, coin, ended,
      [n \in Honest |-> [r \in Round |-> IF Left(r) THEN {} ELSE bin_values[n][r]]],
      {m \in msgs : ~Left(m.round)}>>
=============================================================================
