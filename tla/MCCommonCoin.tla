---------------------------- MODULE MCCommonCoin ----------------------------
(***************************************************************************)
(* Four nodes, one faulty that may send each valid and each invalid share, *)
(* and one for a round below 0, and one round.  Rounds have no state in    *)
(* common but the receive greenlet, which CommonCoinProofs covers for any  *)
(* set of them.                                                            *)
(***************************************************************************)
EXTENDS CommonCoin

CONSTANTS n1, n2, n3, n4

MCNode == {n1, n2, n3, n4}
OneRound == {0}
OneByte == [r \in OneRound |-> 255]

AnyShare == {s \in ShareMsg : s.from \in Faulty}
=============================================================================
