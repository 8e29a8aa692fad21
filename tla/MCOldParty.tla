----------------------------- MODULE MCOldParty -----------------------------
(***************************************************************************)
(* Four nodes of which one, any of them, crashes.  The nodes other than    *)
(* the leader are interchangeable.                                         *)
(***************************************************************************)
EXTENDS OldParty, TLC
CONSTANTS n1, n2, n3, n4
MCNode == {n1, n2, n3, n4}
Sym == Permutations({n2, n3, n4})
=============================================================================
