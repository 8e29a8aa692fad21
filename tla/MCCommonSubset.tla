--------------------------- MODULE MCCommonSubset ---------------------------
(***************************************************************************)
(* More than a third of the nodes is faulty: the code compares with N - F  *)
(* only, and its parts, which need N >= 3F + 1, are assumed.  Thus two     *)
(* honest nodes and two proposals that may be left out fit in an instance. *)
(***************************************************************************)
EXTENDS CommonSubset

CONSTANT tx

MCValue == {tx}
=============================================================================
