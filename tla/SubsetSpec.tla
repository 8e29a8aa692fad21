----------------------------- MODULE SubsetSpec -----------------------------
(***************************************************************************)
(* What commonsubset() promises to the block: every honest node gets the   *)
(* same selection of the N proposals, at least N - F of them, each of them *)
(* as it was broadcast.                                                    *)
(***************************************************************************)
EXTENDS Integers, FiniteSets

CONSTANTS Node, Honest, F, Value, None

VARIABLES
    proposal,   \* what is broadcast by each node, if its broadcast succeeds
    output      \* output[n][j]: the j-th entry of the tuple n was given

specVars == <<proposal, output>>

Nothing == [j \in Node |-> None]

Init ==
    /\ DOMAIN proposal = Node
    /\ output = [n \in Honest |-> Nothing]

Finish(n) ==
    /\ output[n] = Nothing
    /\ \E S \in SUBSET Node :
         /\ \A j \in S : proposal[j] \in Value
         /\ Cardinality(S) >= Cardinality(Node) - F
         /\ output' = [output EXCEPT ![n] = [j \in Node |-> IF j \in S THEN proposal[j] ELSE None]]
    /\ \A q \in Honest : output[q] \in {Nothing, output'[n]}
    /\ UNCHANGED proposal

Next == \E n \in Honest : Finish(n)

Spec == Init /\ [][Next]_specVars
=============================================================================
